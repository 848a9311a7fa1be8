SPECIFICATION Spec
CONSTANTS
  Mailboxes <- MCMailboxes
  Sets <- MCSets
  Keys <- MCKeys
  NextUids <- MCNextUids
  Fail = Fail
INVARIANT FindsWhatIsMeant
