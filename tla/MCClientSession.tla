-------------------------- MODULE MCClientSession --------------------------
(* One session mostly watches, the other mostly changes the mailbox. *)
EXTENDS ClientSession

CONSTANTS watcher, changer

MCOffered ==
  (watcher :> {"IDLE", "NOOP", "LIST", "FETCH", "SEARCH", "STORE", "SELECT", "UNSELECT", "LOGOUT"})
    @@ (changer :> {"STORE", "EXPUNGE", "MOVE", "APPEND", "CHECK", "CLOSE", "DELETE", "EXAMINE", "COPY"})
=============================================================================
