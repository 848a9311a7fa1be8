----------------------------- MODULE MCSelection -----------------------------
(***************************************************************************)
(* Selection in mailboxes of up to three messages: every message set of    *)
(* one element or two, and every search key of up to two levels.           *)
(***************************************************************************)
EXTENDS Selection

MCMailboxes ==
  {[uids |-> u, sequences |-> [Recent |-> r, Seen |-> s, replied |-> {1, 2}, work |-> {2, 3}], test |-> {1, 3}] :
     u \in {<<2>>, <<1, 3>>, <<1, 2, 4>>}, r \in {{}, {1}, {3}}, s \in {{2}, {1, 3}}}
    \cup {[uids |-> << >>, sequences |-> << >>, test |-> {}]}

Ends == {Star} \cup 0..4

Elements == {<<n>> : n \in Ends} \cup (Ends \X Ends)

MCSets == {<<e>> : e \in Elements} \cup {<<e, f>> : e \in Elements, f \in {<<1>>, <<Star>>, <<2, 3>>, <<3, Star>>}}

Leaves ==
  {<<name>> : name \in {"ALL", "TEST", "NEW"} \cup DOMAIN Flags \cup DOMAIN NotFlags}
    \cup {<<name, flag>> : name \in {"KEYWORD", "UNKEYWORD"}, flag \in {"work", "Seen", "none"}}
    \cup {<<name, set>> : name \in {"SET", "UID"},
            set \in {<<<<2>>>>, <<<<1>>, <<Star>>>>, <<<<2, Star>>>>, <<<<3, 1>>>>, <<<<1>>, <<Star, 2>>>>}}

Nodes(keys) ==
  {<<"NOT", k>> : k \in keys} \cup {<<"AND", k>> : k \in keys}
    \cup {<<name, k, l>> : name \in {"OR", "AND"}, k \in keys, l \in keys}

MCKeys == Leaves \cup Nodes(Leaves) \cup {<<"NOT", k>> : k \in Nodes({<<"NEW">>, <<"TEST">>, <<"SET", <<<<2, 3>>>>>>})}

MCNextUids == {<<5, 6, 7>>, <<5, 7, 8>>, <<5, 6, 9>>, <<5, 7, 9>>}
=============================================================================
