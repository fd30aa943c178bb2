------------------------------ MODULE ModelStore ------------------------------
(***************************************************************************)
(* What preparing models on a peer promises, whatever installations copy   *)
(* there at once: the peer's model folders are a store whose names are     *)
(* given a content once and for all, and each preparation is told once,    *)
(* a failure or the content that is there under its name.                  *)
(***************************************************************************)
CONSTANTS
  Tasks,     \* preparations of one file
  Names,     \* where files go on the peer
  NameOf,    \* the name each preparation wants
  Contents,
  Absent     \* no file; also: nothing was told yet

VARIABLES
  store,     \* the content under each name
  told       \* what each preparation was told

vars == <<store, told>>

Init ==
  /\ store = [n \in Names |-> Absent]
  /\ told = [t \in Tasks |-> Absent]

Put(n) ==
  /\ store[n] = Absent
  /\ \E c \in Contents : store' = [store EXCEPT ![n] = c]
  /\ UNCHANGED told

Tell(t) ==
  /\ told[t] = Absent
  /\ \/ told' = [told EXCEPT ![t] = "failed"]
     \/ /\ store[NameOf[t]] # Absent
        /\ told' = [told EXCEPT ![t] = store[NameOf[t]]]
  /\ UNCHANGED store

Next == (\E n \in Names : Put(n)) \/ \E t \in Tasks : Tell(t)

Spec == Init /\ [][Next]_vars

===============================================================================
