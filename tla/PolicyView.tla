------------------------------ MODULE PolicyView ------------------------------
(***************************************************************************)
(* What the generated informer and lister promise a program about the      *)
(* policies in the API server, with no word about factories, reflectors    *)
(* or queues.                                                              *)
(*                                                                         *)
(* Every key is seen as of some revision of the store, not the same one    *)
(* for all, and never as of an earlier one than before.  While the program *)
(* serves, no key is seen as of a revision older than what the API server  *)
(* could still serve when the program began.                               *)
(***************************************************************************)
EXTENDS Integers

CONSTANT ViewKeys \* the keys of the policies in view

VARIABLES
  revision, \* of the store
  oldest,   \* the first revision the API server can still serve
  began,    \* oldest, when the program began
  view,     \* key -> the revision it is seen as of; -1: nothing known
  serving   \* the program decides by what it sees

viewVars == <<revision, oldest, began, view, serving>>

Blind == [k \in ViewKeys |-> -1]

ViewInit ==
  /\ revision \in Nat /\ oldest = revision /\ began = oldest
  /\ view = Blind /\ serving = FALSE

(* The store changes, or forgets what it was. *)
Change ==
  /\ revision' >= revision
  /\ oldest' >= oldest /\ oldest' <= revision'
  /\ UNCHANGED <<began, view, serving>>

Advance ==
  /\ view' \in [ViewKeys -> -1..revision]
  /\ \A k \in ViewKeys : view'[k] >= view[k]
  /\ UNCHANGED <<revision, oldest, began, serving>>

Serve ==
  /\ \A k \in ViewKeys : view[k] >= began
  /\ serving' = TRUE
  /\ UNCHANGED <<revision, oldest, began, view>>

(* The program ends, or begins. *)
StartOver ==
  /\ view' = Blind
  /\ serving' = FALSE
  /\ began' = oldest
  /\ UNCHANGED <<revision, oldest>>

ViewNext == Change \/ Advance \/ Serve \/ StartOver

ViewSpec == ViewInit /\ [][ViewNext]_viewVars

===============================================================================
