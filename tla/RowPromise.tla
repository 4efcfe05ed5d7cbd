------------------------------ MODULE RowPromise ------------------------------
(***************************************************************************)
(* What a client of the thumb request may rely on, with no queue, worker   *)
(* or channel in sight: an open row is a row the backend has taken on and  *)
(* not yet answered. A row is answered only while it is open or in the     *)
(* request that names it, at most once each time, and a process that has   *)
(* closed owes nothing and says nothing more. docs/protocol.md "thumb",    *)
(* "thumbcancel" and "thumbed".                                            *)
(***************************************************************************)
CONSTANT Rows   (* every row a listing can have *)

VARIABLES
  open,         (* rows taken on and not yet answered *)
  told,         (* rows the last step answered        *)
  live          (* the process still runs             *)

vars == <<open, told, live>>

Init == open = {} /\ told = {} /\ live = TRUE

\* A thumb that takes a row on; older rows may be given up to make room.
Ask(r) ==
  /\ live
  /\ \E given \in SUBSET (open \cup {r}) :
       /\ open' = (open \cup {r}) \ given
       /\ told' = given
  /\ UNCHANGED live

\* A thumb answered on the spot leaves whatever was open open.
TellAtOnce(r) == live /\ told' = {r} /\ UNCHANGED <<open, live>>

\* A result answers one open row, and closes it.
Settle(r) ==
  /\ live
  /\ r \in open
  /\ open' = open \ {r}
  /\ told' = {r}
  /\ UNCHANGED live

\* A cancel, or a new listing, closes rows without answering them.
Withdraw ==
  /\ live
  /\ \E rows \in SUBSET open : open' = open \ rows
  /\ told' = {}
  /\ UNCHANGED live

\* The process leaves: every open row is answered on the way out.
Close == live /\ live' = FALSE /\ told' = open /\ open' = {}

Next ==
  \/ \E r \in Rows : Ask(r) \/ TellAtOnce(r) \/ Settle(r)
  \/ Withdraw
  \/ Close

Spec == Init /\ [][Next]_vars
=============================================================================
