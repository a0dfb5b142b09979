------------------------------- MODULE Lease -------------------------------
(***************************************************************************)
(* What a light sink promises its users: it is lent to one endpoint at a   *)
(* time, a loan ends before another endpoint gets one, only the borrower's *)
(* frames enter the playlist, and frames leave it oldest first and only    *)
(* while the sink is lent.  The end of a loan does not empty the playlist: *)
(* what is left of it is shown in the next.                                *)
(***************************************************************************)
EXTENDS Naturals, Sequences

CONSTANTS
  Endpoints,   \* those who may borrow the sink
  Tags,        \* what tells the frames of one endpoint apart
  None,        \* no endpoint, or no frame
  Slots        \* frames the playlist holds at most

VARIABLES
  holder,      \* the endpoint the sink is lent to, or None
  playlist,    \* frames waiting to be shown, oldest first
  shown        \* the last frame taken from the playlist, or None

leaseVars == <<holder, playlist, shown>>

Frames == [by : Endpoints, tag : Tags]

Init ==
  /\ holder = None
  /\ playlist = << >>
  /\ shown = None

\* A borrower may renew its loan; anyone else waits for its end.
Grant(e) ==
  /\ holder \in {None, e}
  /\ holder' = e
  /\ UNCHANGED <<playlist, shown>>

End ==
  /\ holder' = None
  /\ UNCHANGED <<playlist, shown>>

Put(f) ==
  /\ f.by = holder
  /\ Len(playlist) < Slots
  /\ playlist' = Append(playlist, f)
  /\ UNCHANGED <<holder, shown>>

Show ==
  /\ holder # None
  /\ playlist # << >>
  /\ shown' = Head(playlist)
  /\ playlist' = Tail(playlist)
  /\ UNCHANGED holder

\* The device starts anew.
Restart ==
  /\ holder' = None
  /\ playlist' = << >>
  /\ shown' = None

Next ==
  \/ \E e \in Endpoints : Grant(e)
  \/ End
  \/ \E f \in Frames : Put(f)
  \/ Show
  \/ Restart

Spec == Init /\ [][Next]_leaseVars
=============================================================================
