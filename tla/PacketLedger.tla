--------------------------- MODULE PacketLedger ----------------------------
(***************************************************************************)
(* What QuicSentPacketManager promises the client and the congestion       *)
(* controller, without its data structures: packets go out in order and    *)
(* within the window, every packet leaves the outstanding set once, an     *)
(* echo settles the packet it names, losses are declared oldest first and  *)
(* only behind a newer echo, and a retransmission timeout gives up         *)
(* everything at once.                                                     *)
(***************************************************************************)
EXTENDS Integers, FiniteSets

CONSTANTS MaxPacket, Cwnd, ReorderingThreshold

VARIABLES
  sent,          \* packets 1 .. sent have been sent
  outstanding,   \* those neither acked, lost nor given up
  newest_acked   \* the largest packet an echo named

ledgerVars == <<sent, outstanding, newest_acked>>

Init ==
  /\ sent = 0
  /\ outstanding = {}
  /\ newest_acked = 0

Send ==
  /\ sent < MaxPacket
  /\ Cardinality(outstanding) < Cwnd
  /\ sent' = sent + 1
  /\ outstanding' = outstanding \cup {sent + 1}
  /\ UNCHANGED newest_acked

\* Losses are older than every packet left and than some acked one.
LossesAreJustified(lost, left) ==
  \A p \in lost : p < newest_acked' /\ \A q \in left : p < q

\* The echo of pn settles pn if it is outstanding.  Where it is not, the
\* code may settle one other packet in its place.
Echo(pn) ==
  \E settled \in SUBSET outstanding, lost \in SUBSET outstanding :
    /\ Cardinality(settled) <= 1
    /\ pn \in outstanding => settled = {pn}
    /\ lost \cap settled = {}
    /\ outstanding' = outstanding \ (settled \cup lost)
    /\ newest_acked' = IF pn > newest_acked THEN pn ELSE newest_acked
    /\ LossesAreJustified(lost, outstanding')
    /\ pn \in outstanding =>
         \A p \in outstanding' : newest_acked' - p < ReorderingThreshold
    /\ UNCHANGED sent

DeclareLost ==
  \E lost \in (SUBSET outstanding) \ {{}} :
    /\ outstanding' = outstanding \ lost
    /\ UNCHANGED <<sent, newest_acked>>
    /\ LossesAreJustified(lost, outstanding')

GiveUp ==
  /\ outstanding' = {}
  /\ UNCHANGED <<sent, newest_acked>>

Next ==
  \/ Send
  \/ \E pn \in 1 .. sent : Echo(pn)
  \/ DeclareLost
  \/ GiveUp

Spec == Init /\ [][Next]_ledgerVars
============================================================================
