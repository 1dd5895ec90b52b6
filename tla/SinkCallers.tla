----------------------------- MODULE SinkCallers -----------------------------
(***************************************************************************)
(* Callers of a sink.  Much of what a sink promises holds for callers that *)
(* keep to a discipline, and no caller changes its own while it runs:      *)
(*   "untrimmed"  turns auto-trimming off before it writes, and neither    *)
(*                turns it on again nor skips, trims or closes the sink;   *)
(*   "orderly"    writes segments that never overlap in part, be it        *)
(*                because a retransmission repeats a whole one, and skips   *)
(*                only forward and to where a segment can begin or end.    *)
(* To both the sink is the reassembler that Reassembly specifies.          *)
(***************************************************************************)
EXTENDS Sink

CONSTANT
  Calls  \* by caller, the calls it makes: what it writes, <<<<seq, len>>, v>>, or
         \* appends, v, and so on; limit bounds their number

VARIABLE caller

\* No segment of the orderly caller begins before seq and ends after it.
Cut(seq) ==
  \A w \in Calls["orderly"].writes : ~(w[1][1] < seq /\ seq < w[1][1] + w[1][2])

\* The calls of the two are calls that the constants list, and keep to their discipline.
ASSUME CallersAssumption ==
  /\ \A c \in DOMAIN Calls \cap {"untrimmed", "orderly"} :
       /\ Calls[c].writes \subseteq Segments \X Values
       /\ Calls[c].appends \subseteq Values /\ (Calls[c].appends # {} => 1 \in Appends)
       /\ Calls[c].skips \subseteq SkipTargets /\ Calls[c].autoTrims \subseteq AutoTrims
       /\ Calls[c].gaps = {} /\ Calls[c].trims = {} /\ Calls[c].initials = {} /\ Calls[c].units = {}
       /\ ~Calls[c].filters /\ Calls[c].autoTrim \in BOOLEAN
  /\ "untrimmed" \in DOMAIN Calls =>
       LET u == Calls["untrimmed"] IN
       u.skips = {} /\ u.autoTrims = {} /\ ~u.closes /\ ~u.autoTrim
  /\ "orderly" \in DOMAIN Calls =>
       LET o == Calls["orderly"] IN
       /\ o.appends = {} /\ ~o.skipsBack /\ o.autoTrim
       /\ \A w \in o.writes : Cut(w[1][1]) /\ Cut(w[1][1] + w[1][2])
       /\ \A seq \in SkipTargets : Cut(seq)

CallersInit ==
  /\ caller \in DOMAIN Calls
  /\ sink = [Fresh EXCEPT !.autoTrim = Calls[caller].autoTrim]
  /\ calls = 0

CallersNext ==
  LET mine == Calls[caller] IN
  /\ caller \in DOMAIN Calls /\ UNCHANGED caller
  /\ calls < mine.limit
  /\ \/ \E w \in mine.writes : Write(w[1][1], w[1][2], w[2])
     \/ \E v \in mine.appends : WriteNext(1, v)
     \/ \E range \in mine.gaps : ReportGap(range[1], range[2])
     \/ \E seq \in mine.skips : (~mine.skipsBack => sink.cur <= Rseq(sink, seq)) /\ Skip(seq)
     \/ \E seq \in mine.trims : TrimTo(seq)
     \/ \E enable \in mine.autoTrims : SetAutoTrim(enable)
     \/ \E seq \in mine.initials : SetInitialSequenceNumber(seq)
     \/ \E unit \in mine.units : Len(sink.units) < mine.maxUnits /\ Connect(unit)
     \/ mine.filters /\ ConnectFilter
     \/ mine.closes /\ Close

CallersSpec == CallersInit /\ [][CallersNext]_<<vars, caller>>

-----------------------------------------------------------------------------
(* What holds for the callers that keep to a discipline *)

Careful == caller \in {"untrimmed", "orderly"}

\* The buffer holds what its chunks' bounds say, and nothing that is in order.
BufferStaysExact == Careful => BufferExact

\* Every byte is accounted for: none is lost in the buffer or missing from the
\* stream without a report, and both positions tell how far it has come.
AllAccounted == Careful => Accounted

\* Buffered data that skip() goes over is passed to %undelivered
\* (doc/programming/language/types.rst, %on_undelivered), for the one of the
\* two callers that skips.
SkippedDataIsReported == [][ caller = "orderly" => SkippedReported ]_<<vars, caller>>

\* What the units are fed is what the abstract reassembler hands over: its
\* state, read off the sink's, begins as it does and takes its steps.
R == INSTANCE Reassembly WITH
       Horizon <- SeqBound - 1,
       next <- sink.last, output <- sink.delivered, arrived <- Arrived
HandsOverInOrder ==
  /\ Careful => R!Init
  /\ [][ Careful => UNCHANGED R!vars \/ R!Next ]_<<vars, caller>>
=============================================================================
