------------------------------- MODULE Driver -------------------------------
(***************************************************************************)
(* The driver that feeds parsers from a batch of interleaved input flows   *)
(* (driver.cc: ParsingState and Driver::processPreBatchedInput()).         *)
(*                                                                         *)
(* One action is one command of the batch.  A command that the batch       *)
(* format forbids is not modelled: IDs are unique among the flows and the  *)
(* connections that exist, and @end-flow ends what @begin-flow began.      *)
(* IDs may be used again after their flow has ended.                       *)
(*                                                                         *)
(* A parser may yield, complete or fail on every chunk of input, but does  *)
(* not yield once it has seen end-of-data; that is what module Filters is  *)
(* about.  The content of the input is left out.                           *)
(***************************************************************************)
EXTENDS Integers

CONSTANTS
    FlowId, ConnId,
    Parser,         \* parsers that are registered
    WithContext,    \* those of them whose unit has a %context
    Unknown,        \* a name that no parser has
    None,
    MaxNodes        \* bound: flows that are begun

ASSUME ParserAssumption == WithContext \subseteq Parser /\ Unknown \notin Parser
ASSUME MaxNodesAssumption == MaxNodes \in Nat

VARIABLES
    flows,      \* flow ID -> its ParsingState, or None
    conns,      \* connection ID -> its ConnectionState, or None
    nodes,      \* number of ParsingStates that were put into flows so far
    dangling,   \* history: a connection's pointer was used after its flow was gone
    cut,        \* history: a flow was released while its parser was suspended
    ended       \* the batch has been read, or given up

vars == <<flows, conns, nodes, dangling, cut, ended>>

Type == {"stream", "block"}
Outcome == {"yields", "completes", "fails"}

\* A ParsingState.  Its node is its identity: pointers to it are good for as
\* long as it is in flows.  A context is named by the node it was created for.
State == [node : 1 .. MaxNodes, type : Type, parser : Parser, context : 0 .. MaxNodes,
          input : {"none", "open", "frozen"},
          fiber : {"none", "suspended", "finished"},
          done : BOOLEAN,
          conn : BOOLEAN]   \* history: begun by @begin-conn

\* The pointers of a connection name nodes.
ConnectionState == [orig_id : FlowId, resp_id : FlowId,
                    orig_state : 1 .. MaxNodes, resp_state : 1 .. MaxNodes]

ASSUME NoneAssumption == None \notin State /\ None \notin ConnectionState

TypeOK ==
    /\ flows \in [FlowId -> State \cup {None}]
    /\ conns \in [ConnId -> ConnectionState \cup {None}]
    /\ nodes \in 0 .. MaxNodes
    /\ dangling \in BOOLEAN /\ cut \in BOOLEAN /\ ended \in BOOLEAN

Init ==
    /\ flows = [f \in FlowId |-> None]
    /\ conns = [c \in ConnId |-> None]
    /\ nodes = 0
    /\ dangling = FALSE
    /\ cut = FALSE
    /\ ended = FALSE

(***************************************************************************)
(* ParsingState                                                            *)
(***************************************************************************)

\* The fiber after the parser has run: an exception from parse1() leaves no
\* Resumable behind, and one from resume() a Resumable that is done.
Fiber_After(s, outcome) ==
    IF outcome = "yields" THEN "suspended"
    ELSE IF outcome = "fails" /\ s.input = "none" THEN "none"
    ELSE "finished"

\* Mutant: a stream whose parser has failed takes more input.
Process_NotDone(s, eod, outcome) ==
    IF s.type = "block"
    THEN [s EXCEPT !.fiber = IF outcome = "completes" THEN "finished" ELSE @]
    ELSE IF s.done
    THEN s
    ELSE [s EXCEPT !.input = IF eod THEN "frozen" ELSE "open",
                   !.fiber = Fiber_After(s, outcome),
                   !.done = outcome = "completes"]

\* _process(): a block has a parser of its own, a stream goes on where it was.
Process(s, eod, outcome) ==
    IF s.type = "block"
    THEN [s EXCEPT !.fiber = IF outcome = "completes" THEN "finished" ELSE @,
                   !.done = @ \/ outcome = "fails"]
    ELSE IF s.done
    THEN s
    ELSE [s EXCEPT !.input = IF eod THEN "frozen" ELSE "open",
                   !.fiber = Fiber_After(s, outcome),
                   !.done = outcome # "yields"]

MayDo(s, eod) == IF eod \/ s.type = "block" THEN {"completes", "fails"} ELSE Outcome

\* finish() signals end-of-data to a stream and does nothing for blocks.
FinishState(s, outcome) ==
    IF s.type = "stream" THEN Process(s, TRUE, outcome) ELSE s

(***************************************************************************)
(* The commands                                                            *)
(***************************************************************************)

Live(id) == flows[id] # None

\* The batch format's rules for what a batch may contain (toolchain.rst:171).
UnusedIds(ids) == \A id \in ids : ~Live(id)
BegunAsFlow(id) == Live(id) /\ ~flows[id].conn

\* create_state() makes a context unless it is given one.
NewContext(parser, context, node) ==
    IF context = 0 /\ parser \in WithContext THEN node ELSE context

NewState(type, parser, context, node, conn) ==
    [node |-> node, type |-> type, parser |-> parser,
     context |-> NewContext(parser, context, node),
     input |-> "none", fiber |-> "none", done |-> FALSE, conn |-> conn]

\* Mutant: the parser is not looked up.
BeginFlow_Unchecked(id, type, parser) ==
    /\ ~ended
    /\ UnusedIds({id})
    /\ nodes < MaxNodes
    /\ flows' = [flows EXCEPT ![id] = NewState(type, parser, 0, nodes + 1, FALSE)]
    /\ nodes' = nodes + 1
    /\ UNCHANGED <<conns, dangling, cut, ended>>

\* @begin-flow; with a parser that does not exist it has no effect.
BeginFlow(id, type, parser) ==
    /\ ~ended
    /\ UnusedIds({id})
    /\ nodes < MaxNodes
    /\ parser \in Parser
    /\ flows' = [flows EXCEPT ![id] = NewState(type, parser, 0, nodes + 1, FALSE)]
    /\ nodes' = nodes + 1
    /\ UNCHANGED <<conns, dangling, cut, ended>>

\* Mutant: the originator's context is not passed on.
Both_Apart(type, orig_parser, resp_parser, orig_id, resp_id) ==
    [flows EXCEPT ![orig_id] = NewState(type, orig_parser, 0, nodes + 1, TRUE),
                  ![resp_id] = NewState(type, resp_parser, 0, nodes + 2, TRUE)]

\* The two flows of a connection: the responder's side gets the context of the
\* originator's, if that has one.
Both(type, orig_parser, resp_parser, orig_id, resp_id) ==
    LET orig == NewState(type, orig_parser, 0, nodes + 1, TRUE)
    IN  [flows EXCEPT ![orig_id] = orig,
                      ![resp_id] = NewState(type, resp_parser, orig.context, nodes + 2, TRUE)]

\* @begin-conn for a new connection, both of whose parsers exist.
BeginConn(cid, type, orig_id, orig_parser, resp_id, resp_parser) ==
    /\ ~ended
    /\ conns[cid] = None
    /\ orig_id # resp_id /\ UnusedIds({orig_id, resp_id})
    /\ {orig_parser, resp_parser} \subseteq Parser
    /\ nodes + 2 <= MaxNodes
    /\ flows' = Both(type, orig_parser, resp_parser, orig_id, resp_id)
    /\ conns' = [conns EXCEPT ![cid] =
                    [orig_id |-> orig_id, resp_id |-> resp_id,
                     orig_state |-> nodes + 1, resp_state |-> nodes + 2]]
    /\ nodes' = nodes + 2
    /\ UNCHANGED <<dangling, cut, ended>>

\* @begin-conn one of whose parsers does not exist: the other one's flow is
\* begun all the same, and erased again.
BeginConnUnknown(orig_id, orig_parser, resp_id, resp_parser) ==
    /\ ~ended
    /\ orig_id # resp_id /\ UnusedIds({orig_id, resp_id})
    /\ Unknown \in {orig_parser, resp_parser}
    /\ nodes < MaxNodes
    /\ nodes' = IF {orig_parser, resp_parser} = {Unknown} THEN nodes ELSE nodes + 1
    /\ flows' = [flows EXCEPT ![orig_id] = None, ![resp_id] = None]
    /\ UNCHANGED <<conns, dangling, cut, ended>>

\* @data and @gap; an exception is printed, and the batch goes on.
Data(id, outcome) ==
    /\ ~ended
    /\ Live(id)
    /\ outcome \in MayDo(flows[id], FALSE)
    /\ flows' = [flows EXCEPT ![id] = Process(@, FALSE, outcome)]
    /\ UNCHANGED <<conns, nodes, dangling, cut, ended>>

Suspended(s) == s # None /\ s.fiber = "suspended"

\* @end-flow
EndFlow(id, outcome) ==
    /\ ~ended
    /\ BegunAsFlow(id)
    /\ outcome \in MayDo(flows[id], TRUE)
    /\ flows' = [flows EXCEPT ![id] = None]
    /\ cut' = (cut \/ Suspended(FinishState(flows[id], outcome)))
    /\ UNCHANGED <<conns, nodes, dangling, ended>>

\* finish() through a connection's pointer.
FinishAt(id, node, outcome) ==
    IF Live(id) /\ flows[id].node = node THEN FinishState(flows[id], outcome) ELSE flows[id]

\* Mutant: the connection itself is not erased.
EndConn_Kept(cid, orig_outcome, resp_outcome) ==
    /\ ~ended
    /\ conns[cid] # None
    /\ LET c == conns[cid]
       IN  flows' = [flows EXCEPT ![c.orig_id] = None, ![c.resp_id] = None]
    /\ UNCHANGED <<conns, nodes, dangling, cut, ended>>

\* Mutant: if the first side fails, the other one is not finished.
EndConn_OneTry(cid, orig_outcome, resp_outcome) ==
    /\ ~ended
    /\ conns[cid] # None
    /\ {orig_outcome, resp_outcome} \subseteq {"completes", "fails"}
    /\ LET c == conns[cid]
           orig == FinishAt(c.orig_id, c.orig_state, orig_outcome)
           resp == IF orig_outcome = "fails" THEN flows[c.resp_id]
                   ELSE FinishAt(c.resp_id, c.resp_state, resp_outcome)
       IN  /\ cut' = (cut \/ Suspended(orig) \/ Suspended(resp))
           /\ flows' = [flows EXCEPT ![c.orig_id] = None, ![c.resp_id] = None]
    /\ conns' = [conns EXCEPT ![cid] = None]
    /\ UNCHANGED <<nodes, dangling, ended>>

\* @end-conn: both sides are finished, whatever comes of the first one, and
\* whatever flows the two IDs stand for by now are erased.
EndConn(cid, orig_outcome, resp_outcome) ==
    /\ ~ended
    /\ conns[cid] # None
    /\ {orig_outcome, resp_outcome} \subseteq {"completes", "fails"}
    /\ LET c == conns[cid]
           orig == FinishAt(c.orig_id, c.orig_state, orig_outcome)
           resp == FinishAt(c.resp_id, c.resp_state, resp_outcome)
       IN  /\ dangling' = (dangling \/ \E p \in {c.orig_state, c.resp_state} :
                              \A id \in FlowId : Live(id) => flows[id].node # p)
           /\ cut' = (cut \/ Suspended(orig) \/ Suspended(resp))
           /\ flows' = [flows EXCEPT ![c.orig_id] = None, ![c.resp_id] = None]
    /\ conns' = [conns EXCEPT ![cid] = None]
    /\ UNCHANGED <<nodes, ended>>

\* The batch ends, or is given up over a malformed command.
EndBatch ==
    /\ ~ended
    /\ ended' = TRUE
    /\ UNCHANGED <<flows, conns, nodes, dangling, cut>>

Next ==
    \/ \E id \in FlowId, t \in Type, p \in Parser \cup {Unknown} : BeginFlow(id, t, p)
    \/ \E cid \in ConnId, t \in Type, o, r \in FlowId, po, pr \in Parser \cup {Unknown} :
          BeginConn(cid, t, o, po, r, pr)
    \/ \E o, r \in FlowId, po, pr \in Parser \cup {Unknown} : BeginConnUnknown(o, po, r, pr)
    \/ \E id \in FlowId, outcome \in Outcome : Data(id, outcome)
    \/ \E id \in FlowId, outcome \in Outcome : EndFlow(id, outcome)
    \/ \E cid \in ConnId, oo, or \in Outcome : EndConn(cid, oo, or)
    \/ EndBatch

Spec == Init /\ [][Next]_vars

(***************************************************************************)
(* Properties                                                              *)
(***************************************************************************)

Flows == {flows[id] : id \in {i \in FlowId : Live(i)}}

\* A stream that takes more input has a parser that waits for it, or none yet:
\* the assertion of _process() (driver.cc:319), and what keeps resume() from
\* being called on a parser that has completed or failed.
ResumeIsSafe ==
    \A s \in Flows : s.type = "stream" /\ ~s.done =>
        \/ s.input = "none" /\ s.fiber = "none"
        \/ s.input = "open" /\ s.fiber = "suspended"

\* The raw pointers that a connection holds into flows stay good until it
\* ends, although flows come and go in the same map under reused IDs.
PointersLive ==
    /\ ~dangling
    /\ \A cid \in ConnId : conns[cid] # None =>
          LET c == conns[cid]
          IN  /\ Live(c.orig_id) /\ flows[c.orig_id].node = c.orig_state
              /\ Live(c.resp_id) /\ flows[c.resp_id].node = c.resp_state

\* Every stream gets to see its end-of-data before it is released, even if the
\* connection's other side fails at just that moment.
EveryStreamFinished == ~cut

\* A context is shared by the two sides of a connection, and by nobody else
\* (parsers that share state do so through their connection only).
ContextsSeparate ==
    /\ \A a, b \in FlowId :
          Live(a) /\ Live(b) /\ a # b /\ flows[a].context = flows[b].context /\ flows[a].context # 0
          => \E cid \in ConnId : conns[cid] # None /\ {conns[cid].orig_id, conns[cid].resp_id} = {a, b}
    /\ \A cid \in ConnId : conns[cid] # None =>
          LET orig == flows[conns[cid].orig_id]
              resp == flows[conns[cid].resp_id]
          IN  {orig.parser, resp.parser} \subseteq WithContext =>
                  orig.context # 0 /\ orig.context = resp.context

\* The maps of flows and connections fit together: everything has its type,
\* pointers are good, and contexts are where they belong.
MapsIntact == TypeOK /\ PointersLive /\ ContextsSeparate

(***************************************************************************)
(* The inductive invariant                                                 *)
(***************************************************************************)

\* Only a stream that is not done has a suspended parser.
OnlyOngoingSuspended ==
    \A s \in Flows : s.fiber = "suspended" => s.type = "stream" /\ ~s.done

\* The flows of a connection were begun with it, and belong to no other one.
OwnFlows ==
    /\ \A cid \in ConnId : conns[cid] # None =>
          /\ conns[cid].orig_id # conns[cid].resp_id
          /\ flows[conns[cid].orig_id].conn
          /\ flows[conns[cid].resp_id].conn
    /\ \A c, d \in ConnId : c # d /\ conns[c] # None /\ conns[d] # None =>
          {conns[c].orig_id, conns[c].resp_id} \cap {conns[d].orig_id, conns[d].resp_id} = {}

\* A context that a later flow creates is new.
ContextsKnown == \A s \in Flows : s.context <= nodes

IInv ==
    /\ TypeOK
    /\ ResumeIsSafe
    /\ PointersLive
    /\ EveryStreamFinished
    /\ ContextsSeparate
    /\ OnlyOngoingSuspended
    /\ OwnFlows
    /\ ContextsKnown
=============================================================================
