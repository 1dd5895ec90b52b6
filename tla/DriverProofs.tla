---------------------------- MODULE DriverProofs ----------------------------
(***************************************************************************)
(* Proofs about the batch driver, for any number of flows, connections and *)
(* parsers.  IInv adds to the properties what their preservation rests on: *)
(* connections do not share flows, a context is named by a flow that has   *)
(* existed, and only a stream that goes on has a suspended parser.         *)
(***************************************************************************)
EXTENDS Driver, Startup, FiniteSetTheorems, WellFoundedInduction, TLAPS

\* What is known of a state in the map, one flow at a time.
Good(s) ==
    /\ s.type = "stream" /\ ~s.done =>
          \/ s.input = "none" /\ s.fiber = "none"
          \/ s.input = "open" /\ s.fiber = "suspended"
    /\ s.fiber = "suspended" => s.type = "stream" /\ ~s.done

\* The two properties about parsers, one flow at a time.
LEMMA GoodFlows ==
  ResumeIsSafe /\ OnlyOngoingSuspended <=> \A id \in FlowId : Live(id) => Good(flows[id])
  BY DEF ResumeIsSafe, OnlyOngoingSuspended, Flows, Good

\* _process() leaves a state that can take more input, or is done with it.
LEMMA ProcessState ==
  ASSUME NEW s \in State, NEW eod \in BOOLEAN, NEW outcome \in MayDo(s, eod), Good(s)
  PROVE  /\ Process(s, eod, outcome) \in State
         /\ Process(s, eod, outcome).node = s.node
         /\ Process(s, eod, outcome).parser = s.parser
         /\ Process(s, eod, outcome).context = s.context
         /\ Process(s, eod, outcome).conn = s.conn
         /\ Good(Process(s, eod, outcome))
         /\ eod => Process(s, eod, outcome).fiber # "suspended"
  <1> DEFINE t == Process(s, eod, outcome)
  <1>1. outcome \in Outcome /\ (eod => outcome # "yields")
    BY DEF MayDo, Outcome
  <1>2. CASE s.type = "block"
    <2>1. t = [s EXCEPT !.fiber = IF outcome = "completes" THEN "finished" ELSE @,
                        !.done = @ \/ outcome = "fails"]
      BY <1>2 DEF Process
    <2>2. t.fiber # "suspended" /\ t.type = "block"
      BY <1>2, <2>1 DEF Good, State
    <2>3. t \in State
      BY <2>1 DEF State
    <2> QED
      BY <2>1, <2>2, <2>3 DEF Good, State
  <1>3. CASE s.type = "stream" /\ s.done
    BY <1>3 DEF Process, Good
  <1>4. CASE s.type = "stream" /\ ~s.done
    <2>1. t = [s EXCEPT !.input = IF eod THEN "frozen" ELSE "open",
                        !.fiber = Fiber_After(s, outcome),
                        !.done = outcome # "yields"]
      BY <1>4 DEF Process
    <2>2. Fiber_After(s, outcome) \in {"none", "suspended", "finished"}
      BY DEF Fiber_After
    <2>3. t \in State
      BY <2>1, <2>2 DEF State
    <2>4. /\ t.type = "stream" /\ t.fiber = Fiber_After(s, outcome)
          /\ t.done = (outcome # "yields") /\ t.input = IF eod THEN "frozen" ELSE "open"
      BY <1>4, <2>1 DEF State
    <2>5. Fiber_After(s, outcome) = "suspended" <=> outcome = "yields"
      BY <1>1 DEF Fiber_After, Outcome
    <2>6. Good(t)
      BY <1>1, <2>4, <2>5 DEF Good
    <2> QED
      BY <1>1, <2>1, <2>3, <2>4, <2>5, <2>6 DEF State
  <1> QED
    BY <1>2, <1>3, <1>4 DEF State, Type

\* A context is that of nobody, given, or the flow's own.
LEMMA ContextOf ==
  \A p, c, n : NewContext(p, c, n) \in {0, c, n}
  BY DEF NewContext

\* A new state is a good one.
LEMMA NewGood ==
  \A type, p, c, n, conn : Good(NewState(type, p, c, n, conn))
  BY DEF NewState, Good

\* The two flows of a new connection.
LEMMA BothGood ==
  ASSUME TypeOK, NEW type \in Type, NEW po \in Parser, NEW pr \in Parser,
         NEW o \in FlowId, NEW r \in FlowId, o # r, nodes + 2 <= MaxNodes,
         NEW b, b = Both(type, po, pr, o, r)
  PROVE  /\ b \in [FlowId -> State \cup {None}]
         /\ \A id \in FlowId \ {o, r} : b[id] = flows[id]
         /\ b[o] # None /\ Good(b[o]) /\ b[o].conn /\ b[o].node = nodes + 1
         /\ b[r] # None /\ Good(b[r]) /\ b[r].conn /\ b[r].node = nodes + 2
         /\ b[o].parser = po /\ b[r].parser = pr
         /\ b[o].context \in {0, nodes + 1}
         /\ b[r].context \in {0, nodes + 1, nodes + 2}
         /\ {po, pr} \subseteq WithContext => b[o].context # 0 /\ b[r].context = b[o].context
  <1>1. nodes \in Nat /\ nodes + 1 \in 1 .. MaxNodes /\ nodes + 2 \in 1 .. MaxNodes
        /\ 0 \in 0 .. MaxNodes /\ MaxNodes \in Nat
    BY MaxNodesAssumption DEF TypeOK
  <1> DEFINE orig == NewState(type, po, 0, nodes + 1, TRUE)
             resp == NewState(type, pr, orig.context, nodes + 2, TRUE)
  <1>2. b = [flows EXCEPT ![o] = orig, ![r] = resp]
    BY DEF Both
  <1> HIDE DEF orig, resp
  <1>4. /\ orig.node = nodes + 1 /\ orig.parser = po
        /\ orig.context = NewContext(po, 0, nodes + 1)
        /\ Good(orig)
    BY NewGood DEF orig, NewState
  <1>5. orig.context \in {0, nodes + 1} /\ orig.context \in 0 .. MaxNodes
    BY <1>1, <1>4, ContextOf
  <1>6. /\ resp.node = nodes + 2 /\ resp.parser = pr
        /\ resp.context = NewContext(pr, orig.context, nodes + 2)
        /\ Good(resp)
    BY NewGood DEF resp, NewState
  <1>7. resp.context \in {0, nodes + 1, nodes + 2} /\ resp.context \in 0 .. MaxNodes
    BY <1>1, <1>5, <1>6, ContextOf
  <1>8. orig \in State /\ orig # None
    <2>1. NewContext(po, 0, nodes + 1) \in 0 .. MaxNodes
      BY <1>4, <1>5
    <2>2. orig \in State
      BY <1>1, <2>1 DEF orig, NewState, State
    <2> QED BY <2>2, NoneAssumption
  <1>9. resp \in State /\ resp # None
    <2>1. NewContext(pr, orig.context, nodes + 2) \in 0 .. MaxNodes
      BY <1>6, <1>7
    <2>2. resp \in State
      BY <1>1, <2>1 DEF resp, NewState, State
    <2> QED BY <2>2, NoneAssumption
  <1>10. b \in [FlowId -> State \cup {None}] /\ b[o] = orig /\ b[r] = resp
        /\ \A id \in FlowId \ {o, r} : b[id] = flows[id]
    BY <1>2, <1>8, <1>9 DEF TypeOK
  <1>11. {po, pr} \subseteq WithContext => orig.context # 0 /\ resp.context = orig.context
    BY <1>1, <1>4, <1>5, <1>6 DEF NewContext
  <1>12. orig.conn /\ resp.conn
    BY DEF orig, resp, NewState
  <1> QED
    BY <1>4, <1>5, <1>6, <1>7, <1>10, <1>11, <1>12, <1>8, <1>9

\* The invariant, one flow, pair of flows, or connection at a time.
Linked(c) ==
    LET f == conns[c].orig_id
        g == conns[c].resp_id
    IN  /\ f # g /\ Live(f) /\ Live(g)
        /\ flows[f].conn /\ flows[g].conn
        /\ flows[f].node = conns[c].orig_state /\ flows[g].node = conns[c].resp_state
        /\ {flows[f].parser, flows[g].parser} \subseteq WithContext =>
              flows[f].context # 0 /\ flows[f].context = flows[g].context

Disjoint(c, d) ==
    {conns[c].orig_id, conns[c].resp_id} \cap {conns[d].orig_id, conns[d].resp_id} = {}

Sharing(a, b) ==
    flows[a].context = flows[b].context /\ flows[a].context # 0 =>
        \E c \in ConnId : conns[c] # None /\ {conns[c].orig_id, conns[c].resp_id} = {a, b}

Parts ==
    /\ TypeOK /\ ~dangling /\ ~cut
    /\ \A id \in FlowId : Live(id) => Good(flows[id]) /\ flows[id].context <= nodes
    /\ \A c \in ConnId : conns[c] # None => Linked(c)
    /\ \A c, d \in ConnId : c # d /\ conns[c] # None /\ conns[d] # None => Disjoint(c, d)
    /\ \A a, b \in FlowId : Live(a) /\ Live(b) /\ a # b => Sharing(a, b)

\* The parts make up the invariant, in a state and in the next one.
LEMMA IInvParts == IInv <=> Parts
  <1>1. ContextsKnown <=> \A id \in FlowId : Live(id) => flows[id].context <= nodes
    BY DEF ContextsKnown, Flows
  <1>2. PointersLive /\ OwnFlows /\ ContextsSeparate
        <=> /\ ~dangling
            /\ \A c \in ConnId : conns[c] # None => Linked(c)
            /\ \A c, d \in ConnId : c # d /\ conns[c] # None /\ conns[d] # None => Disjoint(c, d)
            /\ \A a, b \in FlowId : Live(a) /\ Live(b) /\ a # b => Sharing(a, b)
    BY DEF PointersLive, OwnFlows, ContextsSeparate, Linked, Disjoint, Sharing
  <1> QED
    BY <1>1, <1>2, GoodFlows DEF IInv, Parts, EveryStreamFinished

\* What is to be shown of a step: the parts hold in its second state.
LEMMA IInvPartsNext == Parts' => IInv'
  BY IInvParts, PTL

\* The invariant holds of a driver without flows.
LEMMA InvInit == Init => IInv
  <1> SUFFICES ASSUME Init PROVE IInv
    OBVIOUS
  <1>1. TypeOK
    <2>1. flows \in [FlowId -> State \cup {None}] /\ conns \in [ConnId -> ConnectionState \cup {None}]
      BY DEF Init
    <2>2. nodes \in 0 .. MaxNodes /\ ~dangling /\ ~cut /\ ~ended
      BY MaxNodesAssumption DEF Init
    <2> QED
      BY <2>1, <2>2 DEF Init, TypeOK
  <1> QED
    BY <1>1, IInvParts DEF Init, Live, Parts

\* A flow goes on: what else there is keeps its state, and so does the flow
\* but for its parser.
LEMMA DataStep ==
  ASSUME IInv, NEW id \in FlowId, NEW outcome \in Outcome, Data(id, outcome)
  PROVE  IInv'
  <1> USE IInvParts DEF Parts
  <1>1. flows[id] \in State /\ Good(flows[id]) /\ FALSE \in BOOLEAN
    BY DEF Data, Live, TypeOK
  <1>2. PICK s : s = flows[id]
    OBVIOUS
  <1>3. PICK t : t = Process(s, FALSE, outcome)
    OBVIOUS
  <1>4. /\ t \in State /\ Good(t) /\ t.node = s.node /\ t.parser = s.parser
        /\ t.context = s.context /\ t.conn = s.conn
    BY <1>1, <1>2, <1>3, ProcessState DEF Data
  <1>5. /\ flows' = [flows EXCEPT ![id] = t]
        /\ UNCHANGED <<conns, nodes, dangling, cut, ended>>
    BY <1>2, <1>3 DEF Data
  <1>6. TypeOK'
    BY <1>4, <1>5 DEF TypeOK
  <1>7. \A i \in FlowId :
           /\ Live(i)' <=> Live(i)
           /\ Live(i) => /\ flows'[i].node = flows[i].node /\ flows'[i].conn = flows[i].conn
                         /\ flows'[i].parser = flows[i].parser
                         /\ flows'[i].context = flows[i].context
                         /\ Good(flows'[i])
    BY <1>1, <1>2, <1>4, <1>5, NoneAssumption DEF Live, TypeOK
  <1>8. \A c \in ConnId : conns[c] # None =>
            conns[c].orig_id \in FlowId /\ conns[c].resp_id \in FlowId
    BY DEF TypeOK, ConnectionState
  <1>9. \A c \in ConnId : conns'[c] # None => Linked(c)'
    BY <1>5, <1>7, <1>8 DEF Linked
  <1>10. \A a, b \in FlowId : Live(a)' /\ Live(b)' /\ a # b => Sharing(a, b)'
    BY <1>5, <1>7 DEF Sharing
  <1>11. \A c, d \in ConnId : c # d /\ conns'[c] # None /\ conns'[d] # None => Disjoint(c, d)'
    BY <1>5 DEF Disjoint
  <1>12. \A i \in FlowId : Live(i)' => Good(flows[i])' /\ flows'[i].context <= nodes'
    BY <1>5, <1>7
  <1> QED
    BY <1>5, <1>6, <1>9, <1>10, <1>11, <1>12, IInvPartsNext

\* A flow begins under an ID that no connection uses.
LEMMA BeginFlowStep ==
  ASSUME IInv, NEW id \in FlowId, NEW type \in Type, NEW parser \in Parser,
         BeginFlow(id, type, parser)
  PROVE  IInv'
  <1> USE IInvParts DEF Parts
  <1>1. nodes \in Nat /\ nodes + 1 \in 1 .. MaxNodes /\ MaxNodes \in Nat
    BY MaxNodesAssumption DEF BeginFlow, TypeOK
  <1> DEFINE s == NewState(type, parser, 0, nodes + 1, FALSE)
  <1>2. NewContext(parser, 0, nodes + 1) \in {0, nodes + 1}
    BY ContextOf
  <1>3. s \in State
    BY <1>1, <1>2 DEF NewState, State
  <1>4. s # None /\ Good(s) /\ s.context \in {0, nodes + 1}
    BY <1>2, <1>3, NewGood, NoneAssumption DEF NewState
  <1>5. /\ flows' = [flows EXCEPT ![id] = s] /\ nodes' = nodes + 1
        /\ UNCHANGED <<conns, dangling, cut, ended>> /\ ~Live(id)
    BY DEF BeginFlow, UnusedIds
  <1> HIDE DEF s
  <1>6. TypeOK'
    BY <1>1, <1>3, <1>5 DEF TypeOK
  <1>7. flows'[id] = s /\ \A i \in FlowId : i # id => flows'[i] = flows[i]
    BY <1>5 DEF TypeOK
  <1>8. \A c \in ConnId : conns[c] # None =>
            /\ conns[c].orig_id \in FlowId /\ conns[c].resp_id \in FlowId
            /\ conns[c].orig_id # id /\ conns[c].resp_id # id
    BY <1>5 DEF TypeOK, ConnectionState, Linked
  <1>9. \A c \in ConnId : conns'[c] # None => Linked(c)'
    BY <1>5, <1>7, <1>8 DEF Linked, Live
  <1>10. \A i \in FlowId : Live(i) => flows[i].context \in Nat /\ flows[i].context <= nodes
    BY DEF TypeOK, State, Live
  <1>11. \A a, b \in FlowId : Live(a)' /\ Live(b)' /\ a # b => Sharing(a, b)'
    <2> SUFFICES ASSUME NEW a \in FlowId, NEW b \in FlowId, Live(a)', Live(b)', a # b
                 PROVE  Sharing(a, b)'
      OBVIOUS
    <2>1. CASE a # id /\ b # id
      BY <2>1, <1>5, <1>7 DEF Sharing, Live
    <2>2. CASE a = id \/ b = id
      BY <2>2, <1>1, <1>4, <1>7, <1>10 DEF Sharing, Live
    <2> QED BY <2>1, <2>2
  <1>12. \A c, d \in ConnId : c # d /\ conns'[c] # None /\ conns'[d] # None => Disjoint(c, d)'
    BY <1>5 DEF Disjoint
  <1>13. \A i \in FlowId : Live(i)' => Good(flows[i])' /\ flows'[i].context <= nodes'
    BY <1>1, <1>4, <1>5, <1>7, <1>10 DEF Live
  <1> QED
    BY <1>5, <1>6, <1>9, <1>11, <1>12, <1>13, IInvPartsNext

\* A flow of its own ends, having seen its end-of-data.
LEMMA EndFlowStep ==
  ASSUME IInv, NEW id \in FlowId, NEW outcome \in Outcome, EndFlow(id, outcome)
  PROVE  IInv'
  <1> USE IInvParts DEF Parts
  <1>1. flows[id] \in State /\ Good(flows[id]) /\ ~flows[id].conn
    BY DEF EndFlow, BegunAsFlow, Live, TypeOK
  <1>2. ~Suspended(FinishState(flows[id], outcome))
    <2>1. PICK s : s = flows[id]
      OBVIOUS
    <2>2. ~Suspended(FinishState(s, outcome))
      BY <1>1, <2>1, ProcessState DEF EndFlow, FinishState, Suspended, Good, State, Type
    <2> QED BY <2>1, <2>2
  <1>3. /\ flows' = [flows EXCEPT ![id] = None] /\ cut' = FALSE
        /\ UNCHANGED <<conns, nodes, dangling, ended>>
    BY <1>2 DEF EndFlow, TypeOK
  <1>4. TypeOK'
    BY <1>3 DEF TypeOK
  <1>5. ~Live(id)' /\ \A i \in FlowId : i # id => flows'[i] = flows[i]
    BY <1>3 DEF TypeOK, Live
  <1>6. \A c \in ConnId : conns[c] # None =>
            /\ conns[c].orig_id \in FlowId /\ conns[c].resp_id \in FlowId
            /\ conns[c].orig_id # id /\ conns[c].resp_id # id
    BY <1>1 DEF TypeOK, ConnectionState, Linked
  <1>7. \A c \in ConnId : conns'[c] # None => Linked(c)'
    BY <1>3, <1>5, <1>6 DEF Linked, Live
  <1>8. \A a, b \in FlowId : Live(a)' /\ Live(b)' /\ a # b => Sharing(a, b)'
    BY <1>3, <1>5 DEF Sharing, Live
  <1>9. \A c, d \in ConnId : c # d /\ conns'[c] # None /\ conns'[d] # None => Disjoint(c, d)'
    BY <1>3 DEF Disjoint
  <1>10. \A i \in FlowId : Live(i)' => Good(flows[i])' /\ flows'[i].context <= nodes'
    BY <1>3, <1>5 DEF Live
  <1> QED
    BY <1>3, <1>4, <1>7, <1>8, <1>9, <1>10, IInvPartsNext

\* A connection begins, with two flows that nobody uses yet.
LEMMA BeginConnStep ==
  ASSUME IInv, NEW cid \in ConnId, NEW type \in Type, NEW o \in FlowId, NEW r \in FlowId,
         NEW po \in Parser, NEW pr \in Parser, BeginConn(cid, type, o, po, r, pr)
  PROVE  IInv'
  <1> USE IInvParts DEF Parts
  <1>1. nodes \in Nat /\ nodes + 1 \in 1 .. MaxNodes /\ nodes + 2 \in 1 .. MaxNodes
        /\ o # r /\ ~Live(o) /\ ~Live(r) /\ conns[cid] = None /\ nodes + 2 <= MaxNodes
    BY MaxNodesAssumption DEF BeginConn, UnusedIds, TypeOK
  <1> DEFINE k == [orig_id |-> o, resp_id |-> r, orig_state |-> nodes + 1, resp_state |-> nodes + 2]
  <1>2. /\ flows' = Both(type, po, pr, o, r)
        /\ conns' = [conns EXCEPT ![cid] = k]
        /\ nodes' = nodes + 2 /\ UNCHANGED <<dangling, cut, ended>>
    BY DEF BeginConn
  <1>3. /\ flows' \in [FlowId -> State \cup {None}]
        /\ \A id \in FlowId \ {o, r} : flows'[id] = flows[id]
        /\ flows'[o] # None /\ Good(flows'[o]) /\ flows'[o].conn /\ flows'[o].node = nodes + 1
        /\ flows'[r] # None /\ Good(flows'[r]) /\ flows'[r].conn /\ flows'[r].node = nodes + 2
        /\ flows'[o].parser = po /\ flows'[r].parser = pr
        /\ flows'[o].context \in {0, nodes + 1}
        /\ flows'[r].context \in {0, nodes + 1, nodes + 2}
        /\ {po, pr} \subseteq WithContext =>
               flows'[o].context # 0 /\ flows'[r].context = flows'[o].context
    BY <1>1, <1>2, BothGood
  <1>4. k \in ConnectionState /\ k # None
    BY <1>1, NoneAssumption DEF ConnectionState
  <1>5. /\ k.orig_id = o /\ k.resp_id = r
        /\ k.orig_state = nodes + 1 /\ k.resp_state = nodes + 2
    OBVIOUS
  <1> HIDE DEF k
  <1>6. TypeOK'
    BY <1>1, <1>2, <1>3, <1>4 DEF TypeOK
  <1>7. conns'[cid] = k /\ \A c \in ConnId : c # cid => conns'[c] = conns[c]
    BY <1>2 DEF TypeOK
  <1>8. \A c \in ConnId : conns[c] # None =>
            /\ conns[c].orig_id \in FlowId \ {o, r} /\ conns[c].resp_id \in FlowId \ {o, r}
    BY <1>1 DEF TypeOK, ConnectionState, Linked
  <1>9. \A c \in ConnId : conns'[c] # None => Linked(c)'
    <2>1. Linked(cid)'
      BY <1>1, <1>3, <1>5, <1>7 DEF Linked, Live
    <2>2. ASSUME NEW c \in ConnId, c # cid, conns'[c] # None PROVE Linked(c)'
      BY <2>2, <1>3, <1>7, <1>8 DEF Linked, Live
    <2> QED BY <2>1, <2>2
  <1>10. \A c, d \in ConnId : c # d /\ conns'[c] # None /\ conns'[d] # None => Disjoint(c, d)'
    BY <1>5, <1>7, <1>8 DEF Disjoint
  <1>11. \A i \in FlowId : Live(i) => flows[i].context \in Nat /\ flows[i].context <= nodes
    BY DEF TypeOK, State, Live
  <1>12. \A a, b \in FlowId : Live(a)' /\ Live(b)' /\ a # b => Sharing(a, b)'
    <2> SUFFICES ASSUME NEW a \in FlowId, NEW b \in FlowId, Live(a)', Live(b)', a # b
                 PROVE  Sharing(a, b)'
      OBVIOUS
    <2>1. CASE a \notin {o, r} /\ b \notin {o, r}
      <3>1. Sharing(a, b)
        BY <2>1, <1>3 DEF Live
      <3>2. \A c \in ConnId : conns[c] # None => conns'[c] = conns[c]
        BY <1>1, <1>7
      <3> QED
        BY <2>1, <3>1, <3>2, <1>3 DEF Sharing
    <2>2. CASE {a, b} = {o, r}
      BY <2>2, <1>4, <1>5, <1>7 DEF Sharing
    <2>3. CASE a \in {o, r} /\ b \notin {o, r}
      BY <2>3, <1>1, <1>3, <1>11 DEF Sharing, Live
    <2>4. CASE a \notin {o, r} /\ b \in {o, r}
      BY <2>4, <1>1, <1>3, <1>11 DEF Sharing, Live
    <2> QED BY <2>1, <2>2, <2>3, <2>4
  <1>13. \A i \in FlowId : Live(i)' => Good(flows[i])' /\ flows'[i].context <= nodes'
    BY <1>1, <1>2, <1>3, <1>11 DEF Live
  <1> QED
    BY <1>2, <1>6, <1>9, <1>10, <1>12, <1>13, IInvPartsNext

\* A connection ends: both of its flows have seen their end-of-data, and they
\* are nobody else's.
LEMMA EndConnStep ==
  ASSUME IInv, NEW cid \in ConnId, NEW oo \in Outcome, NEW or \in Outcome, EndConn(cid, oo, or)
  PROVE  IInv'
  <1> USE IInvParts DEF Parts
  <1>1. PICK o, r : o = conns[cid].orig_id /\ r = conns[cid].resp_id
    OBVIOUS
  <1>2. conns[cid] # None /\ Linked(cid) /\ o \in FlowId /\ r \in FlowId
    BY <1>1 DEF EndConn, TypeOK, ConnectionState
  <1>3. /\ Live(o) /\ Live(r) /\ o # r
        /\ flows[o].node = conns[cid].orig_state /\ flows[r].node = conns[cid].resp_state
    BY <1>1, <1>2 DEF Linked
  <1>4. ASSUME NEW id \in FlowId, Live(id), NEW outcome \in {"completes", "fails"}
        PROVE  ~Suspended(FinishState(flows[id], outcome))
    <2>1. PICK s : s = flows[id] /\ s \in State /\ Good(s)
      BY <1>4 DEF Live, TypeOK
    <2>2. outcome \in MayDo(s, TRUE)
      BY DEF MayDo
    <2>3. ~Suspended(FinishState(s, outcome))
      BY <2>1, <2>2, ProcessState DEF FinishState, Suspended, Good, State, Type
    <2> QED BY <2>1, <2>3
  <1>5. cut' = FALSE
    <2>1. oo \in {"completes", "fails"} /\ or \in {"completes", "fails"}
      BY DEF EndConn
    <2>2. /\ FinishAt(o, conns[cid].orig_state, oo) = FinishState(flows[o], oo)
          /\ FinishAt(r, conns[cid].resp_state, or) = FinishState(flows[r], or)
      BY <1>3 DEF FinishAt
    <2>3. /\ ~Suspended(FinishAt(o, conns[cid].orig_state, oo))
          /\ ~Suspended(FinishAt(r, conns[cid].resp_state, or))
      BY <2>1, <2>2, <1>2, <1>3, <1>4
    <2> QED
      BY <2>3, <1>1 DEF EndConn, TypeOK
  <1>6. dangling' = FALSE
    BY <1>1, <1>2, <1>3 DEF EndConn, TypeOK
  <1>7. /\ flows' = [flows EXCEPT ![o] = None, ![r] = None]
        /\ conns' = [conns EXCEPT ![cid] = None]
        /\ UNCHANGED <<nodes, ended>>
    BY <1>1 DEF EndConn
  <1>8. TypeOK'
    BY <1>5, <1>6, <1>7 DEF TypeOK
  <1>9. ~Live(o)' /\ ~Live(r)' /\ \A i \in FlowId \ {o, r} : flows'[i] = flows[i]
    BY <1>2, <1>7 DEF TypeOK, Live
  <1>10. conns'[cid] = None /\ \A c \in ConnId : c # cid => conns'[c] = conns[c]
    BY <1>7 DEF TypeOK
  <1>11. \A c \in ConnId : c # cid /\ conns[c] # None =>
            conns[c].orig_id \in FlowId \ {o, r} /\ conns[c].resp_id \in FlowId \ {o, r}
    BY <1>1, <1>2 DEF TypeOK, ConnectionState, Disjoint
  <1>12. \A c \in ConnId : conns'[c] # None => Linked(c)'
    BY <1>9, <1>10, <1>11 DEF Linked, Live
  <1>13. \A c, d \in ConnId : c # d /\ conns'[c] # None /\ conns'[d] # None => Disjoint(c, d)'
    BY <1>10 DEF Disjoint
  <1>14. \A a, b \in FlowId : Live(a)' /\ Live(b)' /\ a # b => Sharing(a, b)'
    <2> SUFFICES ASSUME NEW a \in FlowId, NEW b \in FlowId, Live(a)', Live(b)', a # b
                 PROVE  Sharing(a, b)'
      OBVIOUS
    <2>1. a \notin {o, r} /\ b \notin {o, r}
      BY <1>9
    <2>2. Sharing(a, b)
      BY <2>1, <1>9 DEF Live
    <2>3. {conns[cid].orig_id, conns[cid].resp_id} # {a, b}
      BY <2>1, <1>1
    <2> QED
      BY <2>1, <2>2, <2>3, <1>9, <1>10 DEF Sharing
  <1>15. \A i \in FlowId : Live(i)' => Good(flows[i])' /\ flows'[i].context <= nodes'
    BY <1>7, <1>9 DEF Live
  <1> QED
    BY <1>5, <1>6, <1>8, <1>12, <1>13, <1>14, <1>15, IInvPartsNext

\* Steps that change no flow and no connection.
LEMMA IdleStep ==
  ASSUME IInv, UNCHANGED <<flows, conns, dangling, cut>>, nodes' \in 0 .. MaxNodes,
         nodes <= nodes', ended' \in BOOLEAN
  PROVE  IInv'
  <1> USE IInvParts DEF Parts
  <1>1. TypeOK'
    BY DEF TypeOK
  <1>2. \A i \in FlowId : Live(i) => flows[i].context \in Nat /\ flows[i].context <= nodes
    BY DEF TypeOK, State, Live
  <1>3. \A i \in FlowId : Live(i)' => Good(flows[i])' /\ flows'[i].context <= nodes'
    BY <1>2 DEF Live, TypeOK
  <1> QED
    BY <1>1, <1>3, IInvPartsNext DEF Live, Linked, Disjoint, Sharing

\* IInv is an invariant.
THEOREM Invariant == Spec => []IInv
  <1>1. IInv /\ [Next]_vars => IInv'
    <2> SUFFICES ASSUME IInv, [Next]_vars PROVE IInv'
      OBVIOUS
    <2>0. TypeOK
      BY DEF IInv
    <2>1. ASSUME NEW id \in FlowId, NEW t \in Type, NEW p \in Parser \cup {Unknown},
                 BeginFlow(id, t, p)
          PROVE  IInv'
      BY <2>1, BeginFlowStep DEF BeginFlow
    <2>2. ASSUME NEW cid \in ConnId, NEW t \in Type, NEW o \in FlowId, NEW r \in FlowId,
                 NEW po \in Parser \cup {Unknown}, NEW pr \in Parser \cup {Unknown},
                 BeginConn(cid, t, o, po, r, pr)
          PROVE  IInv'
      <3>1. po \in Parser /\ pr \in Parser
        BY <2>2 DEF BeginConn
      <3> QED BY <2>2, <3>1, BeginConnStep
    <2>3. ASSUME NEW o \in FlowId, NEW r \in FlowId,
                 NEW po \in Parser \cup {Unknown}, NEW pr \in Parser \cup {Unknown},
                 BeginConnUnknown(o, po, r, pr)
          PROVE  IInv'
      <3>1. flows' = flows
        BY <2>3, <2>0 DEF BeginConnUnknown, UnusedIds, Live, TypeOK
      <3>2. nodes' \in 0 .. MaxNodes /\ nodes <= nodes'
        BY <2>3, <2>0, MaxNodesAssumption DEF BeginConnUnknown, TypeOK
      <3> QED
        BY <2>3, <2>0, <3>1, <3>2, IdleStep DEF BeginConnUnknown, TypeOK
    <2>4. ASSUME NEW id \in FlowId, NEW outcome \in Outcome, Data(id, outcome) PROVE IInv'
      BY <2>4, DataStep
    <2>5. ASSUME NEW id \in FlowId, NEW outcome \in Outcome, EndFlow(id, outcome) PROVE IInv'
      BY <2>5, EndFlowStep
    <2>6. ASSUME NEW cid \in ConnId, NEW oo \in Outcome, NEW or \in Outcome,
                 EndConn(cid, oo, or)
          PROVE  IInv'
      BY <2>6, EndConnStep
    <2>7. CASE EndBatch \/ UNCHANGED vars
      <3>1. nodes \in Nat
        BY <2>0, MaxNodesAssumption DEF TypeOK
      <3> QED
        <4>1. UNCHANGED <<flows, conns, dangling, cut, nodes>>
          BY <2>7 DEF EndBatch, vars
        <4>2. ended' \in BOOLEAN
          BY <2>7, <2>0 DEF EndBatch, vars, TypeOK
        <4>3. nodes' \in 0 .. MaxNodes /\ nodes <= nodes'
          BY <4>1, <3>1, <2>0 DEF TypeOK
        <4> QED
          BY <4>1, <4>2, <4>3, IdleStep
    <2> QED
      BY <2>1, <2>2, <2>3, <2>4, <2>5, <2>6, <2>7 DEF Next
  <1> QED
    BY InvInit, <1>1, PTL DEF Spec

\* The driver's state is well typed: only parsers that exist are ever given
\* input, for any number of flows.
THEOREM TypeCorrect == Spec => []TypeOK
  BY Invariant, PTL DEF IInv

\* The assertion of ParsingState::_process() holds for any number of flows,
\* and resume() is called on suspended parsers only.
THEOREM ResumedWhenSuspended == Spec => []ResumeIsSafe
  BY Invariant, PTL DEF IInv

\* For any number of flows and connections, the raw pointers of a connection
\* are good until it ends.
THEOREM PointersStayGood == Spec => []PointersLive
  BY Invariant, PTL DEF IInv

\* For any number of flows, no stream is released before it has seen its
\* end-of-data.
THEOREM StreamsSeeTheirEnd == Spec => []EveryStreamFinished
  BY Invariant, PTL DEF IInv

\* For any number of flows, two flows share a context only as the two sides of
\* one connection.
THEOREM ContextsNotMixed == Spec => []ContextsSeparate
  BY Invariant, PTL DEF IInv

\* For any number of flows and connections, the driver's maps fit together.
THEOREM MapsStayIntact == Spec => []MapsIntact
  BY Invariant, PTL DEF IInv, MapsIntact

(***************************************************************************)
(*                                 Startup                                 *)
(* No module and no parser is registered twice, what has used a global too *)
(* early was linked before the global's module, and the indices hold what  *)
(* the registered parsers declare for as long as answers come from them.   *)
(***************************************************************************)
Distinct(s) == \A i, j \in DOMAIN s : s[i] = s[j] => i = j

\* Nothing is registered twice, and no parser before its module is initialised.
Registered ==
  /\ modules \in Seq(Module) /\ Distinct(modules)
  /\ parsers \in Seq(Declared) /\ Distinct(parsers)
  /\ running = "no" => parsers = <<>>

\* What has used globals stays registered until they are gone.
UsersKnown == \A u \in unset : \E i \in DOMAIN modules : u[2] = modules[i]

\* The indices hold what has been registered, and nobody has been answered without them.
Indexed ==
  /\ indexed => /\ running = "yes"
                /\ byName = UNION {{Entry(i, key) : key \in NamesOf(parsers[i])} : i \in DOMAIN parsers}
                /\ byMimeType = UNION {{Entry(i, key) : key \in MimeKeysOf(parsers[i])} : i \in DOMAIN parsers}
                /\ default = DefaultOf[Len(parsers)]
  /\ ~indexed => answer = NoAnswer

\* What the index by MIME type makes of a pattern, and of any query.
FoundFor(pattern, mt) == pattern[1] = "*" \/ (pattern[1] = mt[1] /\ pattern[2] \in {mt[2], "*"})
ConnectedByKey(found, key, scope, ps) ==
  LET patterns(p) == {i \in DOMAIN Declares[p].mime_types : FoundFor(Declares[p].mime_types[i], key)}
      visible == {p \in ps : Visible(p, scope)}
      of(p) == {c \in found : c.parser = p}
  IN  /\ {c.parser : c \in found} = {p \in visible : patterns(p) # {}}
      /\ ~IsWildcard(key) => \A p \in visible : Cardinality(of(p)) = Cardinality(patterns(p))
ConnectsByKey ==
  answer.of = "type" => ConnectedByKey(answer.found, answer.key, answer.scope, Range(parsers))

AnswersAreRight == GlobalsComeFirst /\ LookupIsRight /\ ConnectsByKey
StartupIInv == Registered /\ UsersKnown /\ Indexed /\ AnswersAreRight

\* A set of natural numbers has a least one.
LEMMA Least ==
  ASSUME NEW T, T \subseteq Nat, T # {}
  PROVE  \E m \in T : \A k \in T : m <= k
<1>1. IsWellFoundedOn(OpToRel(<, Nat), Nat)
  BY NatLessThanWellFounded
<1>2. PICK m \in T : \A k \in T : ~ (<<k, m>> \in OpToRel(<, Nat))
  BY <1>1, WFMin
<1>3. \A k \in T : ~(k < m)
  BY <1>2 DEF OpToRel
<1>4. QED BY <1>3

\* What holds of 0, and of k + 1 whenever it holds of k, holds of all up to n.
LEMMA UpTo ==
  ASSUME NEW n \in Nat, NEW S, 0 \in S, \A k \in 0..n : k \in S /\ k < n => k + 1 \in S
  PROVE  \A k \in 0..n : k \in S
<1> DEFINE T == {k \in 0..n : k \notin S}
<1>1. SUFFICES ASSUME T # {} PROVE FALSE
  OBVIOUS
<1>2. PICK m \in T : \A k \in T : m <= k
  <2>1. T \subseteq Nat
    OBVIOUS
  <2>2. QED BY <1>1, <2>1, Least
<1>3. m # 0 /\ m - 1 \in 0..n /\ m - 1 \notin T
  BY <1>2
<1>4. (m - 1) + 1 \in S
  BY <1>2, <1>3
<1>5. QED BY <1>2, <1>4

\* Sequences without repetitions that have nothing in common make up another one.
LEMMA Joined ==
  ASSUME NEW S, NEW s \in Seq(S), NEW t \in Seq(S), Distinct(s), Distinct(t),
         \A i \in DOMAIN s, j \in DOMAIN t : s[i] # t[j]
  PROVE  /\ s \o t \in Seq(S) /\ Distinct(s \o t) /\ Len(s \o t) = Len(s) + Len(t)
         /\ \A i \in 1 .. Len(s) : (s \o t)[i] = s[i]
         /\ \A i \in Len(s) + 1 .. Len(s) + Len(t) : i - Len(s) \in DOMAIN t /\ (s \o t)[i] = t[i - Len(s)]
<1>1. /\ Len(s) \in Nat /\ Len(t) \in Nat /\ DOMAIN s = 1 .. Len(s) /\ DOMAIN t = 1 .. Len(t)
      /\ s \o t \in Seq(S) /\ Len(s \o t) = Len(s) + Len(t) /\ DOMAIN (s \o t) = 1 .. Len(s) + Len(t)
  OBVIOUS
<1>2. \A i \in 1 .. Len(s) : (s \o t)[i] = s[i]
  BY <1>1
<1>3. \A i \in Len(s) + 1 .. Len(s) + Len(t) : i - Len(s) \in DOMAIN t /\ (s \o t)[i] = t[i - Len(s)]
  BY <1>1
<1>4. ASSUME NEW i \in DOMAIN (s \o t), NEW j \in DOMAIN (s \o t), (s \o t)[i] = (s \o t)[j]
      PROVE  i = j
  <2> DEFINE n == Len(s)
  <2>1. CASE i <= n /\ j <= n
    BY <1>1, <1>2, <1>4, <2>1 DEF Distinct
  <2>2. CASE i > n /\ j > n
    <3>1. i - n \in DOMAIN t /\ j - n \in DOMAIN t /\ t[i - n] = t[j - n]
      BY <1>1, <1>3, <1>4, <2>2
    <3>2. i - n = j - n
      BY <3>1 DEF Distinct
    <3>3. QED BY <1>1, <3>2
  <2>3. CASE i <= n /\ j > n
    BY <1>1, <1>2, <1>3, <1>4, <2>3
  <2>4. CASE i > n /\ j <= n
    BY <1>1, <1>2, <1>3, <1>4, <2>4
  <2>5. QED BY <1>1, <2>1, <2>2, <2>3, <2>4
<1>5. QED BY <1>1, <1>2, <1>3, <1>4 DEF Distinct

\* One step after the other, from a value, gives a value for each number of steps.
Runs(f, n, base, step) == \A k \in 0..n : f[k] = IF k = 0 THEN base ELSE step[k][f[k - 1]]

\* There are such values, so that recursive functions on numbers exist.
LEMMA Recursion ==
  ASSUME NEW n \in Nat, NEW V, NEW base \in V, NEW step \in [1..n -> [V -> V]]
  PROVE  \E f \in [0..n -> V] : Runs(f, n, base, step)
<1> USE DEF Runs
<1> DEFINE Is(f, m) == Runs(f, m, base, step)
           S == {m \in 0..n : \E f \in [0..m -> V] : Is(f, m)}
<1>1. 0 \in S
  <2> DEFINE g == [k \in 0..0 |-> base]
  <2>1. g \in [0..0 -> V] /\ Is(g, 0)
    OBVIOUS
  <2> HIDE DEF g, Is
  <2>2. QED BY <2>1
<1>2. ASSUME NEW m \in 0..n, m \in S, m < n
      PROVE  m + 1 \in S
  <2>1. PICK f \in [0..m -> V] : Is(f, m)
    BY <1>2
  <2> DEFINE g == [k \in 0 .. m + 1 |-> IF k <= m THEN f[k] ELSE step[k][f[m]]]
  <2>2. m \in 0..m /\ m + 1 \in 1..n /\ f[m] \in V /\ step[m + 1] \in [V -> V]
    BY <1>2
  <2>3. g \in [0 .. m + 1 -> V]
    BY <2>2
  <2>4. ASSUME NEW k \in 0 .. m + 1
        PROVE  g[k] = IF k = 0 THEN base ELSE step[k][g[k - 1]]
    <3>1. CASE k \in 0..m
      <4>1. g[k] = f[k] /\ (k # 0 => g[k - 1] = f[k - 1])
        BY <3>1
      <4>2. QED BY <2>1, <3>1, <4>1
    <3>2. CASE k = m + 1
      <4>1. g[k] = step[k][f[m]] /\ g[k - 1] = f[m] /\ k # 0
        BY <3>2
      <4>2. QED BY <4>1
    <3>3. QED BY <3>1, <3>2
  <2>5. Is(g, m + 1) /\ m + 1 \in 0..n
    BY <1>2, <2>4
  <2> HIDE DEF g, Is
  <2>6. QED BY <2>3, <2>5
<1>3. \A k \in 0..n : k \in S
  <2> HIDE DEF S
  <2>1. QED BY <1>1, <1>2, UpTo
<1>4. n \in S
  BY <1>3
<1>5. QED BY <1>4

\* The functions that are defined by recursion on the registered modules and parsers
\* are what their definitions say.
LEMMA RegisteredByFacts ==
  ASSUME modules \in Seq(Module)
  PROVE  \A i \in 0 .. Len(modules) :
           /\ RegisteredBy[i] \in Seq(Declared)
           /\ RegisteredBy[i] = IF i = 0 THEN <<>> ELSE RegisteredBy[i - 1] \o Registers[modules[i]]
<1> DEFINE n == Len(modules)
           V == Seq(Declared)
           step == [i \in 1..n |-> [s \in V |-> s \o Registers[modules[i]]]]
           Is(f) == f = [i \in 0..n |-> IF i = 0 THEN <<>> ELSE f[i - 1] \o Registers[modules[i]]]
<1>1. n \in Nat /\ \A i \in 1..n : modules[i] \in Module /\ Registers[modules[i]] \in V
  BY StartupAssumption DEF RegistersAssumption
<1>2. <<>> \in V /\ step \in [1..n -> [V -> V]]
  BY <1>1
<1>3. PICK f \in [0..n -> V] : Runs(f, n, <<>>, step)
  <2>1. n \in Nat
    BY <1>1
  <2> HIDE DEF step, V, n
  <2>2. QED BY <1>2, <2>1, Recursion
<1>4. ASSUME NEW k \in 0..n
      PROVE  f[k] = IF k = 0 THEN <<>> ELSE f[k - 1] \o Registers[modules[k]]
  <2>1. CASE k = 0
    BY <1>3, <2>1 DEF Runs
  <2>2. CASE k # 0
    <3>1. k \in 1..n /\ k - 1 \in 0..n
      BY <1>1, <2>2
    <3>2. f[k - 1] \in V /\ step[k][f[k - 1]] = f[k - 1] \o Registers[modules[k]]
      BY <1>1, <3>1
    <3>3. QED BY <1>3, <2>2, <3>2 DEF Runs
  <2>3. QED BY <2>1, <2>2
<1>5. Is(f)
  <2>1. f = [k \in 0..n |-> f[k]]
    OBVIOUS
  <2>2. QED BY <1>4, <2>1
<1>6. RegisteredBy = CHOOSE g : Is(g)
  BY DEF RegisteredBy
<1>7. Is(RegisteredBy)
  <2> HIDE DEF Is
  <2>1. QED BY <1>5, <1>6
<1> DEFINE T == {k \in 0..n : RegisteredBy[k] \in V}
<1>8. 0 \in T
  BY <1>1, <1>2, <1>7
<1>9. ASSUME NEW k \in 0..n, k \in T, k < n
      PROVE  k + 1 \in T
  <2>1. RegisteredBy[k + 1] = RegisteredBy[k] \o Registers[modules[k + 1]]
    <3>1. k + 1 \in 0..n /\ k + 1 # 0 /\ (k + 1) - 1 = k
      BY <1>1, <1>9
    <3> HIDE DEF n
    <3>2. QED BY <1>7, <3>1
  <2>2. Registers[modules[k + 1]] \in V /\ k + 1 \in 0..n
    BY <1>1, <1>9
  <2>3. RegisteredBy[k + 1] \in V
    BY <1>9, <2>1, <2>2
  <2>4. QED BY <2>2, <2>3
<1>10. \A k \in 0..n : k \in T
  <2> HIDE DEF T
  <2>1. QED BY <1>1, <1>8, <1>9, UpTo
<1>11. QED BY <1>7, <1>10

\* The default parser is decided one registered parser after the other.
LEMMA DefaultOfFacts ==
  ASSUME parsers \in Seq(Declared)
  PROVE  \A i \in 0 .. Len(parsers) :
           DefaultOf[i] = IF i = 0 THEN NoParser ELSE NextDefault(parsers[i], DefaultOf[i - 1])
<1> DEFINE n == Len(parsers)
           V == Declared \cup {NoParser}
           step == [i \in 1..n |-> [p \in V |-> NextDefault(parsers[i], p)]]
           Is(f) == f = [i \in 0..n |-> IF i = 0 THEN NoParser ELSE NextDefault(parsers[i], f[i - 1])]
<1>1. n \in Nat /\ \A i \in 1..n : parsers[i] \in Declared
  OBVIOUS
<1>2. NoParser \in V /\ step \in [1..n -> [V -> V]]
  BY <1>1 DEF NextDefault
<1>3. PICK f \in [0..n -> V] : Runs(f, n, NoParser, step)
  <2>1. n \in Nat
    BY <1>1
  <2> HIDE DEF step, V, n
  <2>2. QED BY <1>2, <2>1, Recursion
<1>4. ASSUME NEW k \in 0..n
      PROVE  f[k] = IF k = 0 THEN NoParser ELSE NextDefault(parsers[k], f[k - 1])
  <2>1. CASE k = 0
    BY <1>3, <2>1 DEF Runs
  <2>2. CASE k # 0
    <3>1. k \in 1..n /\ k - 1 \in 0..n
      BY <1>1, <2>2
    <3>2. f[k - 1] \in V /\ step[k][f[k - 1]] = NextDefault(parsers[k], f[k - 1])
      BY <1>1, <3>1
    <3>3. QED BY <1>3, <2>2, <3>2 DEF Runs
  <2>3. QED BY <2>1, <2>2
<1>5. Is(f)
  <2>1. f = [k \in 0..n |-> f[k]]
    OBVIOUS
  <2>2. QED BY <1>4, <2>1
<1>6. DefaultOf = CHOOSE g : Is(g)
  BY DEF DefaultOf
<1>7. Is(DefaultOf)
  <2> HIDE DEF Is
  <2>1. QED BY <1>5, <1>6
<1>8. QED BY <1>7

\* What modules register has no repetitions, and tells which module it comes from.
LEMMA RegisteredByGood ==
  ASSUME modules \in Seq(Module), Distinct(modules)
  PROVE  \A i \in 0 .. Len(modules) :
           /\ RegisteredBy[i] \in Seq(Declared) /\ Distinct(RegisteredBy[i])
           /\ \A x \in DOMAIN RegisteredBy[i] : \E j \in 1..i : \E y \in DOMAIN Registers[modules[j]] :
                RegisteredBy[i][x] = Registers[modules[j]][y]
<1> DEFINE n == Len(modules)
           Comes(p, i) == \E j \in 1..i : \E y \in DOMAIN Registers[modules[j]] : p = Registers[modules[j]][y]
           From(s, i) == \A x \in DOMAIN s : Comes(s[x], i)
           S == {i \in 0..n : Distinct(RegisteredBy[i]) /\ From(RegisteredBy[i], i)}
<1>1. /\ n \in Nat
      /\ \A i \in 0..n : /\ RegisteredBy[i] \in Seq(Declared)
                         /\ RegisteredBy[i] = IF i = 0 THEN <<>> ELSE RegisteredBy[i - 1] \o Registers[modules[i]]
  BY RegisteredByFacts
<1>2. 0 \in S
  <2>1. RegisteredBy[0] = <<>>
    BY <1>1
  <2>2. DOMAIN RegisteredBy[0] = {}
    BY <2>1
  <2>3. QED BY <1>1, <2>2 DEF Distinct
<1>3. ASSUME NEW i \in 0..n, i \in S, i < n
      PROVE  i + 1 \in S
  <2> DEFINE s == RegisteredBy[i]
             t == Registers[modules[i + 1]]
  <2>1. i + 1 \in 1..n /\ (i + 1) - 1 = i /\ i + 1 \in 0..n /\ i + 1 # 0 /\ i \in Nat
    BY <1>1, <1>3
  <2>2. RegisteredBy[i + 1] = s \o t /\ s \in Seq(Declared)
    <3>1. RegisteredBy[i + 1] = RegisteredBy[(i + 1) - 1] \o Registers[modules[i + 1]]
      BY <1>1, <2>1
    <3>2. QED BY <1>1, <2>1, <3>1
  <2>3. /\ \A j \in 1..n : modules[j] \in Module /\ Registers[modules[j]] \in Seq(Declared)
        /\ \A j, k \in 1..n : modules[j] = modules[k] => j = k
    BY StartupAssumption DEF RegistersAssumption, Distinct
  <2>4. t \in Seq(Declared) /\ Distinct(t) /\ modules[i + 1] \in Module
    BY <2>1, <2>3, StartupAssumption DEF RegistersAssumption, Distinct
  <2>5. ASSUME NEW x \in DOMAIN s, NEW y \in DOMAIN t
        PROVE  s[x] # t[y]
    <3>1. PICK j \in 1..i : \E z \in DOMAIN Registers[modules[j]] : s[x] = Registers[modules[j]][z]
      BY <1>3
    <3>2. PICK z \in DOMAIN Registers[modules[j]] : s[x] = Registers[modules[j]][z]
      BY <3>1
    <3>3. j \in 1..n /\ j # i + 1
      BY <2>1
    <3>4. modules[j] # modules[i + 1] /\ modules[j] \in Module
      BY <2>1, <2>3, <3>3
    <3>5. QED BY <2>4, <3>2, <3>4, StartupAssumption DEF RegistersAssumption
  <2>6. Distinct(s)
    BY <1>3
  <2> HIDE DEF s, t
  <2>7. /\ Distinct(s \o t) /\ Len(s \o t) = Len(s) + Len(t) /\ s \o t \in Seq(Declared)
        /\ \A x \in 1 .. Len(s) : (s \o t)[x] = s[x]
        /\ \A x \in Len(s) + 1 .. Len(s) + Len(t) : x - Len(s) \in DOMAIN t /\ (s \o t)[x] = t[x - Len(s)]
    BY <2>2, <2>4, <2>5, <2>6, Joined
  <2>8. ASSUME NEW x \in DOMAIN (s \o t)
        PROVE  Comes((s \o t)[x], i + 1)
    <3>1. x \in 1 .. Len(s) + Len(t) /\ Len(s) \in Nat /\ Len(t) \in Nat /\ DOMAIN s = 1 .. Len(s)
      BY <2>2, <2>4, <2>7
    <3>2. CASE x <= Len(s)
      <4>1. x \in DOMAIN s /\ (s \o t)[x] = s[x]
        BY <2>7, <3>1, <3>2
      <4>2. PICK j \in 1..i : \E y \in DOMAIN Registers[modules[j]] : s[x] = Registers[modules[j]][y]
        BY <1>3, <4>1 DEF s
      <4>3. j \in 1 .. i + 1
        BY <2>1
      <4>4. QED BY <4>1, <4>2, <4>3
    <3>3. CASE x > Len(s)
      <4>1. x - Len(s) \in DOMAIN t /\ (s \o t)[x] = t[x - Len(s)]
        BY <2>7, <3>1, <3>3
      <4>2. i + 1 \in 1 .. i + 1
        BY <2>1
      <4>3. QED BY <4>1, <4>2 DEF t
    <3>4. x <= Len(s) \/ x > Len(s)
      BY <3>1
    <3> HIDE DEF Comes
    <3>5. QED BY <3>2, <3>3, <3>4
  <2>9. From(RegisteredBy[i + 1], i + 1)
    <3> HIDE DEF Comes
    <3>1. QED BY <2>2, <2>8
  <2>10. QED BY <2>1, <2>2, <2>7, <2>9
<1>4. \A i \in 0..n : i \in S
  <2> HIDE DEF S, n
  <2>1. QED BY <1>1, <1>2, <1>3, UpTo
<1>5. QED BY <1>1, <1>4

\* Whatever part of the modules' code has run, no parser has been registered twice.
LEMMA InitRegisters ==
  ASSUME modules \in Seq(Module), Distinct(modules), parsers = <<>>,
         NEW step, NEW at, NEW done, InitHilti(step, at, done),
         step = "code" => at \in DOMAIN modules /\ done \in 0 .. Len(Registers[modules[at]])
  PROVE  parsers' \in Seq(Declared) /\ Distinct(parsers')
<1> DEFINE n == Len(modules)
<1>1. n \in Nat /\ DOMAIN modules = 1..n
  OBVIOUS
<1>2. \A i \in 0..n :
           /\ RegisteredBy[i] \in Seq(Declared) /\ Distinct(RegisteredBy[i])
           /\ \A x \in DOMAIN RegisteredBy[i] : \E j \in 1..i : \E y \in DOMAIN Registers[modules[j]] :
                RegisteredBy[i][x] = Registers[modules[j]][y]
  BY RegisteredByGood
<1>3. CASE step # "code"
  <2>1. PICK i \in 0..n : parsers' = parsers \o RegisteredBy[i]
    <3>1. parsers' = parsers \o RegisteredBy[IF step = "globals" THEN 0 ELSE IF step = "code" THEN at ELSE Len(modules)]
      BY <1>3 DEF InitHilti
    <3>2. 0 \in 0..n /\ n \in 0..n
      BY <1>1
    <3>3. QED BY <1>3, <3>1, <3>2
  <2>2. RegisteredBy[i] \in Seq(Declared) /\ Distinct(RegisteredBy[i])
    BY <1>2
  <2>3. parsers' = RegisteredBy[i]
    BY <2>1, <2>2
  <2>4. QED BY <2>2, <2>3
<1>4. CASE step = "code"
  <2> DEFINE s == RegisteredBy[at - 1]
             all == Registers[modules[at]]
             t == SubSeq(all, 1, done)
  <2>1. at \in 1..n /\ at - 1 \in 0..n
    BY <1>1, <1>4
  <2>2. /\ \A j \in 1..n : modules[j] \in Module /\ Registers[modules[j]] \in Seq(Declared)
        /\ \A j, k \in 1..n : modules[j] = modules[k] => j = k
    BY StartupAssumption DEF RegistersAssumption, Distinct
  <2>3. all \in Seq(Declared) /\ done \in 0 .. Len(all) /\ modules[at] \in Module
    BY <1>4, <2>1, <2>2
  <2>4. t \in Seq(Declared) /\ DOMAIN t = 1..done /\ \A y \in DOMAIN t : y \in DOMAIN all /\ t[y] = all[y]
    BY <2>3
  <2>5. \A x, y \in DOMAIN all : all[x] = all[y] => x = y
    BY <2>3, StartupAssumption DEF RegistersAssumption
  <2>6. Distinct(t)
    BY <2>4, <2>5 DEF Distinct
  <2>7. s \in Seq(Declared) /\ Distinct(s)
    BY <1>2, <2>1
  <2>8. ASSUME NEW x \in DOMAIN s, NEW y \in DOMAIN t
        PROVE  s[x] # t[y]
    <3>1. PICK j \in 1 .. at - 1 : \E z \in DOMAIN Registers[modules[j]] : s[x] = Registers[modules[j]][z]
      BY <1>2, <2>1
    <3>2. PICK z \in DOMAIN Registers[modules[j]] : s[x] = Registers[modules[j]][z]
      BY <3>1
    <3>3. j \in 1..n /\ j # at
      BY <2>1
    <3>4. modules[j] # modules[at] /\ modules[j] \in Module
      BY <2>1, <2>2, <3>3
    <3>5. y \in DOMAIN all /\ t[y] = all[y]
      BY <2>4
    <3>6. QED BY <2>3, <3>2, <3>4, <3>5, StartupAssumption DEF RegistersAssumption
  <2>9. parsers' = parsers \o (s \o t)
    BY <1>4 DEF InitHilti
  <2> HIDE DEF s, t
  <2>10. s \o t \in Seq(Declared) /\ Distinct(s \o t)
    BY <2>4, <2>6, <2>7, <2>8, Joined
  <2>11. parsers' = s \o t
    BY <2>9, <2>10
  <2>12. QED BY <2>10, <2>11
<1>5. QED BY <1>3, <1>4

\* With one public parser, that is the default; with two, there is none.
LEMMA DefaultRight ==
  ASSUME Registered, Public # {}
  PROVE  /\ \A p : Public = {p} => DefaultOf[Len(parsers)] = p /\ p # NoParser
         /\ \A p, q : p # q /\ Public = {p, q} => DefaultOf[Len(parsers)] = NoParser
<1> DEFINE n == Len(parsers)
           Of(i) == {p \in {parsers[j] : j \in 1..i} : Declares[p].is_public}
           Fits(i) == /\ Of(i) = {} => DefaultOf[i] = NoParser
                      /\ \A p : Of(i) = {p} => DefaultOf[i] = p
                      /\ \A p, q : p # q /\ Of(i) = {p, q} => DefaultOf[i] = NoParser
           S == {i \in 0..n : Fits(i)}
<1>1. /\ n \in Nat /\ \A i \in 1..n : parsers[i] \in Declared
      /\ \A i, j \in 1..n : parsers[i] = parsers[j] => i = j
      /\ NoParser \notin Declared
  BY StartupAssumption DEF Registered, Distinct, DeclaresAssumption
<1>2. \A i \in 0..n : DefaultOf[i] = IF i = 0 THEN NoParser ELSE NextDefault(parsers[i], DefaultOf[i - 1])
  BY DefaultOfFacts DEF Registered
<1>3. 0 \in S
  <2>1. Of(0) = {} /\ DefaultOf[0] = NoParser
    BY <1>1, <1>2
  <2>2. QED BY <1>1, <2>1
<1>4. ASSUME NEW i \in 0..n, i \in S, i < n
      PROVE  i + 1 \in S
  <2> DEFINE x == parsers[i + 1]
             d == DefaultOf[i]
             e == DefaultOf[i + 1]
  <2>1. i + 1 \in 1..n /\ (i + 1) - 1 = i /\ i + 1 \in 0..n /\ i + 1 # 0 /\ i \in Nat
    BY <1>1, <1>4
  <2>2. e = NextDefault(x, d)
    BY <1>2, <2>1
  <2>3. x \in Declared /\ x \notin Of(i) /\ x # NoParser /\ \A p \in Of(i) : p # NoParser
    <3>1. \A j \in 1..i : j \in 1..n /\ parsers[j] # x
      BY <1>1, <2>1
    <3>2. QED BY <1>1, <2>1, <3>1
  <2>4. Of(i + 1) = IF Declares[x].is_public THEN Of(i) \cup {x} ELSE Of(i)
    <3>1. {parsers[j] : j \in 1 .. i + 1} = {parsers[j] : j \in 1..i} \cup {x}
      <4>1. \A j : j \in 1 .. i + 1 <=> j \in 1..i \/ j = i + 1
        BY <2>1
      <4>2. QED BY <4>1
    <3>2. QED BY <3>1
  <2>5. Fits(i)
    BY <1>4
  <2> HIDE DEF Of, x, d, e
  <2>6. CASE ~Declares[x].is_public
    <3>1. e = d /\ Of(i + 1) = Of(i)
      BY <2>2, <2>4, <2>6 DEF NextDefault
    <3>2. Fits(i + 1)
      BY <2>5, <3>1 DEF d, e
    <3> HIDE DEF Fits
    <3>3. QED BY <2>1, <3>2
  <2>7. CASE Declares[x].is_public
    <3>1. Of(i + 1) = Of(i) \cup {x} /\ e = IF d = NoParser THEN x ELSE NoParser
      BY <2>2, <2>4, <2>7 DEF NextDefault
    <3>2. Of(i + 1) # {}
      BY <3>1
    <3>3. ASSUME NEW p, Of(i + 1) = {p}
          PROVE  e = p
      <4>1. Of(i) = {} /\ p = x
        BY <2>3, <3>1, <3>3
      <4>2. QED BY <2>5, <3>1, <4>1 DEF d
    <3>4. ASSUME NEW p, NEW q, p # q, Of(i + 1) = {p, q}
          PROVE  e = NoParser
      <4>1. \E r : Of(i) = {r}
        <5>1. CASE x = p
          <6>1. Of(i) = {q}
            BY <2>3, <3>1, <3>4, <5>1
          <6>2. QED BY <6>1
        <5>2. CASE x = q
          <6>1. Of(i) = {p}
            BY <2>3, <3>1, <3>4, <5>2
          <6>2. QED BY <6>1
        <5>3. QED BY <3>1, <3>4, <5>1, <5>2
      <4>2. PICK r : Of(i) = {r}
        BY <4>1
      <4>3. d = r /\ r # NoParser
        BY <2>3, <2>5, <4>2 DEF d
      <4>4. QED BY <3>1, <4>3
    <3>5. Fits(i + 1)
      BY <3>2, <3>3, <3>4 DEF e
    <3> HIDE DEF Fits
    <3>6. QED BY <2>1, <3>5
  <2>8. QED BY <2>6, <2>7
<1>5. \A i \in 0..n : i \in S
  <2> HIDE DEF S, n
  <2>1. QED BY <1>1, <1>3, <1>4, UpTo
<1>6. Of(n) = Public
  BY <1>1 DEF Public, Range, Registered
<1>7. Public \subseteq Declared
  BY <1>1, <1>6
<1>8. Fits(n)
  <2> HIDE DEF S
  <2>1. n \in S
    BY <1>1, <1>5
  <2>2. QED BY <2>1 DEF S
<1>9. QED BY <1>1, <1>6, <1>7, <1>8

\* Whatever a host asks for is the empty name, a unit's, a port with a direction, or a type.
LEMMA NamesArePairs ==
  ASSUME NEW name \in Names, Len(name) = 2
  PROVE  name = <<name[1], name[2]>>
<1>1. name # <<>>
  OBVIOUS
<1>2. PICK p \in Declared : \E key \in NamesOf(p) : name = key[1]
  BY <1>1 DEF Names
<1>3. PICK key \in NamesOf(p) : name = key[1]
  BY <1>2
<1>4. CASE key = <<<<p>>, <<"unit", 1>>>>
  BY <1>3, <1>4
<1>5. ASSUME NEW i \in DOMAIN Declares[p].ports, NEW d \in Directions(Declares[p].ports[i].direction),
             key = <<<<Declares[p].ports[i].port, d>>, <<"port", i>>>>
      PROVE  name = <<name[1], name[2]>>
  BY <1>3, <1>5
<1>6. ASSUME NEW i \in DOMAIN Declares[p].mime_types, key = <<Declares[p].mime_types[i], <<"type", i>>>>
      PROVE  name = <<name[1], name[2]>>
  <2>1. Declares[p].mime_types[i] \in STRING \X STRING
    BY StartupAssumption DEF DeclaresAssumption, MIMEType
  <2>2. name = Declares[p].mime_types[i]
    BY <1>3, <1>6
  <2>3. QED BY <2>1, <2>2
<1>7. \/ key = <<<<p>>, <<"unit", 1>>>>
      \/ \E i \in DOMAIN Declares[p].ports : \E d \in Directions(Declares[p].ports[i].direction) :
           key = <<<<Declares[p].ports[i].port, d>>, <<"port", i>>>>
      \/ \E i \in DOMAIN Declares[p].mime_types : key = <<Declares[p].mime_types[i], <<"type", i>>>>
  BY <1>3 DEF NamesOf
<1>8. QED BY <1>4, <1>5, <1>6, <1>7

\* A parser's names are those that its declarations claim.
LEMMA NamesAreClaims ==
  ASSUME NEW p \in Declared, NEW name \in Names, NEW from
  PROVE  <<name, from>> \in NamesOf(p) <=> from \in Claims(p, name)
<1> DEFINE ports == Declares[p].ports
           types == Declares[p].mime_types
           Keys == {<<<<p>>, <<"unit", 1>>>>}
           Ports == UNION {{<<<<ports[i].port, d>>, <<"port", i>>>> : d \in Directions(ports[i].direction)} : i \in DOMAIN ports}
           MimeTypes == {<<types[i], <<"type", i>>>> : i \in {j \in DOMAIN types : ~IsWildcard(types[j])}}
           named(x) == x.port = name[1] /\ name[2] \in IF x.direction = "both" THEN {"", "%orig", "%resp"} ELSE {x.direction}
           ByKey == {u \in {<<"unit", 1>>} : name = <<p>>}
           ByPort == {<<"port", i>> : i \in {j \in DOMAIN ports : Len(name) = 2 /\ named(ports[j])}}
           ByType == {<<"type", i>> : i \in {j \in DOMAIN types : types[j] = name /\ ~IsWildcard(name)}}
<1>1. <<name, from>> \in Keys <=> from \in ByKey
  OBVIOUS
<1>2. <<name, from>> \in Ports <=> from \in ByPort
  <2>1. ASSUME NEW i \in DOMAIN ports, NEW d \in Directions(ports[i].direction),
               name = <<ports[i].port, d>>, from = <<"port", i>>
        PROVE  from \in ByPort
    <3>1. Len(name) = 2 /\ name[1] = ports[i].port /\ name[2] = d
      BY <2>1
    <3>2. named(ports[i])
      BY <3>1 DEF Directions
    <3> HIDE DEF named
    <3>3. QED BY <2>1, <3>1, <3>2
  <2>2. ASSUME NEW i \in DOMAIN ports, Len(name) = 2, named(ports[i]), from = <<"port", i>>
        PROVE  <<name, from>> \in Ports
    <3>1. name = <<ports[i].port, name[2]>> /\ name[2] \in Directions(ports[i].direction)
      <4>1. name = <<name[1], name[2]>>
        BY <2>2, NamesArePairs
      <4>2. QED BY <2>2, <4>1 DEF Directions
    <3>2. <<name, from>> \in {<<<<ports[i].port, d>>, <<"port", i>>>> : d \in Directions(ports[i].direction)}
      BY <2>2, <3>1
    <3>3. QED BY <3>2
  <2>3. <<name, from>> \in Ports =>
          \E i \in DOMAIN ports : \E d \in Directions(ports[i].direction) : name = <<ports[i].port, d>> /\ from = <<"port", i>>
    OBVIOUS
  <2>4. from \in ByPort => \E i \in DOMAIN ports : Len(name) = 2 /\ named(ports[i]) /\ from = <<"port", i>>
    <3> HIDE DEF named
    <3>1. QED OBVIOUS
  <2> HIDE DEF Ports, ByPort, named
  <2>5. QED BY <2>1, <2>2, <2>3, <2>4
<1>3. <<name, from>> \in MimeTypes <=> from \in ByType
  <2>1. <<name, from>> \in MimeTypes <=> \E i \in DOMAIN types : ~IsWildcard(types[i]) /\ name = types[i] /\ from = <<"type", i>>
    OBVIOUS
  <2>2. QED BY <2>1
<1>4. NamesOf(p) = Keys \cup Ports \cup MimeTypes
  BY DEF NamesOf
<1>5. Claims(p, name) = ByKey \cup ByPort \cup ByType
  BY DEF Claims
<1> HIDE DEF Keys, Ports, MimeTypes, ByKey, ByPort, ByType
<1>6. QED BY <1>1, <1>2, <1>3, <1>4, <1>5

\* What is found with the finitely many members of a finite set is finite.
LEMMA FiniteUnion ==
  ASSUME NEW D, IsFiniteSet(D), NEW F, DOMAIN F = D, \A x \in D : IsFiniteSet(F[x])
  PROVE  IsFiniteSet(UNION {F[x] : x \in D})
<1> DEFINE Image == {F[x] : x \in D}
           g == [x \in D |-> F[x]]
<1>1. g \in Surjection(D, Image)
  BY DEF Surjection
<1>2. IsFiniteSet(Image)
  <2> HIDE DEF g, Image
  <2>1. QED BY <1>1, FS_Surjection
<1>3. \A T \in Image : IsFiniteSet(T)
  OBVIOUS
<1> HIDE DEF Image
<1>4. IsFiniteSet(UNION Image)
  BY <1>2, <1>3, FS_UNION
<1>5. QED BY <1>4 DEF Image

\* Finitely many registrations make finitely many entries for a name.
LEMMA FiniteEntries ==
  ASSUME Registered, NEW name,
         NEW E, \A e \in E : \E i \in DOMAIN parsers : \E key \in NamesOf(parsers[i]) :
                               e = Entry(i, key) /\ key[1] = name
  PROVE  IsFiniteSet(E)
<1> DEFINE From(p) == {<<"unit", 1>>} \cup {"port"} \X DOMAIN Declares[p].ports
                                      \cup {"type"} \X DOMAIN Declares[p].mime_types
           At(i) == {i} \X From(parsers[i])
           F == [i \in DOMAIN parsers |-> At(i)]
           All == UNION {F[i] : i \in DOMAIN parsers}
           g == [e \in E |-> e.from]
<1>1. /\ DOMAIN parsers = 1 .. Len(parsers) /\ Len(parsers) \in Nat
      /\ \A i \in DOMAIN parsers : parsers[i] \in Declared
  BY DEF Registered
<1>2. IsFiniteSet(DOMAIN parsers)
  BY <1>1, FS_Interval
<1>3. ASSUME NEW p \in Declared
      PROVE  IsFiniteSet(From(p))
  <2> DEFINE ports == DOMAIN Declares[p].ports
             types == DOMAIN Declares[p].mime_types
  <2>1. types = 1 .. Len(Declares[p].mime_types) /\ Len(Declares[p].mime_types) \in Nat /\ IsFiniteSet(ports)
    BY StartupAssumption DEF DeclaresAssumption
  <2>2. IsFiniteSet(types)
    BY <2>1, FS_Interval
  <2>3. IsFiniteSet({<<"unit", 1>>}) /\ IsFiniteSet({"port"}) /\ IsFiniteSet({"type"})
    BY FS_Singleton
  <2> HIDE DEF ports, types
  <2>4. IsFiniteSet({"port"} \X ports) /\ IsFiniteSet({"type"} \X types)
    BY <2>1, <2>2, <2>3, FS_Product
  <2>5. IsFiniteSet({<<"unit", 1>>} \cup {"port"} \X ports)
    BY <2>3, <2>4, FS_Union
  <2>6. IsFiniteSet(({<<"unit", 1>>} \cup {"port"} \X ports) \cup {"type"} \X types)
    BY <2>4, <2>5, FS_Union
  <2>7. QED BY <2>6 DEF ports, types
<1>4. ASSUME NEW i \in DOMAIN parsers
      PROVE  IsFiniteSet(F[i])
  <2>1. IsFiniteSet(From(parsers[i])) /\ IsFiniteSet({i})
    BY <1>1, <1>3, FS_Singleton
  <2> HIDE DEF From
  <2>2. IsFiniteSet({i} \X From(parsers[i]))
    BY <2>1, FS_Product
  <2>3. QED BY <2>2
<1>5. IsFiniteSet(All)
  <2> HIDE DEF At
  <2>1. DOMAIN F = DOMAIN parsers
    OBVIOUS
  <2> HIDE DEF F
  <2>2. QED BY <1>2, <1>4, <2>1, FiniteUnion
<1>6. ASSUME NEW p \in Declared, NEW key \in NamesOf(p)
      PROVE  key[2] \in From(p)
  BY DEF NamesOf
<1>7. ASSUME NEW e \in E
      PROVE  \E i \in DOMAIN parsers : \E from \in From(parsers[i]) :
               e = [key |-> name, parser |-> parsers[i], from |-> <<i, from>>]
  <2>1. PICK i \in DOMAIN parsers : \E key \in NamesOf(parsers[i]) : e = Entry(i, key) /\ key[1] = name
    OBVIOUS
  <2>2. PICK key \in NamesOf(parsers[i]) : e = Entry(i, key) /\ key[1] = name
    BY <2>1
  <2>3. key[2] \in From(parsers[i])
    BY <1>1, <1>6
  <2>4. e = [key |-> name, parser |-> parsers[i], from |-> <<i, key[2]>>]
    BY <2>2 DEF Entry
  <2> HIDE DEF From
  <2>5. QED BY <2>3, <2>4
<1>8. g \in Injection(E, All)
  <2>1. ASSUME NEW e \in E
        PROVE  e.from \in All
    <3>1. PICK i \in DOMAIN parsers : \E from \in From(parsers[i]) :
                 e = [key |-> name, parser |-> parsers[i], from |-> <<i, from>>]
      BY <1>7
    <3> HIDE DEF From
    <3>2. PICK from \in From(parsers[i]) : e = [key |-> name, parser |-> parsers[i], from |-> <<i, from>>]
      BY <3>1
    <3>3. e.from = <<i, from>> /\ <<i, from>> \in F[i]
      BY <3>2
    <3> HIDE DEF F
    <3>4. QED BY <3>3
  <2>2. ASSUME NEW e \in E, NEW f \in E, e.from = f.from
        PROVE  e = f
    <3> HIDE DEF From
    <3>1. PICK i \in DOMAIN parsers, j \in DOMAIN parsers :
            /\ \E from \in From(parsers[i]) : e = [key |-> name, parser |-> parsers[i], from |-> <<i, from>>]
            /\ \E from \in From(parsers[j]) : f = [key |-> name, parser |-> parsers[j], from |-> <<j, from>>]
      BY <1>7
    <3>2. PICK c \in From(parsers[i]), d \in From(parsers[j]) :
            /\ e = [key |-> name, parser |-> parsers[i], from |-> <<i, c>>]
            /\ f = [key |-> name, parser |-> parsers[j], from |-> <<j, d>>]
      BY <3>1
    <3>3. i = j /\ c = d
      BY <2>2, <3>2
    <3>4. QED BY <3>2, <3>3
  <2> HIDE DEF All
  <2>3. QED BY <2>1, <2>2 DEF Injection, IsInjective
<1>9. QED
  <2> HIDE DEF All, g
  <2>1. QED BY <1>5, <1>8, FS_Injection

\* How many members a small set has.
LEMMA SmallSets ==
  ASSUME NEW S, IsFiniteSet(S)
  PROVE  /\ Cardinality(S) > 1 <=> \E x, y \in S : x # y
         /\ Cardinality(S) <= 2 /\ S # {} => (\E x : S = {x}) \/ \E x, y : x # y /\ S = {x, y}
<1>1. Cardinality(S) \in Nat /\ (Cardinality(S) = 0 <=> S = {}) /\ (Cardinality(S) = 1 <=> \E x : S = {x})
  BY FS_CardinalityType, FS_EmptySet, FS_Singleton
<1>2. Cardinality(S) > 1 <=> \E x, y \in S : x # y
  <2>1. (\E x, y \in S : x # y) <=> S # {} /\ ~\E x : S = {x}
    OBVIOUS
  <2>2. QED BY <1>1, <2>1
<1>3. ASSUME Cardinality(S) = 2
      PROVE  \E x, y : x # y /\ S = {x, y}
  <2>1. PICK x \in S : TRUE
    BY <1>1, <1>3
  <2>2. IsFiniteSet(S \ {x}) /\ Cardinality(S \ {x}) = 1
    BY <1>1, <1>3, FS_RemoveElement
  <2>3. PICK y : S \ {x} = {y}
    BY <2>2, FS_Singleton
  <2>4. x # y /\ S = {x, y}
    BY <2>1, <2>3
  <2>5. QED BY <2>4
<1>4. ASSUME Cardinality(S) <= 2, S # {}
      PROVE  (\E x : S = {x}) \/ \E x, y : x # y /\ S = {x, y}
  <2>1. Cardinality(S) = 1 \/ Cardinality(S) = 2
    BY <1>1, <1>4
  <2>2. CASE Cardinality(S) = 1
    BY <1>1, <2>2
  <2>3. CASE Cardinality(S) = 2
    BY <1>3, <2>3
  <2>4. QED BY <2>1, <2>2, <2>3
<1>5. QED BY <1>2, <1>4

\* There are finitely many public parsers.
LEMMA PublicFinite ==
  ASSUME Registered
  PROVE  IsFiniteSet(Public) /\ Public \subseteq Declared
<1> DEFINE n == Len(parsers)
           Image == {parsers[i] : i \in 1..n}
           g == [i \in 1..n |-> parsers[i]]
<1>1. n \in Nat /\ DOMAIN parsers = 1..n /\ \A i \in 1..n : parsers[i] \in Declared
  BY DEF Registered
<1>2. g \in Surjection(1..n, Image)
  BY DEF Surjection
<1>3. IsFiniteSet(1..n)
  BY <1>1, FS_Interval
<1>4. IsFiniteSet(Image)
  <2> HIDE DEF g, Image
  <2>1. QED BY <1>2, <1>3, FS_Surjection
<1>5. Public \subseteq Image
  BY <1>1 DEF Public, Range
<1>6. QED
  <2>1. IsFiniteSet(Public)
    <3> HIDE DEF Image
    <3>1. QED BY <1>4, <1>5, FS_Subset
  <2>2. QED BY <1>1, <1>5, <2>1

\* The default parser is right: the only public one.
LEMMA DefaultIsRight ==
  ASSUME Registered, Indexed, indexed, LookupParser(<<>>)
  PROVE  LookupIsRight'
<1> DEFINE found == Found(<<>>)
           claims == Public \X {"public"}
<1>1. answer' = [of |-> "name", key |-> <<>>, found |-> found] /\ parsers' = parsers
  BY DEF LookupParser
<1>2. Public' = Public
  BY <1>1 DEF Public
<1>3. SUFFICES ASSUME found.is # "no_parsers", Cardinality(claims) <= 2
      PROVE  CASE found.is = "none" -> claims = {}
               [] found.is = "several" -> \E c, d \in claims : c # d
               [] OTHER -> \E c \in claims : claims = {c} /\ c[1] = found.parser
  <2>1. answer'.of = "name" /\ answer'.key = <<>> /\ answer'.found = found
    BY <1>1
  <2> HIDE DEF found
  <2>2. QED BY <1>2, <2>1 DEF LookupIsRight
<1>4. Public # {} /\ found = IF default = NoParser THEN Error("several") ELSE Value(default)
  BY <1>3 DEF Found, Error
<1>5. default = DefaultOf[Len(parsers)]
  BY DEF Indexed
<1>6. IsFiniteSet(claims)
  <2>1. IsFiniteSet({"public"})
    BY FS_Singleton
  <2>2. QED BY <2>1, PublicFinite, FS_Product
<1>7. claims # {}
  <2>1. PICK p \in Public : TRUE
    BY <1>4
  <2>2. <<p, "public">> \in claims
    OBVIOUS
  <2>3. QED BY <2>2
<1>8. CASE \E x : claims = {x}
  <2>1. PICK x : claims = {x}
    BY <1>8
  <2>2. Public = {x[1]} /\ x \in claims
    <3>1. x \in claims /\ \A p \in Public : <<p, "public">> \in {x}
      BY <2>1
    <3>2. x[1] \in Public /\ \A p \in Public : p = x[1]
      BY <3>1
    <3>3. QED BY <3>1, <3>2
  <2>3. default = x[1] /\ default # NoParser
    BY <1>4, <1>5, <2>2, DefaultRight
  <2>4. found.is = "parser" /\ found.parser = x[1]
    BY <1>4, <2>3 DEF Value
  <2> HIDE DEF found, claims
  <2>5. QED BY <2>1, <2>2, <2>4
<1>9. CASE \E x, y : x # y /\ claims = {x, y}
  <2>1. PICK x, y : x # y /\ claims = {x, y}
    BY <1>9
  <2>2. x \in claims /\ y \in claims
    BY <2>1
  <2>3. x = <<x[1], "public">> /\ y = <<y[1], "public">> /\ x[1] \in Public /\ y[1] \in Public
    BY <2>2
  <2>4. Public = {x[1], y[1]} /\ x[1] # y[1]
    <3>1. \A p \in Public : <<p, "public">> \in {x, y}
      BY <2>1
    <3>2. \A p \in Public : p = x[1] \/ p = y[1]
      BY <3>1
    <3>3. QED BY <2>1, <2>3, <3>2
  <2>5. default = NoParser
    BY <1>4, <1>5, <2>4, DefaultRight
  <2>6. found.is = "several"
    BY <1>4, <2>5 DEF Error
  <2> HIDE DEF found, claims
  <2>7. QED BY <2>1, <2>2, <2>6
<1>10. QED
  <2> HIDE DEF claims
  <2>1. QED BY <1>3, <1>6, <1>7, <1>8, <1>9, SmallSets

\* A parser with a name is right: the only one that claims it.
LEMMA NameIsRight ==
  ASSUME Registered, Indexed, indexed, NEW name \in Names, name # <<>>, LookupParser(name)
  PROVE  LookupIsRight'
<1> DEFINE found == Found(name)
           E == Entries(byName, name)
           claims == UNION {{p} \X Claims(p, name) : p \in Range(parsers)}
           Made(i, c) == [key |-> name, parser |-> parsers[i], from |-> <<i, c>>]
<1>1. answer' = [of |-> "name", key |-> name, found |-> found] /\ parsers' = parsers
  BY DEF LookupParser
<1>2. Public' = Public
  BY <1>1 DEF Public
<1>3. SUFFICES ASSUME found.is # "no_parsers"
      PROVE  CASE found.is = "none" -> claims = {}
               [] found.is = "several" -> \E c, d \in claims : c # d
               [] OTHER -> \E c \in claims : claims = {c} /\ c[1] = found.parser
  <2>1. answer'.of = "name" /\ answer'.key = name /\ answer'.found = found
    BY <1>1
  <2>2. claims = UNION {{p} \X Claims(p, name) : p \in Range(parsers')}
    BY <1>1
  <2> HIDE DEF found, claims
  <2>3. QED BY <2>1, <2>2 DEF LookupIsRight
<1>4. found = IF E = {} THEN Error("none")
              ELSE IF Cardinality(E) > 1 THEN Error("several")
              ELSE Value((CHOOSE e \in E : TRUE).parser)
  BY <1>3 DEF Found, Error
<1>5. /\ \A i \in DOMAIN parsers : parsers[i] \in Declared
      /\ \A i, j \in DOMAIN parsers : parsers[i] = parsers[j] => i = j
  BY DEF Registered, Distinct
<1>6. \A e \in E : \E i \in DOMAIN parsers : \E key \in NamesOf(parsers[i]) : e = Entry(i, key) /\ key[1] = name
  <2>1. \A e \in E : e.key = name /\ \E i \in DOMAIN parsers : \E key \in NamesOf(parsers[i]) : e = Entry(i, key)
    BY DEF Entries, Indexed
  <2>2. QED BY <2>1 DEF Entry
<1>7. ASSUME NEW e \in E
      PROVE  \E i \in DOMAIN parsers : \E c \in Claims(parsers[i], name) : e = Made(i, c)
  <2>1. PICK i \in DOMAIN parsers : \E key \in NamesOf(parsers[i]) : e = Entry(i, key) /\ key[1] = name
    BY <1>6
  <2>2. PICK key \in NamesOf(parsers[i]) : e = Entry(i, key) /\ key[1] = name
    BY <2>1
  <2>3. key = <<name, key[2]>>
    BY <2>2 DEF NamesOf
  <2>4. key[2] \in Claims(parsers[i], name)
    BY <1>5, <2>2, <2>3, NamesAreClaims
  <2>5. e = Made(i, key[2])
    BY <2>2 DEF Entry
  <2> HIDE DEF Made
  <2>6. QED BY <2>4, <2>5
<1>8. ASSUME NEW i \in DOMAIN parsers, NEW c \in Claims(parsers[i], name)
      PROVE  Made(i, c) \in E
  <2>1. <<name, c>> \in NamesOf(parsers[i])
    BY <1>5, NamesAreClaims
  <2>2. Made(i, c) = Entry(i, <<name, c>>) /\ Made(i, c).key = name
    BY DEF Entry
  <2>3. Made(i, c) \in byName
    <3>1. Entry(i, <<name, c>>) \in {Entry(i, key) : key \in NamesOf(parsers[i])}
      BY <2>1
    <3>2. QED BY <2>2, <3>1 DEF Indexed
  <2> HIDE DEF Made
  <2>4. QED BY <2>2, <2>3 DEF Entries
<1>9. \A x : x \in claims <=> \E i \in DOMAIN parsers : \E c \in Claims(parsers[i], name) : x = <<parsers[i], c>>
  BY DEF Range
<1>10. IsFiniteSet(E)
  <2> HIDE DEF E
  <2>1. QED BY <1>6, FiniteEntries
<1>11. CASE E = {}
  <2>1. claims = {}
    <3> HIDE DEF claims, E
    <3>1. QED BY <1>8, <1>9, <1>11
  <2>2. found.is = "none"
    BY <1>4, <1>11 DEF Error
  <2> HIDE DEF claims, found
  <2>3. QED BY <2>1, <2>2
<1>12. CASE Cardinality(E) > 1
  <2>1. PICK e \in E, f \in E : e # f
    <3> HIDE DEF E
    <3>1. QED BY <1>10, <1>12, SmallSets
  <2>2. PICK i \in DOMAIN parsers, j \in DOMAIN parsers :
          /\ \E c \in Claims(parsers[i], name) : e = Made(i, c)
          /\ \E d \in Claims(parsers[j], name) : f = Made(j, d)
    <3> HIDE DEF E, Made
    <3>1. QED BY <1>7
  <2>3. PICK c \in Claims(parsers[i], name), d \in Claims(parsers[j], name) : e = Made(i, c) /\ f = Made(j, d)
    BY <2>2
  <2>4. <<parsers[i], c>> \in claims /\ <<parsers[j], d>> \in claims
    <3> HIDE DEF claims
    <3>1. QED BY <1>9
  <2>5. <<parsers[i], c>> # <<parsers[j], d>>
    <3>1. i # j \/ c # d
      BY <2>1, <2>3
    <3>2. QED BY <1>5, <3>1
  <2>6. found.is = "several"
    BY <1>4, <2>1, <1>12 DEF Error
  <2> HIDE DEF claims, found
  <2>7. QED BY <2>4, <2>5, <2>6
<1>13. CASE E # {} /\ ~(Cardinality(E) > 1)
  <2> DEFINE e == CHOOSE e \in E : TRUE
  <2>1. e \in E /\ \A f \in E : f = e
    <3>1. ~\E f, g \in E : f # g
      <4> HIDE DEF E
      <4>1. QED BY <1>10, <1>13, SmallSets
    <3> HIDE DEF E
    <3>2. QED BY <1>13, <3>1
  <2>2. found.is = "parser" /\ found.parser = e.parser
    BY <1>4, <1>13 DEF Value
  <2> HIDE DEF e
  <2>3. PICK i \in DOMAIN parsers : \E c \in Claims(parsers[i], name) : e = Made(i, c)
    <3> HIDE DEF E, Made
    <3>1. QED BY <1>7, <2>1
  <2>4. PICK c \in Claims(parsers[i], name) : e = Made(i, c)
    BY <2>3
  <2>5. ASSUME NEW x \in claims
        PROVE  x = <<parsers[i], c>>
    <3>1. PICK j \in DOMAIN parsers : \E d \in Claims(parsers[j], name) : x = <<parsers[j], d>>
      <4> HIDE DEF claims
      <4>1. QED BY <1>9
    <3>2. PICK d \in Claims(parsers[j], name) : x = <<parsers[j], d>>
      BY <3>1
    <3>3. Made(j, d) \in E
      BY <1>8
    <3>4. Made(j, d) = Made(i, c)
      <4> HIDE DEF E, Made
      <4>1. QED BY <2>1, <2>4, <3>3
    <3>5. j = i /\ d = c
      BY <3>4
    <3>6. QED BY <3>2, <3>5
  <2>6. <<parsers[i], c>> \in claims
    <3> HIDE DEF claims
    <3>1. QED BY <1>9
  <2>7. found.parser = <<parsers[i], c>>[1]
    BY <2>2, <2>4
  <2> HIDE DEF claims, found
  <2>8. claims = {<<parsers[i], c>>}
    BY <2>5, <2>6
  <2>9. QED BY <2>2, <2>6, <2>7, <2>8
<1>14. QED BY <1>11, <1>12, <1>13

\* Keys of different kinds differ.
LEMMA KeysDiffer ==
  ASSUME NEW a, NEW b, NEW c, NEW d
  PROVE  /\ <<>> # <<a>> /\ <<>> # <<a, b>> /\ <<a>> # <<c, d>>
         /\ <<a>> = <<c>> => a = c
         /\ <<a, b>> = <<c, d>> => a = c /\ b = d
<1>1. <<>> # <<a>> /\ <<>> # <<a, b>>
  OBVIOUS
<1>2. <<a>> # <<c, d>>
  <2>1. Len(<<a>>) = 1 /\ Len(<<c, d>>) = 2
    OBVIOUS
  <2>2. QED BY <2>1
<1>3. QED BY <1>1, <1>2

\* A pattern is for a type if it has the same key as what is looked for.
LEMMA KeysMatch ==
  ASSUME NEW pattern \in MIMEType, NEW mt \in MIMEType
  PROVE  /\ FoundFor(pattern, mt) <=>
              \/ AsKey(pattern) = AsKey(mt)
              \/ AsKey(pattern) = AsKey(<<mt[1], "*">>)
              \/ AsKey(pattern) = AsKey(<<"*", "*">>)
         /\ ~IsWildcard(mt) => /\ AsKey(mt) # AsKey(<<mt[1], "*">>)
                               /\ AsKey(mt) # AsKey(<<"*", "*">>)
                               /\ AsKey(<<mt[1], "*">>) # AsKey(<<"*", "*">>)
<1> DEFINE star == "*"
           a == pattern[1]
           b == pattern[2]
           m == mt[1]
           s == mt[2]
<1>1. pattern = <<a, b>> /\ mt = <<m, s>>
  BY DEF MIMEType
<1>2. /\ AsKey(pattern) = IF a = star THEN <<>> ELSE IF b = star THEN <<a>> ELSE <<a, b>>
      /\ AsKey(mt) = IF m = star THEN <<>> ELSE IF s = star THEN <<m>> ELSE <<m, s>>
      /\ AsKey(<<mt[1], "*">>) = IF m = star THEN <<>> ELSE <<m>>
      /\ AsKey(<<"*", "*">>) = <<>>
  BY <1>1 DEF AsKey
<1>3. FoundFor(pattern, mt) <=> a = star \/ (a = m /\ (b = s \/ b = star))
  BY DEF FoundFor
<1>4. IsWildcard(mt) <=> m = star \/ s = star
  BY DEF IsWildcard
<1> HIDE DEF a, b, m, s, star
<1> DEFINE none == <<>>
           ka == <<a>>
           kab == <<a, b>>
           km == <<m>>
           kms == <<m, s>>
<1>5. /\ none # ka /\ none # kab /\ none # km /\ none # kms
      /\ ka # kms /\ km # kab /\ km # kms
      /\ ka = km => a = m
      /\ kab = kms => a = m /\ b = s
  BY KeysDiffer
<1>6. (a = m => ka = km) /\ (a = m /\ b = s => kab = kms)
  OBVIOUS
<1>7. /\ AsKey(pattern) = IF a = star THEN none ELSE IF b = star THEN ka ELSE kab
      /\ AsKey(mt) = IF m = star THEN none ELSE IF s = star THEN km ELSE kms
      /\ AsKey(<<mt[1], "*">>) = IF m = star THEN none ELSE km
      /\ AsKey(<<"*", "*">>) = none
  BY <1>2
<1> DEFINE k1 == AsKey(mt)
           k2 == AsKey(<<mt[1], "*">>)
           k3 == AsKey(<<"*", "*">>)
           k == AsKey(pattern)
<1> SUFFICES /\ FoundFor(pattern, mt) <=> k = k1 \/ k = k2 \/ k = k3
             /\ ~IsWildcard(mt) => k1 # k2 /\ k1 # k3 /\ k2 # k3
  OBVIOUS
<1> HIDE DEF none, ka, kab, km, kms, k1, k2, k3, k
<1>8. /\ k = IF a = star THEN none ELSE IF b = star THEN ka ELSE kab
      /\ k1 = IF m = star THEN none ELSE IF s = star THEN km ELSE kms
      /\ k2 = IF m = star THEN none ELSE km
      /\ k3 = none
  BY <1>7 DEF k, k1, k2, k3
<1>9. CASE a = star
  BY <1>3, <1>4, <1>5, <1>6, <1>8, <1>9
<1>10. CASE a # star /\ b = star
  BY <1>3, <1>4, <1>5, <1>6, <1>8, <1>10
<1>11. CASE a # star /\ b # star
  BY <1>3, <1>4, <1>5, <1>6, <1>8, <1>11
<1>12. QED BY <1>9, <1>10, <1>11

\* The sink is connected to what its type asks for.
LEMMA ConnectsRight ==
  ASSUME Registered, Indexed, indexed, NEW mt \in Queries, NEW scope, ConnectMimeType(mt, scope)
  PROVE  ConnectsByKey'
<1> DEFINE found == Connected(mt, scope)
           types(p) == Declares[p].mime_types
           patterns(p) == {i \in DOMAIN types(p) : FoundFor(types(p)[i], mt)}
           visible == {p \in Range(parsers) : Visible(p, scope)}
           of(p) == {c \in found : c.parser = p}
           asked == <<mt, <<mt[1], "*">>, <<"*", "*">>>>
           Made(n, i, t) == [asked |-> n, parser |-> parsers[i], from |-> <<i, <<"type", t>>>>]
<1>1. answer' = [of |-> "type", key |-> mt, scope |-> scope, found |-> found] /\ parsers' = parsers
  BY DEF ConnectMimeType
<1>2. SUFFICES /\ {c.parser : c \in found} = {p \in visible : patterns(p) # {}}
               /\ ~IsWildcard(mt) => \A p \in visible : Cardinality(of(p)) = Cardinality(patterns(p))
  <2>1. answer'.of = "type" /\ answer'.key = mt /\ answer'.scope = scope /\ answer'.found = found
    BY <1>1
  <2>2. visible = {p \in Range(parsers') : Visible(p, scope)}
    BY <1>1
  <2> HIDE DEF found, visible
  <2>3. QED BY <2>1, <2>2 DEF ConnectsByKey, ConnectedByKey
<1>3. /\ \A i \in DOMAIN parsers : parsers[i] \in Declared /\ parsers[i] \in Range(parsers)
      /\ \A i, j \in DOMAIN parsers : parsers[i] = parsers[j] => i = j
      /\ \A p \in Range(parsers) : \E i \in DOMAIN parsers : p = parsers[i]
  BY DEF Registered, Distinct, Range
<1>4. mt \in MIMEType /\ \A p \in Declared : \A t \in DOMAIN types(p) : types(p)[t] \in MIMEType
  BY StartupAssumption DEF DeclaresAssumption
<1>5. ASSUME NEW n \in 1..3, NEW i \in DOMAIN parsers, NEW t \in DOMAIN types(parsers[i]),
             AsKey(types(parsers[i])[t]) = AsKey(asked[n]), parsers[i] \in visible
      PROVE  Made(n, i, t) \in found
  <2> DEFINE key == <<AsKey(types(parsers[i])[t]), <<"type", t>>>>
             e == Entry(i, key)
  <2>1. key \in MimeKeysOf(parsers[i])
    BY DEF MimeKeysOf
  <2>2. e \in byMimeType
    <3> HIDE DEF key
    <3>1. e \in {Entry(i, k) : k \in MimeKeysOf(parsers[i])}
      BY <2>1
    <3>2. QED BY <3>1 DEF Indexed
  <2>3. e.key = AsKey(asked[n]) /\ e.parser = parsers[i] /\ e.from = <<i, <<"type", t>>>>
    BY <1>5 DEF Entry
  <2>4. Visible(e.parser, scope)
    BY <1>5, <2>3
  <2> HIDE DEF e, asked
  <2>5. e \in {f \in Entries(byMimeType, AsKey(asked[n])) : Visible(f.parser, scope)}
    BY <2>2, <2>3, <2>4 DEF Entries
  <2>6. [asked |-> n, parser |-> e.parser, from |-> e.from] = Made(n, i, t)
    BY <2>3
  <2>7. [asked |-> n, parser |-> e.parser, from |-> e.from] \in found
    <3> DEFINE There(k) == {f \in Entries(byMimeType, AsKey(asked[k])) : Visible(f.parser, scope)}
               Instances(k) == {[asked |-> k, parser |-> f.parser, from |-> f.from] : f \in There(k)}
    <3>1. found = UNION {Instances(k) : k \in 1..3}
      BY DEF Connected, asked
    <3>2. [asked |-> n, parser |-> e.parser, from |-> e.from] \in Instances(n)
      BY <2>5
    <3> HIDE DEF Instances, found
    <3>3. QED BY <3>1, <3>2
  <2>8. QED BY <2>6, <2>7
<1>6. ASSUME NEW c \in found
      PROVE  \E n \in 1..3, i \in DOMAIN parsers : \E t \in DOMAIN types(parsers[i]) :
               /\ c = Made(n, i, t) /\ parsers[i] \in visible
               /\ AsKey(types(parsers[i])[t]) = AsKey(asked[n])
  <2>1. PICK n \in 1..3 : \E e \in Entries(byMimeType, AsKey(asked[n])) :
          Visible(e.parser, scope) /\ c = [asked |-> n, parser |-> e.parser, from |-> e.from]
    BY DEF Connected
  <2>2. PICK e \in Entries(byMimeType, AsKey(asked[n])) :
          Visible(e.parser, scope) /\ c = [asked |-> n, parser |-> e.parser, from |-> e.from]
    BY <2>1
  <2>3. e \in byMimeType /\ e.key = AsKey(asked[n])
    BY DEF Entries
  <2>4. PICK i \in DOMAIN parsers : \E key \in MimeKeysOf(parsers[i]) : e = Entry(i, key)
    BY <2>3 DEF Indexed
  <2>5. PICK key \in MimeKeysOf(parsers[i]) : e = Entry(i, key)
    BY <2>4
  <2>6. PICK t \in DOMAIN types(parsers[i]) : key = <<AsKey(types(parsers[i])[t]), <<"type", t>>>>
    BY <2>5 DEF MimeKeysOf
  <2>7. e.key = AsKey(types(parsers[i])[t]) /\ e.parser = parsers[i] /\ e.from = <<i, <<"type", t>>>>
    BY <2>5, <2>6 DEF Entry
  <2>8. c = Made(n, i, t)
    BY <2>2, <2>7
  <2>9. parsers[i] \in visible
    BY <1>3, <2>2, <2>7
  <2>10. AsKey(types(parsers[i])[t]) = AsKey(asked[n])
    BY <2>3, <2>7
  <2> HIDE DEF Made, visible, asked, types
  <2>11. QED BY <2>8, <2>9, <2>10
<1>7. ASSUME NEW p \in Declared, NEW t \in DOMAIN types(p)
      PROVE  /\ t \in patterns(p) <=> \E n \in 1..3 : AsKey(types(p)[t]) = AsKey(asked[n])
             /\ ~IsWildcard(mt) =>
                  \A n, k \in 1..3 : AsKey(types(p)[t]) = AsKey(asked[n]) /\ AsKey(types(p)[t]) = AsKey(asked[k]) => n = k
  <2>1. types(p)[t] \in MIMEType
    BY <1>4
  <2>2. asked[1] = mt /\ asked[2] = <<mt[1], "*">> /\ asked[3] = <<"*", "*">>
    OBVIOUS
  <2> HIDE DEF asked
  <2>3. /\ FoundFor(types(p)[t], mt) <=> \/ AsKey(types(p)[t]) = AsKey(asked[1])
                                        \/ AsKey(types(p)[t]) = AsKey(asked[2])
                                        \/ AsKey(types(p)[t]) = AsKey(asked[3])
        /\ ~IsWildcard(mt) => /\ AsKey(asked[1]) # AsKey(asked[2])
                              /\ AsKey(asked[1]) # AsKey(asked[3])
                              /\ AsKey(asked[2]) # AsKey(asked[3])
    <3> HIDE DEF types
    <3>1. QED BY <1>4, <2>1, <2>2, KeysMatch
  <2>4. \A n : n \in 1..3 <=> n = 1 \/ n = 2 \/ n = 3
    OBVIOUS
  <2>5. t \in patterns(p) <=> FoundFor(types(p)[t], mt)
    OBVIOUS
  <2> HIDE DEF types, patterns
  <2>6. QED BY <2>3, <2>4, <2>5
<1> HIDE DEF found, types, asked, visible
<1>8. ASSUME NEW c \in found
      PROVE  c.parser \in visible /\ patterns(c.parser) # {}
  <2>1. PICK n \in 1..3, i \in DOMAIN parsers : \E t \in DOMAIN types(parsers[i]) :
               /\ c = Made(n, i, t) /\ parsers[i] \in visible
               /\ AsKey(types(parsers[i])[t]) = AsKey(asked[n])
    <3> HIDE DEF Made
    <3>1. QED BY <1>6
  <2>2. PICK t \in DOMAIN types(parsers[i]) :
               /\ c = Made(n, i, t) /\ parsers[i] \in visible
               /\ AsKey(types(parsers[i])[t]) = AsKey(asked[n])
    BY <2>1
  <2>3. t \in patterns(parsers[i])
    <3> HIDE DEF patterns
    <3>1. QED BY <1>3, <1>7, <2>2
  <2>4. c.parser = parsers[i]
    BY <2>2
  <2> HIDE DEF patterns
  <2>5. QED BY <2>2, <2>3, <2>4
<1>9. ASSUME NEW p \in visible, NEW t \in patterns(p)
      PROVE  \E c \in found : c.parser = p
  <2>1. PICK i \in DOMAIN parsers : p = parsers[i]
    BY <1>3 DEF visible
  <2>2. t \in DOMAIN types(p) /\ p \in Declared
    BY <1>3, <2>1
  <2>3. PICK n \in 1..3 : AsKey(types(p)[t]) = AsKey(asked[n])
    <3> HIDE DEF patterns
    <3>1. QED BY <1>7, <2>2
  <2>4. Made(n, i, t) \in found
    <3> HIDE DEF Made
    <3>1. QED BY <1>5, <2>1, <2>2, <2>3
  <2>5. Made(n, i, t).parser = p
    BY <2>1
  <2> HIDE DEF Made
  <2>6. QED BY <2>4, <2>5
<1>10. {c.parser : c \in found} = {p \in visible : patterns(p) # {}}
  <2> HIDE DEF patterns
  <2>1. \A p : p \in {c.parser : c \in found} <=> p \in visible /\ patterns(p) # {}
    BY <1>8, <1>9
  <2>2. QED BY <2>1
<1>11. ASSUME ~IsWildcard(mt), NEW p \in visible
       PROVE  Cardinality(of(p)) = Cardinality(patterns(p))
  <2>1. PICK i \in DOMAIN parsers : p = parsers[i]
    BY <1>3 DEF visible
  <2>2. p \in Declared /\ \A t \in patterns(p) : t \in DOMAIN types(p)
    BY <1>3, <2>1
  <2> DEFINE Asked(t) == CHOOSE n \in 1..3 : AsKey(types(p)[t]) = AsKey(asked[n])
             g == [t \in patterns(p) |-> Made(Asked(t), i, t)]
  <2>3. ASSUME NEW t \in patterns(p)
        PROVE  Asked(t) \in 1..3 /\ AsKey(types(p)[t]) = AsKey(asked[Asked(t)])
    <3>1. \E n \in 1..3 : AsKey(types(p)[t]) = AsKey(asked[n])
      <4> HIDE DEF patterns
      <4>1. QED BY <1>7, <2>2
    <3>2. QED BY <3>1
  <2>4. ASSUME NEW t \in patterns(p)
        PROVE  g[t] \in of(p)
    <3>1. Made(Asked(t), i, t) \in found
      <4> HIDE DEF Made, Asked, patterns
      <4>1. QED BY <1>5, <2>1, <2>2, <2>3
    <3>2. Made(Asked(t), i, t).parser = p /\ g[t] = Made(Asked(t), i, t)
      BY <2>1
    <3> HIDE DEF Made, g
    <3>3. QED BY <3>1, <3>2
  <2>5. ASSUME NEW t \in patterns(p), NEW u \in patterns(p), g[t] = g[u]
        PROVE  t = u
    <3>1. g[t].from = <<i, <<"type", t>>>> /\ g[u].from = <<i, <<"type", u>>>>
      <4> HIDE DEF Asked, patterns
      <4>1. QED OBVIOUS
    <3> HIDE DEF g
    <3>2. QED BY <2>5, <3>1
  <2>6. ASSUME NEW c \in of(p)
        PROVE  \E t \in patterns(p) : g[t] = c
    <3>1. c \in found /\ c.parser = p
      OBVIOUS
    <3>2. PICK n \in 1..3, j \in DOMAIN parsers : \E t \in DOMAIN types(parsers[j]) :
               /\ c = Made(n, j, t) /\ parsers[j] \in visible
               /\ AsKey(types(parsers[j])[t]) = AsKey(asked[n])
      <4> HIDE DEF Made
      <4>1. QED BY <1>6, <3>1
    <3>3. PICK t \in DOMAIN types(parsers[j]) :
               /\ c = Made(n, j, t) /\ parsers[j] \in visible
               /\ AsKey(types(parsers[j])[t]) = AsKey(asked[n])
      BY <3>2
    <3>4. j = i /\ t \in DOMAIN types(p)
      BY <1>3, <2>1, <3>1, <3>3
    <3>5. t \in patterns(p)
      <4> HIDE DEF patterns, Made
      <4>1. QED BY <1>7, <2>1, <2>2, <3>3, <3>4
    <3>6. Asked(t) = n
      <4> HIDE DEF patterns, Made, Asked
      <4>1. QED BY <1>7, <1>11, <2>1, <2>2, <2>3, <3>3, <3>4, <3>5
    <3>7. g[t] = Made(n, i, t)
      BY <3>5, <3>6
    <3> HIDE DEF g, Made
    <3>8. QED BY <3>3, <3>4, <3>5, <3>7
  <2>7. IsFiniteSet(patterns(p))
    <3>1. DOMAIN types(p) = 1 .. Len(types(p)) /\ Len(types(p)) \in Nat
      BY <2>2, StartupAssumption DEF DeclaresAssumption, types
    <3>2. IsFiniteSet(DOMAIN types(p))
      BY <3>1, FS_Interval
    <3>3. patterns(p) \subseteq DOMAIN types(p)
      BY <2>2
    <3> HIDE DEF patterns
    <3>4. QED BY <3>2, <3>3, FS_Subset
  <2>8. DOMAIN g = patterns(p)
    OBVIOUS
  <2>9. g \in Bijection(patterns(p), of(p))
    <3>1. g = [t \in patterns(p) |-> g[t]]
      OBVIOUS
    <3> HIDE DEF g, of, patterns
    <3>2. g \in Injection(patterns(p), of(p))
      BY <2>4, <2>5, <2>8, <3>1 DEF Injection, IsInjective
    <3>3. g \in Surjection(patterns(p), of(p))
      BY <2>4, <2>6, <3>1 DEF Surjection
    <3>4. QED BY <3>2, <3>3 DEF Bijection
  <2> HIDE DEF g, of, patterns
  <2>10. QED BY <2>7, <2>9, FS_Bijection DEF ExistsBijection
<1>12. QED BY <1>2, <1>10, <1>11

\* Indices and answers depend on little else than the parsers.
LEMMA IndexKept ==
  ASSUME Indexed, UNCHANGED <<running, parsers, byName, byMimeType, default, indexed, answer>>
  PROVE  Indexed'
  BY DEF Indexed, Entry, DefaultOf

\* What was answered stays right as long as the parsers are the same.
LEMMA AnswersKept ==
  ASSUME LookupIsRight, ConnectsByKey, UNCHANGED <<parsers, answer>>
  PROVE  LookupIsRight' /\ ConnectsByKey'
<1>1. LookupIsRight'
  BY DEF LookupIsRight, Public
<1>2. ConnectsByKey'
  BY DEF ConnectsByKey
<1>3. QED BY <1>1, <1>2

\* There is nothing wrong with what has not been asked.
LEMMA NoAnswerIsRight ==
  ASSUME answer' = NoAnswer
  PROVE  LookupIsRight' /\ ConnectsByKey'
<1>1. answer'.of = "nothing"
  BY DEF NoAnswer
<1>2. QED BY <1>1 DEF LookupIsRight, ConnectsByKey

\* In the beginning, nothing has been loaded.
LEMMA StartupInit_IInv == StartupInit => StartupIInv
<1> SUFFICES ASSUME StartupInit PROVE StartupIInv
  OBVIOUS
<1>1. Registered
  <2>1. modules = <<>> /\ parsers = <<>>
    BY DEF StartupInit
  <2>2. <<>> \in Seq(Module) /\ <<>> \in Seq(Declared) /\ DOMAIN <<>> = {}
    OBVIOUS
  <2>3. QED BY <2>1, <2>2 DEF Registered, Distinct
<1>2. UsersKnown /\ GlobalsComeFirst
  BY DEF StartupInit, UsersKnown, GlobalsComeFirst, ReadsLinkedLater
<1>3. Indexed
  BY DEF StartupInit, Indexed
<1>4. LookupIsRight /\ ConnectsByKey
  <2>1. answer.of = "nothing"
    BY DEF StartupInit, NoAnswer
  <2>2. QED BY <2>1 DEF LookupIsRight, ConnectsByKey
<1>5. QED BY <1>1, <1>2, <1>3, <1>4 DEF StartupIInv, AnswersAreRight

\* Libraries that are loaded add modules at the end.
LEMMA LoadLibrary_IInv ==
  ASSUME StartupIInv, NEW l \in Library, LoadLibrary(l)
  PROVE  StartupIInv'
<1> USE DEF StartupIInv
<1> DEFINE N == NewModules(l)
<1>1. PICK order \in SetToSeqs(N) : modules' = modules \o order
  BY DEF LoadLibrary
<1>2. /\ UNCHANGED <<set, running, parsers, byName, byMimeType, default, indexed, answer, unset>>
      /\ modules \in Seq(Module) /\ Distinct(modules)
  BY DEF LoadLibrary, Registered
<1>3. N \subseteq Module /\ \A i \in DOMAIN modules : modules[i] \notin N
  BY DEF NewModules, Module, Range
<1>4. order \in Seq(Module) /\ Distinct(order) /\ \A j \in DOMAIN order : order[j] \in N
  <2>1. IsFiniteSet(N)
    BY StartupAssumption, FS_Difference DEF LibrariesAssumption, NewModules
  <2>2. Cardinality(N) \in Nat
    BY <2>1, FS_CardinalityType
  <2>3. order \in [1 .. Cardinality(N) -> N] /\ \A i, j \in 1 .. Cardinality(N) : i # j => order[i] # order[j]
    BY DEF SetToSeqs
  <2> HIDE DEF N
  <2>4. order \in Seq(Module) /\ DOMAIN order = 1 .. Cardinality(N)
    BY <1>3, <2>2, <2>3
  <2>5. QED BY <2>3, <2>4 DEF Distinct
<1>5. \A i \in DOMAIN modules, j \in DOMAIN order : modules[i] # order[j]
  BY <1>3, <1>4
<1>6. /\ modules' \in Seq(Module) /\ Distinct(modules') /\ Len(modules') = Len(modules) + Len(order)
      /\ \A i \in 1 .. Len(modules) : modules'[i] = modules[i]
  <2> HIDE DEF N
  <2>1. QED BY <1>1, <1>2, <1>4, <1>5, Joined
<1>7. DOMAIN modules = 1 .. Len(modules) /\ DOMAIN modules' = 1 .. Len(modules')
      /\ Len(modules) \in Nat /\ Len(order) \in Nat
  BY <1>2, <1>4, <1>6
<1>8. DOMAIN modules \subseteq DOMAIN modules' /\ \A i \in DOMAIN modules : modules'[i] = modules[i]
  BY <1>6, <1>7
<1>9. Registered'
  BY <1>2, <1>6 DEF Registered, Distinct
<1>10. UsersKnown'
  BY <1>2, <1>8 DEF UsersKnown
<1>11. GlobalsComeFirst'
  <2> SUFFICES ASSUME NEW u \in unset, NEW i \in DOMAIN modules', NEW j \in DOMAIN modules',
                      u[2] = modules'[i], u[3] = modules'[j]
               PROVE  u[1] = "globals" /\ i < j
    <3>1. \A u \in unset : u[1] = "globals"
      BY DEF AnswersAreRight, GlobalsComeFirst, ReadsLinkedLater
    <3>2. QED BY <1>2, <3>1 DEF GlobalsComeFirst, ReadsLinkedLater
  <2>1. PICK k \in DOMAIN modules : u[2] = modules[k]
    BY DEF UsersKnown
  <2>2. i = k
    BY <1>6, <1>8, <2>1 DEF Distinct
  <2>3. CASE j \in DOMAIN modules
    BY <1>8, <2>1, <2>2, <2>3 DEF AnswersAreRight, GlobalsComeFirst, ReadsLinkedLater
  <2>4. CASE j \notin DOMAIN modules
    <3>1. i < j
      BY <1>7, <2>2, <2>4
    <3>2. QED BY <3>1 DEF AnswersAreRight, GlobalsComeFirst, ReadsLinkedLater
  <2>5. QED BY <2>3, <2>4
<1>12. Indexed'
  BY <1>2, IndexKept
<1>13. LookupIsRight' /\ ConnectsByKey'
  BY <1>2, AnswersKept DEF AnswersAreRight
<1>14. QED BY <1>9, <1>10, <1>11, <1>12, <1>13 DEF AnswersAreRight

\* Initialising the modules registers parsers once, and a global that is used too
\* early belongs to a module that comes later.
LEMMA InitHilti_IInv ==
  ASSUME StartupIInv, NEW step \in {"end", "globals", "code"}, NEW at, NEW done, InitHilti(step, at, done),
         step # "end" => at \in DOMAIN modules,
         step = "code" => done \in 0 .. Len(Registers[modules[at]])
  PROVE  StartupIInv'
<1> USE DEF StartupIInv
<1>1. /\ running = "no" /\ running' \in {"yes", "failed"}
      /\ UNCHANGED <<opened, modules, byName, byMimeType, default, indexed, answer>>
  BY DEF InitHilti
<1>2. /\ modules \in Seq(Module) /\ Distinct(modules) /\ parsers = <<>> /\ ~indexed /\ answer = NoAnswer
  BY <1>1 DEF Registered, Indexed
<1>3. DOMAIN modules = 1 .. Len(modules) /\ Len(modules) \in Nat
  BY <1>2
<1>4. parsers' \in Seq(Declared) /\ Distinct(parsers')
  BY <1>2, InitRegisters
<1>5. Registered'
  BY <1>1, <1>2, <1>4 DEF Registered, Distinct
<1>6. ASSUME NEW u \in unset', u \notin unset
      PROVE  \E i \in DOMAIN modules : u[1] = "globals" /\ u[2] = modules[i] /\ u[3] \notin First(i)
  <2> DEFINE globals == IF step = "globals" THEN at ELSE Len(modules)
             code == IF step = "globals" THEN 0 ELSE IF step = "code" THEN at ELSE Len(modules)
             G(i) == {<<"globals", modules[i], n>> : n \in Reads[modules[i]] \ First(i)}
             C(i) == {<<"code", modules[i], n>> : n \in Range(modules) \ SetForCodeOf(i)}
  <2>1. globals \in 0 .. Len(modules)
    BY <1>3
  <2>2. unset' = unset \cup (UNION {G(i) : i \in 1 .. globals}) \cup (UNION {C(i) : i \in 1 .. code})
    BY DEF InitHilti
  <2>3. \A i : C(i) = {}
    <3>1. Range(modules) = First(Len(modules))
      BY <1>3 DEF Range, First
    <3>2. QED BY <3>1 DEF SetForCodeOf
  <2>4. PICK i \in 1 .. globals : u \in G(i)
    <3> HIDE DEF G, C, globals, code
    <3>1. QED BY <1>6, <2>2, <2>3
  <2>5. u[1] = "globals" /\ u[2] = modules[i] /\ u[3] \notin First(i)
    BY <2>4
  <2>6. i \in DOMAIN modules
    BY <1>3, <2>1
  <2>7. QED BY <2>5, <2>6
<1>7. UsersKnown'
  BY <1>1, <1>6 DEF UsersKnown
<1>8. GlobalsComeFirst'
  <2> SUFFICES ASSUME NEW u \in unset'
               PROVE  u[1] = "globals" /\ \A i, j \in DOMAIN modules : u[2] = modules[i] /\ u[3] = modules[j] => i < j
    BY <1>1 DEF GlobalsComeFirst, ReadsLinkedLater
  <2>1. CASE u \in unset
    BY <2>1 DEF AnswersAreRight, GlobalsComeFirst, ReadsLinkedLater
  <2>2. CASE u \notin unset
    <3>1. PICK k \in DOMAIN modules : u[1] = "globals" /\ u[2] = modules[k] /\ u[3] \notin First(k)
      BY <1>6, <2>2
    <3>2. ASSUME NEW i \in DOMAIN modules, NEW j \in DOMAIN modules, u[2] = modules[i], u[3] = modules[j]
          PROVE  i < j
      <4>1. i = k
        BY <1>2, <3>1, <3>2 DEF Distinct
      <4>2. j \notin 1..k
        BY <3>1, <3>2 DEF First
      <4>3. QED BY <1>3, <4>1, <4>2
    <3>3. QED BY <3>1, <3>2
  <2>3. QED BY <2>1, <2>2
<1>9. Indexed'
  BY <1>1, <1>2 DEF Indexed
<1>10. LookupIsRight' /\ ConnectsByKey'
  BY <1>1, <1>2, NoAnswerIsRight
<1>11. QED BY <1>5, <1>7, <1>8, <1>9, <1>10 DEF AnswersAreRight

\* Every step of loading, initialising, looking up and shutting down keeps the invariant.
LEMMA StartupStep == StartupIInv /\ [StartupNext]_startup => StartupIInv'
<1> SUFFICES ASSUME StartupIInv, [StartupNext]_startup PROVE StartupIInv'
  OBVIOUS
<1> USE DEF StartupIInv
<1>1. ASSUME NEW l \in Library, LoadLibrary(l) PROVE StartupIInv'
  BY <1>1, LoadLibrary_IInv
<1>2. CASE InitHilti("end", 0, 0)
  BY <1>2, InitHilti_IInv
<1>3. ASSUME NEW at \in DOMAIN modules, InitHilti("globals", at, 0) PROVE StartupIInv'
  BY <1>3, InitHilti_IInv
<1>4. ASSUME NEW at \in DOMAIN modules, NEW done \in 0 .. Len(Registers[modules[at]]), InitHilti("code", at, done)
      PROVE  StartupIInv'
  BY <1>4, InitHilti_IInv
<1>5. CASE DoneHilti
  <2>1. /\ running' = "no" /\ modules' = <<>> /\ unset' = {} /\ parsers = <<>> /\ ~indexed
        /\ UNCHANGED <<opened, parsers, byName, byMimeType, default, indexed, answer>>
    BY <1>5 DEF DoneHilti
  <2>2. Registered'
    <3>1. <<>> \in Seq(Module) /\ <<>> \in Seq(Declared) /\ DOMAIN <<>> = {}
      OBVIOUS
    <3>2. QED BY <2>1, <3>1 DEF Registered, Distinct
  <2>3. UsersKnown' /\ GlobalsComeFirst'
    BY <2>1 DEF UsersKnown, GlobalsComeFirst, ReadsLinkedLater
  <2>4. Indexed'
    BY <2>1 DEF Indexed
  <2>5. LookupIsRight' /\ ConnectsByKey'
    BY <2>1, AnswersKept DEF AnswersAreRight
  <2>6. QED BY <2>2, <2>3, <2>4, <2>5 DEF AnswersAreRight
<1>6. CASE InitSpicy
  <2>1. /\ running = "yes" /\ ~indexed /\ indexed' = TRUE
        /\ UNCHANGED <<opened, modules, set, running, parsers, answer, unset>>
    BY <1>6 DEF InitSpicy
  <2>2. Registered'
    BY <2>1 DEF Registered, Distinct
  <2>3. UsersKnown' /\ GlobalsComeFirst'
    BY <2>1 DEF UsersKnown, GlobalsComeFirst, ReadsLinkedLater, AnswersAreRight
  <2>4. Indexed'
    <3>1. /\ byName' = UNION {{Entry(i, key) : key \in NamesOf(parsers[i])} : i \in DOMAIN parsers}
          /\ byMimeType' = UNION {{Entry(i, key) : key \in MimeKeysOf(parsers[i])} : i \in DOMAIN parsers}
          /\ default' = DefaultOf[Len(parsers)]
      BY <1>6 DEF InitSpicy
    <3>2. QED BY <2>1, <3>1 DEF Indexed, Entry, DefaultOf
  <2>5. LookupIsRight' /\ ConnectsByKey'
    BY <2>1, AnswersKept DEF AnswersAreRight
  <2>6. QED BY <2>2, <2>3, <2>4, <2>5 DEF AnswersAreRight
<1>7. CASE DoneSpicy
  <2>1. /\ parsers' = <<>> /\ indexed' = FALSE /\ answer' = NoAnswer
        /\ UNCHANGED <<opened, modules, set, running, unset>>
    BY <1>7 DEF DoneSpicy
  <2>2. Registered'
    <3>1. <<>> \in Seq(Declared) /\ DOMAIN <<>> = {}
      OBVIOUS
    <3>2. QED BY <2>1, <3>1 DEF Registered, Distinct
  <2>3. UsersKnown' /\ GlobalsComeFirst'
    BY <2>1 DEF UsersKnown, GlobalsComeFirst, ReadsLinkedLater, AnswersAreRight
  <2>4. Indexed'
    BY <2>1 DEF Indexed
  <2>5. LookupIsRight' /\ ConnectsByKey'
    BY <2>1, NoAnswerIsRight
  <2>6. QED BY <2>2, <2>3, <2>4, <2>5 DEF AnswersAreRight
<1>8. ASSUME NEW name \in Names, LookupParser(name) PROVE StartupIInv'
  <2>1. /\ indexed /\ answer' = [of |-> "name", key |-> name, found |-> Found(name)]
        /\ UNCHANGED <<opened, modules, set, running, parsers, byName, byMimeType, default, indexed, unset>>
    BY <1>8 DEF LookupParser
  <2>2. Registered' /\ UsersKnown' /\ GlobalsComeFirst'
    BY <2>1 DEF Registered, Distinct, UsersKnown, GlobalsComeFirst, ReadsLinkedLater, AnswersAreRight
  <2>3. Indexed'
    BY <2>1 DEF Indexed, Entry, DefaultOf
  <2>4. LookupIsRight'
    <3>1. CASE name = <<>>
      BY <1>8, <2>1, <3>1, DefaultIsRight
    <3>2. CASE name # <<>>
      BY <1>8, <2>1, <3>2, NameIsRight
    <3>3. QED BY <3>1, <3>2
  <2>5. ConnectsByKey'
    <3>1. answer'.of = "name"
      BY <2>1
    <3>2. QED BY <3>1 DEF ConnectsByKey
  <2>6. QED BY <2>2, <2>3, <2>4, <2>5 DEF AnswersAreRight
<1>9. ASSUME NEW mt \in Queries, NEW m \in Module, ConnectMimeType(mt, ScopeOf[m]) PROVE StartupIInv'
  <2>1. /\ indexed
        /\ answer' = [of |-> "type", key |-> mt, scope |-> ScopeOf[m], found |-> Connected(mt, ScopeOf[m])]
        /\ UNCHANGED <<opened, modules, set, running, parsers, byName, byMimeType, default, indexed, unset>>
    BY <1>9 DEF ConnectMimeType
  <2>2. Registered' /\ UsersKnown' /\ GlobalsComeFirst'
    BY <2>1 DEF Registered, Distinct, UsersKnown, GlobalsComeFirst, ReadsLinkedLater, AnswersAreRight
  <2>3. Indexed'
    BY <2>1 DEF Indexed, Entry, DefaultOf
  <2>4. ConnectsByKey'
    BY <1>9, <2>1, ConnectsRight
  <2>5. LookupIsRight'
    <3>1. answer'.of = "type"
      BY <2>1
    <3>2. QED BY <3>1 DEF LookupIsRight
  <2>6. QED BY <2>2, <2>3, <2>4, <2>5 DEF AnswersAreRight
<1>10. CASE UNCHANGED startup
  <2>1. UNCHANGED <<opened, modules, set, running, parsers, byName, byMimeType, default, indexed, answer, unset>>
    BY <1>10 DEF startup
  <2>2. Registered' /\ UsersKnown' /\ GlobalsComeFirst'
    BY <2>1 DEF Registered, Distinct, UsersKnown, GlobalsComeFirst, ReadsLinkedLater, AnswersAreRight
  <2>3. Indexed'
    BY <2>1, IndexKept
  <2>4. LookupIsRight' /\ ConnectsByKey'
    BY <2>1, AnswersKept DEF AnswersAreRight
  <2>5. QED BY <2>2, <2>3, <2>4 DEF AnswersAreRight
<1> HIDE DEF StartupIInv
<1>11. QED
  BY <1>1, <1>2, <1>3, <1>4, <1>5, <1>6, <1>7, <1>8, <1>9, <1>10 DEF StartupNext

\* For types without a wildcard, the index finds the patterns that match.
LEMMA ConnectsWhatMatches == ConnectsByKey => ConnectIsRight
<1> SUFFICES ASSUME ConnectsByKey, answer.of = "type", ~IsWildcard(answer.key)
             PROVE  ConnectIsRight
  BY DEF ConnectIsRight, AsksForWildcard
<1> DEFINE patterns(p) == {i \in DOMAIN Declares[p].mime_types : Matches(Declares[p].mime_types[i], answer.key)}
           indexedFor(p) == {i \in DOMAIN Declares[p].mime_types : FoundFor(Declares[p].mime_types[i], answer.key)}
           visible == {p \in Range(parsers) : Visible(p, answer.scope)}
           of(p) == {c \in answer.found : c.parser = p}
<1>1. /\ {c.parser : c \in answer.found} \subseteq visible
      /\ \A p \in visible : Cardinality(of(p)) = Cardinality(indexedFor(p))
  BY DEF ConnectsByKey, ConnectedByKey
<1>2. ASSUME NEW p \in visible, ~AnyMainType(p)
      PROVE  indexedFor(p) = patterns(p)
  BY <1>2 DEF AnyMainType, FoundFor, Matches
<1> HIDE DEF indexedFor
<1>3. \A p \in visible : ~AnyMainType(p) => Cardinality(of(p)) = Cardinality(patterns(p))
  BY <1>1, <1>2
<1>4. QED BY <1>1, <1>3 DEF ConnectIsRight

\* For any libraries, loaded and initialised in any order, with exceptions half-way:
\* no module's code runs before all globals have values, and a global's value misses
\* another module's only if that was linked later; a host finds the only parser with
\* a name, and a sink that asks for a type without a wildcard is connected to the
\* visible parsers for it, once for each of their patterns that match.
THEOREM WhatIsDeclaredIsFound == StartupSpec => []ParsersAreFound
<1>1. StartupInit => StartupIInv
  BY StartupInit_IInv
<1>2. StartupIInv /\ [StartupNext]_startup => StartupIInv'
  BY StartupStep
<1>3. StartupIInv => ParsersAreFound
  BY ConnectsWhatMatches DEF StartupIInv, AnswersAreRight, ParsersAreFound
<1>4. QED BY <1>1, <1>2, <1>3, PTL DEF StartupSpec

=============================================================================
