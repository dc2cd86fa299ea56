--------------------------- MODULE Decode_proofs ---------------------------
(***************************************************************************)
(* Proofs about Decode for a store, chunks, pipes and batches of any size,  *)
(* any stack of decoders, and connections lost at every step.  What a      *)
(* session says comes through three queues, `out', `toClient' and `ctrl',   *)
(* to two threads of the client; the inductive invariant says where in     *)
(* them the last request and its answer are.                               *)
(***************************************************************************)
EXTENDS Decode, SequenceTheorems, FiniteSetTheorems, TLAPS

USE DEF ui, rx, server, wire, ghost, vars

-----------------------------------------------------------------------------
(* Queues.                                                                 *)

LEMMA AppendAt ==
  ASSUME NEW S, NEW s \in Seq(S), NEW x \in S
  PROVE  /\ Append(s, x) \in Seq(S) /\ Append(s, x) # << >>
         /\ DOMAIN s = 1 .. Len(s) /\ Len(s) \in Nat
         /\ DOMAIN Append(s, x) = 1 .. Len(s) + 1 /\ Len(Append(s, x)) = Len(s) + 1
         /\ \A i \in 1 .. Len(s) : Append(s, x)[i] = s[i] /\ s[i] \in S
         /\ Append(s, x)[Len(s) + 1] = x
OBVIOUS

LEMMA TailAt ==
  ASSUME NEW S, NEW s \in Seq(S), s # << >>
  PROVE  /\ Tail(s) \in Seq(S) /\ Head(s) \in S
         /\ DOMAIN s = 1 .. Len(s) /\ Len(s) \in Nat \ {0} /\ Head(s) = s[1]
         /\ DOMAIN Tail(s) = 1 .. Len(s) - 1 /\ Len(Tail(s)) = Len(s) - 1
         /\ \A i \in 1 .. Len(s) - 1 : Tail(s)[i] = s[i + 1]
         /\ \A i \in 1 .. Len(s) : s[i] \in S
OBVIOUS

LEMMA FunctionIsSeq ==
  ASSUME NEW S, NEW n \in Nat, NEW f \in [1 .. n -> S]
  PROVE  f \in Seq(S) /\ Len(f) = n
OBVIOUS

-----------------------------------------------------------------------------
(* What the operators of the session return.                               *)

LEMMA KeysFinite == IsFiniteSet(Keys)
<1>1. IsFiniteSet({RowOf[c] : c \in DOMAIN RowOf})
  <2> DEFINE f == [c \in DOMAIN RowOf |-> RowOf[c]]
  <2>1. f \in Surjection(DOMAIN RowOf, {RowOf[c] : c \in DOMAIN RowOf})
    BY DEF Surjection
  <2>2. QED BY <2>1, RowsAssumption, FS_Surjection
<1>2. IsFiniteSet(Rows)
  BY <1>1, FS_Singleton, FS_Union DEF Rows
<1>3. IsFiniteSet(0 .. MaxStacks - 1)
  BY FS_Interval, SizesAssumption
<1>4. QED BY <1>2, <1>3, FS_Product DEF Keys

LEMMA RowIsRow ==
  ASSUME NEW c PROVE Row(c) \in Rows
BY DEF Row, Rows

LEMMA ReplyFields ==
  ASSUME NEW m \in Replies
  PROVE  /\ m.type \in {"END", "ERROR", "INFO", "ANNS"} /\ m.req \in 0 .. MaxRequests
         /\ m.type # "ANNS" => m \in Notices
         /\ m.type = "ANNS" => m.key \in Keys /\ m.anns \in Seq(Annotations)
BY DEF Replies, Notices

LEMMA NoticeFields ==
  ASSUME NEW m \in Notices
  PROVE  /\ m.type \in {"END", "ERROR", "INFO"} /\ m.req \in 0 .. MaxRequests
         /\ m \in Replies
         /\ m.type = "INFO" => m.rows \subseteq Keys
BY DEF Replies, Notices

LEMMA OrderFields ==
  ASSUME NEW m \in Orders
  PROVE  /\ m.type \in {"REQ", "END", "DATA"} /\ m.req \in 0 .. MaxRequests
         /\ m.type = "DATA" => m.from \in 0 .. Total /\ m.n \in 0 .. Total
BY DEF Orders

\* A batch holds the first of the annotations of its row.
LEMMA HeldIsPrefix ==
  ASSUME NEW S, NEW v \in Seq(S)
  PROVE  /\ Held(v) \in Seq(S)
         /\ Len(Held(v)) \in 0 .. Len(v)
         /\ \A i \in 1 .. Len(Held(v)) : Held(v)[i] = v[i]
<1> DEFINE n == IF Len(v) < BatchMax THEN Len(v) ELSE BatchMax
<1>1. n \in 0 .. Len(v)
  BY SizesAssumption, LenProperties
<1>2. Held(v) = SubSeq(v, 1, n)
  BY DEF Held
<1>3. \A i \in 1 .. n : v[i] \in S
  BY <1>1, LenProperties
<1> HIDE DEF n
<1>4. QED BY <1>1, <1>2, <1>3, SubSeqProperties

\* flush_anns(): one batch for every row that has annotations, none for the rest.
LEMMA BatchesAre ==
  ASSUME NEW v \in [Keys -> Seq(Annotations)], NEW q \in Batches(v), served \in 0 .. MaxRequests
  PROVE  /\ q \in Seq(Replies)
         /\ \A i \in DOMAIN q : /\ q[i].type = "ANNS" /\ q[i].req = served
                                /\ q[i].key \in Keys /\ q[i].anns = Held(v[q[i].key])
         /\ \A i, j \in DOMAIN q : q[i].key = q[j].key => i = j
         /\ \A k \in Keys : v[k] # << >> => \E i \in DOMAIN q : q[i].key = k
<1> DEFINE S == {k \in Keys : v[k] # << >>}
<1>1. PICK ks \in InOrder(S) : q = [i \in DOMAIN ks |-> Batch(ks[i], v[ks[i]])]
  BY DEF Batches
<1>2. Cardinality(S) \in Nat
  BY KeysFinite, FS_Subset, FS_CardinalityType
<1>3. /\ ks \in [1 .. Cardinality(S) -> S] /\ DOMAIN q = DOMAIN ks
      /\ \A i \in DOMAIN ks : q[i] = Batch(ks[i], v[ks[i]]) /\ ks[i] \in Keys
  BY <1>1 DEF InOrder
<1>4. \A i \in DOMAIN ks : Batch(ks[i], v[ks[i]]) \in Replies
  <2> TAKE i \in DOMAIN ks
  <2>1. v[ks[i]] \in Seq(Annotations)
    BY <1>3
  <2>2. Held(v[ks[i]]) \in Seq(Annotations)
    BY <2>1, HeldIsPrefix
  <2>3. QED BY <1>3, <2>2 DEF Batch, Replies
<1>5. q \in [1 .. Cardinality(S) -> Replies]
  BY <1>1, <1>3, <1>4
<1>6. q \in Seq(Replies)
  BY <1>2, <1>5, FunctionIsSeq
<1>7. \A i \in DOMAIN q : /\ q[i].type = "ANNS" /\ q[i].req = served
                          /\ q[i].key = ks[i] /\ q[i].anns = Held(v[ks[i]])
  BY <1>3 DEF Batch
<1>8. \A i, j \in DOMAIN ks : ks[i] = ks[j] => i = j
  <2> SUFFICES ASSUME NEW i \in DOMAIN ks, NEW j \in DOMAIN ks, ks[i] = ks[j], i < j
               PROVE  FALSE
    BY <1>2, <1>3
  <2>1. Before(ks[i], ks[i])
    BY <1>1 DEF InOrder
  <2>2. ks[i][1] \in Int /\ ks[i][2] \in Int
    BY <1>3, RowsAssumption DEF Keys, Rows
  <2>3. QED BY <2>1, <2>2 DEF Before
<1>9. \A k \in S : \E i \in DOMAIN ks : ks[i] = k
  BY <1>1 DEF InOrder
<1>10. \A i \in DOMAIN q : q[i].key \in Keys /\ q[i].anns = Held(v[q[i].key])
  BY <1>3, <1>7
<1>11. \A i, j \in DOMAIN q : q[i].key = q[j].key => i = j
  BY <1>3, <1>7, <1>8
<1>12. ASSUME NEW k \in Keys, v[k] # << >> PROVE \E i \in DOMAIN q : q[i].key = k
  <2>1. PICK i \in DOMAIN ks : ks[i] = k
    BY <1>9, <1>12
  <2>2. i \in DOMAIN q /\ q[i].key = k
    BY <1>3, <1>7, <2>1
  <2>3. QED BY <2>2
<1>13. QED BY <1>6, <1>7, <1>10, <1>11, <1>12

\* Nothing to flush.
LEMMA NothingToFlush ==
  ASSUME NEW q \in Batches(NoAnns), served \in 0 .. MaxRequests PROVE q = << >>
<1>1. {k \in Keys : NoAnns[k] # << >>} = {}
  BY DEF NoAnns
<1>2. PICK ks \in InOrder({}) : q = [i \in DOMAIN ks |-> Batch(ks[i], NoAnns[ks[i]])]
  BY <1>1 DEF Batches
<1>3. ks \in [1 .. 0 -> {}]
  BY <1>2, FS_EmptySet DEF InOrder
<1>4. QED BY <1>2, <1>3

\* ann_cb(): what an instance makes is annotations of the session's request.
LEMMA MadeAre ==
  ASSUME NEW y \in Yields, NEW from \in 0 .. Total, served \in 0 .. MaxRequests
  PROVE  /\ Made(y, from) \in [Keys -> Seq(Annotations)]
         /\ \A k \in Keys : \A i \in DOMAIN Made(y, from)[k] : Made(y, from)[k][i].req = served
<1>1. ASSUME NEW k \in Keys
      PROVE  /\ Made(y, from)[k] \in Seq(Annotations)
             /\ \A i \in DOMAIN Made(y, from)[k] : Made(y, from)[k][i].req = served
  <2>1. PICK n \in 0 .. MaxPerFeed : y[k] \in [1 .. n -> Classes]
    BY DEF Yields
  <2>2. /\ DOMAIN Made(y, from)[k] = 1 .. n
        /\ Made(y, from)[k] = [i \in 1 .. n |-> [req |-> served, class |-> y[k][i],
                                                  at |-> from, n |-> i]]
    BY <2>1 DEF Made
  <2>3. n \in Nat /\ \A i \in 1 .. n : i \in 1 .. MaxPerFeed
    BY <2>1, SizesAssumption
  <2>4. \A i \in 1 .. n : [req |-> served, class |-> y[k][i], at |-> from, n |-> i] \in Annotations
    BY <2>1, <2>3 DEF Annotations
  <2>5. Made(y, from)[k] \in [1 .. n -> Annotations]
    BY <2>2, <2>4
  <2>6. QED BY <2>2, <2>3, <2>5, FunctionIsSeq
<1>2. QED BY <1>1 DEF Made

-----------------------------------------------------------------------------
(* Types.                                                                  *)

LEMMA InitTypes == Init => DecTypeOK
<1> SUFFICES ASSUME Init PROVE DecTypeOK
  OBVIOUS
<1>1. NoAnns \in [Keys -> Seq(Annotations)]
  BY DEF NoAnns
<1>2. UiTypes
  <2>1. pos \in 0 .. Total /\ req \in 0 .. MaxRequests /\ first \in 0 .. Total
    BY SizesAssumption DEF Init
  <2>2. redecoding \in BOOLEAN /\ decoderRows \subseteq Keys
    BY Zenon DEF Init
  <2>3. upc \in {"frame", "request", "stream"}
    BY DEF Init
  <2>4. QED BY <2>1, <2>2, <2>3 DEF UiTypes
<1>e. << >> \in Seq(Replies) /\ << >> \in Seq(Nat)
  OBVIOUS
<1>s. ServerTypes
  BY <1>1, <1>e, SizesAssumption DEF Init, ServerTypes
<1>h. GhostTypes
  BY <1>1, <1>e DEF Init, GhostTypes
<1>3. RxTypes /\ WireTypes
  BY <1>1, SizesAssumption DEF Init, RxTypes, WireTypes
<1>4. QED BY <1>2, <1>3, <1>s, <1>h DEF DecTypeOK

LEMMA NoAnnsType == NoAnns \in [Keys -> Seq(Annotations)] /\ \A k \in Keys : NoAnns[k] = << >>
BY DEF NoAnns

LEMMA UiKeepsTypes ==
  ASSUME DecTypeOK,
         Redecode \/ SendRequest \/ SendChunk \/ SendEnd \/ HandleCtrl
  PROVE  DecTypeOK'
<1>t. UiTypes /\ RxTypes /\ ServerTypes /\ WireTypes /\ GhostTypes
  BY DEF DecTypeOK
<1>1. CASE Redecode
  <2>1. UiTypes'
    BY <1>1, <1>t, SizesAssumption DEF Redecode, UiTypes
  <2>2. RxTypes'
    BY <1>1, <1>t, NoAnnsType DEF Redecode, RxTypes
  <2>3. ServerTypes' /\ WireTypes'
    BY <1>1, <1>t DEF Redecode, ServerTypes, WireTypes
  <2>4. GhostTypes'
    BY <1>1, <1>t, NoAnnsType DEF Redecode, GhostTypes
  <2>5. QED BY <2>1, <2>2, <2>3, <2>4 DEF DecTypeOK
<1>2. CASE SendRequest
  <2>1. UiTypes'
    BY <1>2, <1>t DEF SendRequest, UiTypes, GiveUp
  <2>2. RxTypes' /\ ServerTypes' /\ GhostTypes'
    BY <1>2, <1>t DEF SendRequest, RxTypes, ServerTypes, GhostTypes
  <2>3. Msg("REQ", req) \in Orders
    BY <1>t DEF Msg, Orders, UiTypes
  <2>4. toServer' \in Seq(Orders) /\ Len(toServer') <= Pipe
    BY <1>2, <1>t, <2>3, AppendAt, SizesAssumption
       DEF SendRequest, Sent, SendFails, WireTypes
  <2>5. WireTypes'
    BY <1>2, <1>t, <2>4 DEF SendRequest, WireTypes
  <2>6. QED BY <2>1, <2>2, <2>5 DEF DecTypeOK
<1>3. CASE SendChunk
  <2> DEFINE n == IF pos + Chunk > Total THEN Total - pos ELSE Chunk
  <2>0. n \in 0 .. Total /\ pos + n \in 0 .. Total
    BY <1>3, <1>t, SizesAssumption DEF SendChunk, UiTypes
  <2>a. \/ Sent(Data(req, pos, n)) /\ pos' = pos + n /\ UNCHANGED << upc, redecoding >>
        \/ SendFails /\ GiveUp
    BY <1>3 DEF SendChunk
  <2> HIDE DEF n
  <2>1. UiTypes'
    BY <1>3, <1>t, <2>0, <2>a DEF SendChunk, UiTypes, GiveUp
  <2>2. RxTypes' /\ ServerTypes' /\ GhostTypes'
    BY <1>3, <1>t DEF SendChunk, RxTypes, ServerTypes, GhostTypes
  <2>3. Data(req, pos, n) \in Orders
    BY <1>t, <2>0 DEF Data, Orders, UiTypes
  <2>4. toServer' \in Seq(Orders) /\ Len(toServer') <= Pipe
    BY <1>t, <2>a, <2>3, AppendAt, SizesAssumption DEF Sent, SendFails, WireTypes
  <2>5. WireTypes'
    BY <1>3, <1>t, <2>4 DEF SendChunk, WireTypes
  <2>6. QED BY <2>1, <2>2, <2>5 DEF DecTypeOK
<1>4. CASE SendEnd
  <2>1. UiTypes'
    BY <1>4, <1>t DEF SendEnd, UiTypes
  <2>2. RxTypes' /\ ServerTypes' /\ GhostTypes'
    BY <1>4, <1>t DEF SendEnd, RxTypes, ServerTypes, GhostTypes
  <2>3. Msg("END", req) \in Orders
    BY <1>t DEF Msg, Orders, UiTypes
  <2>4. toServer' \in Seq(Orders) /\ Len(toServer') <= Pipe
    BY <1>4, <1>t, <2>3, AppendAt, SizesAssumption DEF SendEnd, Sent, SendFails, WireTypes
  <2>5. WireTypes'
    BY <1>4, <1>t, <2>4 DEF SendEnd, WireTypes
  <2>6. QED BY <2>1, <2>2, <2>5 DEF DecTypeOK
<1>5. CASE HandleCtrl
  <2>0. Head(ctrl) \in Notices /\ Tail(ctrl) \in Seq(Notices)
    BY <1>5, <1>t, TailAt DEF HandleCtrl, RxTypes
  <2>1. decoderRows' \subseteq Keys
    BY <1>5, <1>t, <2>0, NoticeFields DEF HandleCtrl, UiTypes
  <2>2. redecoding' \in BOOLEAN
    BY <1>5, Zenon DEF HandleCtrl
  <2>3. UiTypes'
    BY <1>5, <1>t, <2>1, <2>2 DEF HandleCtrl, UiTypes
  <2>4. RxTypes' /\ ServerTypes' /\ WireTypes' /\ GhostTypes'
    BY <1>5, <1>t, <2>0 DEF HandleCtrl, RxTypes, ServerTypes, WireTypes, GhostTypes
  <2>5. QED BY <2>3, <2>4 DEF DecTypeOK
<1>6. QED BY <1>1, <1>2, <1>3, <1>4, <1>5

LEMMA RxKeepsTypes ==
  ASSUME DecTypeOK, Receive \/ ReceiveFails
  PROVE  DecTypeOK'
<1>t. UiTypes /\ RxTypes /\ ServerTypes /\ WireTypes /\ GhostTypes
  BY DEF DecTypeOK
<1>1. CASE Receive
  <2> DEFINE m == Head(toClient)
  <2>0. /\ m \in Replies /\ Tail(toClient) \in Seq(Replies)
        /\ Len(toClient) \in Nat /\ Len(Tail(toClient)) = Len(toClient) - 1
    BY <1>1, <1>t, TailAt DEF Receive, WireTypes
  <2>1. UiTypes' /\ ServerTypes' /\ GhostTypes'
    BY <1>1, <1>t DEF Receive, UiTypes, ServerTypes, GhostTypes
  <2>2. WireTypes'
    BY <1>1, <1>t, <2>0, SizesAssumption, SMTT(20) DEF Receive, WireTypes
  <2>3. CASE m.type = "ANNS"
    <3>1. /\ m.key \in Keys /\ m.anns \in Seq(Annotations)
          /\ shown' = [shown EXCEPT ![m.key] = @ \o m.anns]
          /\ ctrl' = ctrl /\ connected' = connected
      BY <1>1, <2>0, <2>3, ReplyFields DEF Receive
    <3>2. shown[m.key] \o m.anns \in Seq(Annotations)
      BY <1>t, <3>1, ConcatProperties DEF RxTypes
    <3> HIDE DEF m
    <3>3. RxTypes'
      BY <1>t, <3>1, <3>2 DEF RxTypes
    <3>4. QED BY <2>1, <2>2, <3>3 DEF DecTypeOK
  <2>4. CASE m.type # "ANNS"
    <3>1. m \in Notices /\ ctrl' = Append(ctrl, m) /\ shown' = shown /\ connected' = connected
      BY <1>1, <2>0, <2>4, ReplyFields DEF Receive
    <3> HIDE DEF m
    <3>2. RxTypes'
      BY <1>t, <3>1, AppendAt DEF RxTypes
    <3>3. QED BY <2>1, <2>2, <3>2 DEF DecTypeOK
  <2>5. QED BY <2>3, <2>4
<1>2. CASE ReceiveFails
  <2>1. << >> \in Seq(Replies) /\ Len(<< >>) = 0
    OBVIOUS
  <2>2. WireTypes'
    BY <1>2, <1>t, <2>1, SizesAssumption DEF ReceiveFails, WireTypes
  <2>3. UiTypes' /\ RxTypes' /\ ServerTypes' /\ GhostTypes'
    BY <1>2, <1>t DEF ReceiveFails, UiTypes, RxTypes, ServerTypes, GhostTypes
  <2>4. QED BY <2>2, <2>3 DEF DecTypeOK
<1>3. QED BY <1>1, <1>2

LEMMA ServerKeepsTypes ==
  ASSUME DecTypeOK,
         Reply \/ RecvRequest \/ RecvData \/ RecvEnd \/ ClientGone
  PROVE  DecTypeOK'
<1>t. UiTypes /\ RxTypes /\ ServerTypes /\ WireTypes /\ GhostTypes
  BY DEF DecTypeOK
<1>g. ASSUME NEW type, Got(type)
      PROVE  /\ Head(toServer) \in Orders /\ Tail(toServer) \in Seq(Orders)
             /\ toServer' = Tail(toServer) /\ Len(Tail(toServer)) <= Pipe
             /\ Head(toServer).type = type
  BY <1>g, <1>t, TailAt, SizesAssumption DEF Got, WireTypes
<1>1. CASE Reply
  <2>1. UiTypes' /\ RxTypes' /\ GhostTypes'
    BY <1>1, <1>t DEF Reply, UiTypes, RxTypes, GhostTypes
  <2>2. Head(out) \in Replies /\ Tail(out) \in Seq(Replies)
    BY <1>1, <1>t, TailAt DEF Reply, ServerTypes
  <2>3. ServerTypes'
    BY <1>1, <1>t, <2>2 DEF Reply, ServerTypes
  <2>4. toClient' \in Seq(Replies) /\ Len(toClient') <= Pipe
    <3>1. toClient \in Seq(Replies) /\ Len(toClient) <= Pipe
      BY <1>t DEF WireTypes
    <3>2. CASE Len(toClient) < Pipe /\ toClient' = Append(toClient, Head(out))
      <4>1. Len(toClient') = Len(toClient) + 1 /\ toClient' \in Seq(Replies) /\ Len(toClient) \in Nat
        BY <2>2, <3>1, <3>2, AppendAt
      <4>2. QED BY <3>2, <4>1, SizesAssumption
    <3>3. QED BY <1>1, <3>1, <3>2 DEF Reply
  <2>5. WireTypes'
    BY <1>1, <1>t, <2>4 DEF Reply, WireTypes
  <2>6. QED BY <2>1, <2>3, <2>5 DEF DecTypeOK
<1>2. CASE RecvRequest
  <2>1. UiTypes' /\ RxTypes' /\ GhostTypes'
    BY <1>2, <1>t DEF RecvRequest, UiTypes, RxTypes, GhostTypes
  <2>2. WireTypes'
    BY <1>2, <1>g, <1>t DEF RecvRequest, WireTypes
  <2>3. served' \in 0 .. MaxRequests
    BY <1>2, <1>g, OrderFields DEF RecvRequest
  <2>4. PICK before \in IF session = 0 THEN {<< >>} ELSE Ended :
           \/ \E n \in 0 .. MaxStacks :
                 session' = n + 1 /\ out' = Append(before, Info(n, served'))
           \/ session' = 0 /\ out' = Append(before, Msg("ERROR", served'))
    BY <1>2 DEF RecvRequest
  <2>5. before \in Seq(Replies)
    <3>1. CASE session = 0
      BY <2>4, <3>1
    <3>2. CASE session # 0
      <4>1. PICK b \in Batches(anns) : before = Append(b, Msg("END", served))
        BY <2>4, <3>2 DEF Ended
      <4>2. b \in Seq(Replies) /\ Msg("END", served) \in Replies
        BY <1>t, <4>1, BatchesAre DEF ServerTypes, Msg, Replies, Notices
      <4>3. QED BY <4>1, <4>2, AppendAt
    <3>3. QED BY <3>1, <3>2
  <2>6. session' \in 0 .. MaxStacks + 1 /\ out' \in Seq(Replies)
    <3>1. CASE session' = 0 /\ out' = Append(before, Msg("ERROR", served'))
      <4>1. Msg("ERROR", served') \in Replies
        BY <2>3 DEF Msg, Replies, Notices
      <4>2. QED BY <2>5, <3>1, <4>1, AppendAt, SizesAssumption
    <3>2. ASSUME NEW n \in 0 .. MaxStacks, session' = n + 1, out' = Append(before, Info(n, served'))
          PROVE  session' \in 0 .. MaxStacks + 1 /\ out' \in Seq(Replies)
      <4>1. 0 .. n - 1 \subseteq 0 .. MaxStacks - 1
        BY SizesAssumption
      <4>2. Info(n, served') \in Replies
        BY <2>3, <4>1 DEF Info, Replies, Notices, Keys
      <4>3. QED BY <2>5, <3>2, <4>2, AppendAt, SizesAssumption
    <3>3. QED BY <2>4, <3>1, <3>2
  <2>7. ServerTypes'
    BY <1>2, <1>t, <2>3, <2>6, NoAnnsType DEF RecvRequest, ServerTypes
  <2>8. QED BY <2>1, <2>2, <2>7 DEF DecTypeOK
<1>3. CASE RecvData
  <2>1. UiTypes' /\ RxTypes'
    BY <1>3, <1>t DEF RecvData, UiTypes, RxTypes
  <2>2. WireTypes'
    BY <1>3, <1>g, <1>t DEF RecvData, WireTypes
  <2>3. CASE session = 0
    BY <1>3, <1>t, <2>1, <2>2, <2>3 DEF RecvData, DecTypeOK, ServerTypes, GhostTypes
  <2>4. CASE session # 0
    <3> DEFINE m == Head(toServer)
    <3>0. m.from \in 0 .. Total /\ m.n \in 0 .. Total
      BY <1>3, <1>g, OrderFields DEF RecvData
    <3>1. PICK y \in Yields :
             LET more == Made(y, m.from)
                 vecs == [k \in Keys |-> anns[k] \o more[k]]
             IN  /\ Flush(vecs)
                 /\ fed' = fed \o [i \in 1 .. m.n |-> m.from + i - 1]
                 /\ due' = [k \in Keys |-> due[k] \o Held(more[k])]
      BY <1>3, <2>4 DEF RecvData
    <3> DEFINE more == Made(y, m.from)
    <3> DEFINE vecs == [k \in Keys |-> anns[k] \o more[k]]
    <3> HIDE DEF m
    <3>2. more \in [Keys -> Seq(Annotations)]
      BY <1>t, <3>0, MadeAre DEF ServerTypes
    <3> HIDE DEF more
    <3>3. vecs \in [Keys -> Seq(Annotations)]
      BY <1>t, <3>2, ConcatProperties DEF ServerTypes
    <3>4. /\ out' \in Batches(vecs) /\ anns' = NoAnns
          /\ fed' = fed \o [i \in 1 .. m.n |-> m.from + i - 1]
          /\ due' = [k \in Keys |-> due[k] \o Held(more[k])]
      BY <3>1 DEF Flush, more
    <3> HIDE DEF vecs
    <3>5. out' \in Seq(Replies)
      BY <1>t, <3>3, <3>4, BatchesAre DEF ServerTypes
    <3>6. ServerTypes'
      BY <1>3, <1>t, <3>4, <3>5, NoAnnsType DEF RecvData, ServerTypes
    <3>7. [i \in 1 .. m.n |-> m.from + i - 1] \in Seq(Nat)
      BY <3>0, FunctionIsSeq
    <3>8. fed' \in Seq(Nat)
      BY <1>t, <3>4, <3>7, ConcatProperties DEF GhostTypes
    <3>9. \A k \in Keys : due[k] \o Held(more[k]) \in Seq(Annotations)
      BY <1>t, <3>2, HeldIsPrefix, ConcatProperties DEF GhostTypes
    <3>10. GhostTypes'
      BY <1>3, <1>t, <3>4, <3>8, <3>9 DEF RecvData, GhostTypes
    <3>11. QED BY <2>1, <2>2, <3>6, <3>10 DEF DecTypeOK
  <2>5. QED BY <2>3, <2>4
<1>4. CASE RecvEnd
  <2>1. UiTypes' /\ RxTypes' /\ GhostTypes'
    BY <1>4, <1>t DEF RecvEnd, UiTypes, RxTypes, GhostTypes
  <2>2. WireTypes'
    BY <1>4, <1>g, <1>t DEF RecvEnd, WireTypes
  <2>3. out' \in Seq(Replies)
    <3>1. CASE session = 0
      BY <1>4, <3>1 DEF RecvEnd
    <3>2. CASE session # 0
      <4>1. PICK b \in Batches(anns) : out' = Append(b, Msg("END", served))
        BY <1>4, <3>2 DEF RecvEnd, Ended
      <4>2. b \in Seq(Replies) /\ Msg("END", served) \in Replies
        BY <1>t, <4>1, BatchesAre DEF ServerTypes, Msg, Replies, Notices
      <4>3. QED BY <4>1, <4>2, AppendAt
    <3>3. QED BY <3>1, <3>2
  <2>4. ServerTypes'
    BY <1>4, <1>t, <2>3, NoAnnsType, SizesAssumption DEF RecvEnd, ServerTypes
  <2>5. QED BY <2>1, <2>2, <2>4 DEF DecTypeOK
<1>5. CASE ClientGone
  <2>1. << >> \in Seq(Orders) /\ Len(<< >>) = 0
    OBVIOUS
  <2>2. UiTypes' /\ RxTypes' /\ GhostTypes'
    BY <1>5, <1>t DEF ClientGone, UiTypes, RxTypes, GhostTypes
  <2>3. WireTypes'
    BY <1>5, <1>t, <2>1, SizesAssumption DEF ClientGone, WireTypes
  <2>4. ServerTypes'
    BY <1>5, <1>t, NoAnnsType, SizesAssumption DEF ClientGone, ServerTypes
  <2>5. QED BY <2>2, <2>3, <2>4 DEF DecTypeOK
<1>6. QED BY <1>1, <1>2, <1>3, <1>4, <1>5

LEMMA EnvironmentKeepsTypes ==
  ASSUME DecTypeOK, Lose \/ Reconnect \/ OtherError \/ UNCHANGED vars
  PROVE  DecTypeOK'
<1>t. UiTypes /\ RxTypes /\ ServerTypes /\ WireTypes /\ GhostTypes
  BY DEF DecTypeOK
<1>1. CASE Lose
  BY <1>1, <1>t DEF DecTypeOK, Lose, UiTypes, RxTypes, ServerTypes, WireTypes, GhostTypes
<1>2. CASE Reconnect
  BY <1>2, <1>t DEF DecTypeOK, Reconnect, UiTypes, RxTypes, ServerTypes, WireTypes, GhostTypes
<1>3. CASE OtherError
  <2>1. UiTypes' /\ RxTypes' /\ ServerTypes' /\ GhostTypes'
    BY <1>3, <1>t DEF OtherError, UiTypes, RxTypes, ServerTypes, GhostTypes
  <2>2. Msg("ERROR", req) \in Replies
    BY <1>t DEF Msg, Replies, Notices, UiTypes
  <2>3. toClient' \in Seq(Replies) /\ Len(toClient') <= Pipe
    BY <1>3, <1>t, <2>2, AppendAt, SizesAssumption DEF OtherError, WireTypes
  <2>4. WireTypes'
    BY <1>3, <1>t, <2>3 DEF OtherError, WireTypes
  <2>5. QED BY <2>1, <2>4 DEF DecTypeOK
<1>4. CASE UNCHANGED vars
  BY <1>4, <1>t DEF DecTypeOK, UiTypes, RxTypes, ServerTypes, WireTypes, GhostTypes
<1>5. QED BY <1>1, <1>2, <1>3, <1>4

\* The values every variable may take, and the connection holds no more than it
\* can.
THEOREM DecodeTypes == Spec => []DecTypeOK
<1>1. DecTypeOK /\ [Next]_vars => DecTypeOK'
  BY UiKeepsTypes, RxKeepsTypes, ServerKeepsTypes, EnvironmentKeepsTypes DEF Next
<1>2. QED BY <1>1, InitTypes, PTL DEF Spec

-----------------------------------------------------------------------------
(* The connection, and the numbers of the requests.                        *)

\* What the ends of the connection know of it; the rows of the session are
\* cleared whenever a handler has returned.
Ends ==
    /\ link = "up" => connected /\ spc = "recv"
    /\ link = "down" => cut
    /\ ~connected => toClient = << >>
    /\ spc = "accept" => session = 0 /\ out = << >> /\ toServer = << >>
    /\ anns = NoAnns

LEMMA EndsCorrect == Spec => []Ends
<1>1. Init => Ends
  BY DEF Init, Ends
<1>2. DecTypeOK /\ Ends /\ [Next]_vars => Ends'
  <2> SUFFICES ASSUME DecTypeOK, Ends, [Next]_vars PROVE Ends'
    OBVIOUS
  <2> USE DEF Ends
  <2>t. link \in {"up", "down"} /\ spc \in {"recv", "accept"}
    BY DEF DecTypeOK, ServerTypes, WireTypes
  <2>1. CASE Redecode
    BY <2>1, <2>t DEF Redecode
  <2>2. CASE SendRequest
    BY <2>2, <2>t DEF SendRequest, Sent, SendFails
  <2>3. CASE SendChunk
    BY <2>3, <2>t DEF SendChunk, Sent, SendFails
  <2>4. CASE SendEnd
    BY <2>4, <2>t DEF SendEnd, Sent, SendFails
  <2>5. CASE HandleCtrl
    BY <2>5, <2>t DEF HandleCtrl
  <2>6. CASE Receive
    BY <2>6, <2>t DEF Receive
  <2>7. CASE ReceiveFails
    BY <2>7, <2>t DEF ReceiveFails
  <2>8. CASE Reply
    BY <2>8, <2>t DEF Reply
  <2>9. CASE RecvRequest
    BY <2>9, <2>t DEF RecvRequest, Got
  <2>10. CASE RecvData
    <3>1. anns' = NoAnns
      BY <2>10 DEF RecvData, Flush
    <3>2. QED BY <2>10, <2>t, <3>1 DEF RecvData, Got
  <2>11. CASE RecvEnd
    BY <2>11, <2>t DEF RecvEnd, Got
  <2>12. CASE ClientGone
    BY <2>12, <2>t DEF ClientGone
  <2>13. CASE Lose
    BY <2>13, <2>t DEF Lose
  <2>14. CASE Reconnect
    BY <2>14, <2>t DEF Reconnect
  <2>15. CASE OtherError
    BY <2>15, <2>t DEF OtherError
  <2>16. CASE UNCHANGED vars
    BY <2>16
  <2>17. QED BY <2>1, <2>2, <2>3, <2>4, <2>5, <2>6, <2>7, <2>8, <2>9, <2>10, <2>11, <2>12,
                <2>13, <2>14, <2>15, <2>16 DEF Next
<1>3. QED BY <1>1, <1>2, DecodeTypes, PTL DEF Spec

\* No request, sample or answer is numbered beyond the last.
UpTo(q, r) == \A i \in DOMAIN q : q[i].req <= r

Numbered == /\ served <= req /\ UpTo(toServer, req) /\ UpTo(toClient, req)
            /\ UpTo(out, req) /\ UpTo(ctrl, req)

LEMMA UpToTail ==
  ASSUME NEW S, NEW q \in Seq(S), q # << >>, NEW r, UpTo(q, r)
  PROVE  UpTo(Tail(q), r) /\ Head(q).req <= r
BY TailAt DEF UpTo

LEMMA UpToAppend ==
  ASSUME NEW S, NEW q \in Seq(S), NEW m \in S, NEW r, UpTo(q, r), m.req <= r
  PROVE  UpTo(Append(q, m), r)
<1>1. ASSUME NEW i \in DOMAIN Append(q, m) PROVE Append(q, m)[i].req <= r
  <2>1. i \in 1 .. Len(q) \/ i = Len(q) + 1
    BY AppendAt
  <2>2. QED BY <2>1, AppendAt DEF UpTo
<1>2. QED BY <1>1 DEF UpTo

LEMMA UpToMore ==
  ASSUME NEW q, NEW r \in Nat, UpTo(q, r), \A i \in DOMAIN q : q[i].req \in Nat
  PROVE  UpTo(q, r + 1)
BY DEF UpTo

LEMMA NumberedCorrect == Spec => []Numbered
<1>1. Init => Numbered
  BY DEF Init, Numbered, UpTo
<1>2. DecTypeOK /\ Numbered /\ [Next]_vars => Numbered'
  <2> SUFFICES ASSUME DecTypeOK, Numbered, [Next]_vars PROVE Numbered'
    OBVIOUS
  <2>t. /\ req \in 0 .. MaxRequests /\ served \in 0 .. MaxRequests /\ MaxRequests \in Nat
        /\ ctrl \in Seq(Notices) /\ out \in Seq(Replies)
        /\ toServer \in Seq(Orders) /\ toClient \in Seq(Replies)
        /\ anns \in [Keys -> Seq(Annotations)]
    BY SizesAssumption DEF DecTypeOK, UiTypes, RxTypes, ServerTypes, WireTypes
  <2>n. /\ served <= req /\ UpTo(toServer, req) /\ UpTo(toClient, req)
        /\ UpTo(out, req) /\ UpTo(ctrl, req)
    BY DEF Numbered
  <2>g. ASSUME NEW type, Got(type)
        PROVE  /\ Head(toServer) \in Orders /\ Head(toServer).req <= req
               /\ toServer' = Tail(toServer) /\ UpTo(Tail(toServer), req)
    BY <2>g, <2>t, <2>n, TailAt, UpToTail DEF Got
  <2>b. ASSUME NEW v \in [Keys -> Seq(Annotations)], NEW q \in Batches(v)
        PROVE  UpTo(q, req) /\ q \in Seq(Replies)
    BY <2>t, <2>n, BatchesAre DEF UpTo
  <2>e. ASSUME NEW q \in IF session = 0 THEN {<< >>} ELSE Ended
        PROVE  UpTo(q, req) /\ q \in Seq(Replies)
    <3>1. CASE session = 0
      BY <2>e, <3>1 DEF UpTo
    <3>2. CASE session # 0
      <4>1. PICK b \in Batches(anns) : q = Append(b, Msg("END", served))
        BY <2>e, <3>2 DEF Ended
      <4>2. Msg("END", served) \in Replies /\ Msg("END", served).req = served
        BY <2>t DEF Msg, Replies, Notices
      <4>3. b \in Seq(Replies) /\ UpTo(b, req)
        BY <2>t, <2>b, <4>1
      <4>4. QED BY <2>n, <4>1, <4>2, <4>3, AppendAt, UpToAppend
    <3>3. QED BY <3>1, <3>2
  <2>s. ASSUME NEW m \in Orders, m.req = req, Sent(m) \/ SendFails
        PROVE  UpTo(toServer', req)
    <3>1. m.req <= req
      BY <2>s, <2>t
    <3>2. QED BY <2>s, <2>t, <2>n, <3>1, UpToAppend DEF Sent, SendFails
  <2>1. CASE Redecode
    <3>1. /\ UNCHANGED << served, toServer, toClient, out, ctrl >> /\ req' = req + 1
      BY <2>1 DEF Redecode
    <3>2. \A q : q \in Seq(Orders) \/ q \in Seq(Replies) \/ q \in Seq(Notices) =>
              \A i \in DOMAIN q : q[i].req \in Nat
      BY <2>t, OrderFields, ReplyFields, NoticeFields
    <3>3. /\ UpTo(toServer, req + 1) /\ UpTo(toClient, req + 1)
          /\ UpTo(out, req + 1) /\ UpTo(ctrl, req + 1)
      BY <2>t, <2>n, <3>2, UpToMore
    <3>4. served <= req + 1
      BY <2>t, <2>n
    <3>5. QED BY <3>1, <3>3, <3>4 DEF Numbered
  <2>2. CASE SendRequest
    <3>1. Msg("REQ", req) \in Orders /\ Msg("REQ", req).req = req
      BY <2>t DEF Msg, Orders
    <3>2. Sent(Msg("REQ", req)) \/ SendFails
      BY <2>2 DEF SendRequest
    <3>3. UpTo(toServer', req)
      BY <2>s, <3>1, <3>2
    <3>4. QED BY <2>2, <2>n, <3>3 DEF SendRequest, Numbered
  <2>3. CASE SendChunk
    <3> DEFINE n == IF pos + Chunk > Total THEN Total - pos ELSE Chunk
    <3>0. n \in 0 .. Total /\ pos \in 0 .. Total
      BY <2>3, SizesAssumption DEF SendChunk, DecTypeOK, UiTypes
    <3>1. Data(req, pos, n) \in Orders /\ Data(req, pos, n).req = req
      BY <2>t, <3>0 DEF Data, Orders
    <3>2. Sent(Data(req, pos, n)) \/ SendFails
      BY <2>3 DEF SendChunk
    <3>3. UpTo(toServer', req)
      BY <2>s, <3>1, <3>2
    <3>4. QED BY <2>3, <2>n, <3>3 DEF SendChunk, Numbered
  <2>4. CASE SendEnd
    <3>1. Msg("END", req) \in Orders /\ Msg("END", req).req = req
      BY <2>t DEF Msg, Orders
    <3>2. Sent(Msg("END", req)) \/ SendFails
      BY <2>4 DEF SendEnd
    <3>3. UpTo(toServer', req)
      BY <2>s, <3>1, <3>2
    <3>4. QED BY <2>4, <2>n, <3>3 DEF SendEnd, Numbered
  <2>5. CASE HandleCtrl
    <3>1. UpTo(Tail(ctrl), req)
      BY <2>5, <2>t, <2>n, UpToTail DEF HandleCtrl
    <3>2. QED BY <2>5, <2>n, <3>1 DEF HandleCtrl, Numbered
  <2>6. CASE Receive
    <3>1. /\ UpTo(Tail(toClient), req) /\ Head(toClient).req <= req
          /\ Head(toClient) \in Replies
      BY <2>6, <2>t, <2>n, UpToTail, TailAt DEF Receive
    <3>2. UpTo(ctrl', req)
      <4>1. CASE Head(toClient).type = "ANNS"
        BY <2>6, <2>n, <4>1 DEF Receive
      <4>2. CASE Head(toClient).type # "ANNS"
        <5>1. ctrl' = Append(ctrl, Head(toClient)) /\ Head(toClient) \in Notices
          BY <2>6, <3>1, <4>2, ReplyFields DEF Receive
        <5>2. QED BY <2>t, <2>n, <3>1, <5>1, UpToAppend
      <4>3. QED BY <4>1, <4>2
    <3>3. QED BY <2>6, <2>n, <3>1, <3>2 DEF Receive, Numbered
  <2>7. CASE ReceiveFails
    <3>1. UpTo(<< >>, req)
      BY DEF UpTo
    <3>2. QED BY <2>7, <2>n, <3>1 DEF ReceiveFails, Numbered
  <2>8. CASE Reply
    <3>1. UpTo(Tail(out), req) /\ Head(out).req <= req /\ Head(out) \in Replies
      BY <2>8, <2>t, <2>n, UpToTail, TailAt DEF Reply
    <3>2. UpTo(toClient', req)
      BY <2>8, <2>t, <2>n, <3>1, UpToAppend DEF Reply
    <3>3. QED BY <2>8, <2>n, <3>1, <3>2 DEF Reply, Numbered
  <2>9. CASE RecvRequest
    <3>1. served' <= req /\ served' \in 0 .. MaxRequests
      BY <2>9, <2>g, OrderFields DEF RecvRequest
    <3>2. PICK before \in IF session = 0 THEN {<< >>} ELSE Ended :
             \/ \E n \in 0 .. MaxStacks :
                   session' = n + 1 /\ out' = Append(before, Info(n, served'))
             \/ session' = 0 /\ out' = Append(before, Msg("ERROR", served'))
      BY <2>9 DEF RecvRequest
    <3>3. UpTo(before, req) /\ before \in Seq(Replies)
      BY <2>e, <3>2
    <3>4. /\ Msg("ERROR", served') \in Replies /\ Msg("ERROR", served').req = served'
          /\ \A n \in 0 .. MaxStacks : Info(n, served').req = served'
      BY <3>1 DEF Msg, Replies, Notices, Info
    <3>5. ASSUME NEW n \in 0 .. MaxStacks PROVE Info(n, served') \in Replies
      <4>1. 0 .. n - 1 \subseteq 0 .. MaxStacks - 1
        BY SizesAssumption
      <4>2. QED BY <3>1, <4>1 DEF Info, Replies, Notices, Keys
    <3>6. UpTo(out', req)
      BY <3>1, <3>2, <3>3, <3>4, <3>5, UpToAppend
    <3>7. QED BY <2>9, <2>g, <2>n, <3>1, <3>6 DEF RecvRequest, Numbered
  <2>10. CASE RecvData
    <3>1. UpTo(out', req)
      <4>1. CASE session = 0
        BY <2>10, <2>n, <4>1 DEF RecvData
      <4>2. CASE session # 0
        <5>1. PICK y \in Yields :
                 out' \in Batches([k \in Keys |-> anns[k] \o Made(y, Head(toServer).from)[k]])
          BY <2>10, <4>2 DEF RecvData, Flush
        <5>2. Head(toServer).from \in 0 .. Total
          BY <2>10, <2>g, OrderFields DEF RecvData, Got
        <5>3. Made(y, Head(toServer).from) \in [Keys -> Seq(Annotations)]
          BY <2>t, <5>2, MadeAre
        <5>4. [k \in Keys |-> anns[k] \o Made(y, Head(toServer).from)[k]]
                 \in [Keys -> Seq(Annotations)]
          BY <2>t, <5>3, ConcatProperties
        <5>5. QED BY <2>b, <5>1, <5>4
      <4>3. QED BY <4>1, <4>2
    <3>2. QED BY <2>10, <2>g, <2>n, <3>1 DEF RecvData, Numbered
  <2>11. CASE RecvEnd
    <3>1. UpTo(out', req)
      BY <2>11, <2>e DEF RecvEnd
    <3>2. QED BY <2>11, <2>g, <2>n, <3>1 DEF RecvEnd, Numbered
  <2>12. CASE ClientGone
    <3>1. UpTo(<< >>, req)
      BY DEF UpTo
    <3>2. QED BY <2>12, <2>n, <3>1 DEF ClientGone, Numbered
  <2>13. CASE Lose \/ Reconnect
    BY <2>13, <2>n DEF Lose, Reconnect, Numbered
  <2>14. CASE OtherError
    <3>1. Msg("ERROR", req) \in Replies /\ Msg("ERROR", req).req = req /\ req <= req
      BY <2>t DEF Msg, Replies, Notices
    <3>2. UpTo(toClient', req)
      BY <2>14, <2>t, <2>n, <3>1, UpToAppend DEF OtherError
    <3>3. QED BY <2>14, <2>n, <3>2 DEF OtherError, Numbered
  <2>15. CASE UNCHANGED vars
    BY <2>15, <2>n DEF Numbered
  <2>16. QED BY <2>1, <2>2, <2>3, <2>4, <2>5, <2>6, <2>7, <2>8, <2>9, <2>10, <2>11, <2>12,
                <2>13, <2>14, <2>15 DEF Next
<1>3. QED BY <1>1, <1>2, DecodeTypes, PTL DEF Spec

-----------------------------------------------------------------------------
(* Annotations on their way.                                               *)

Count(m, k) == IF m.type = "ANNS" /\ m.key = k THEN Len(m.anns) ELSE 0

\* If message m is a batch of row k, it holds the annotations of d after number n.
Holds(m, k, d, n) ==
    m.type = "ANNS" /\ m.key = k =>
        \A j \in 1 .. Len(m.anns) : m.anns[j] = d[n + j]

\* Queue q holds the annotations of d of row k from a[0] on: message i those
\* after a[i - 1] and up to a[i].
Laid(q, k, d, a) ==
    /\ a \in [0 .. Len(q) -> 0 .. Len(d)]
    /\ \A i \in 1 .. Len(q) :
           /\ a[i] = a[i - 1] + Count(q[i], k)
           /\ Holds(q[i], k, d, a[i - 1])

\* What is shown of row k, on its way and about to be sent is what was made for
\* the last request, each annotation once and in order.
Delivers(k, a, b) ==
    /\ Laid(toClient, k, due[k], a) /\ Laid(out, k, due[k], b)
    /\ a[0] = Len(shown[k]) /\ b[0] = a[Len(toClient)] /\ b[Len(out)] = Len(due[k])
    /\ \A j \in 1 .. Len(shown[k]) : shown[k][j] = due[k][j]
    /\ \A j \in 1 .. Len(due[k]) : due[k][j].req = req

Delivery == \A k \in Keys : \E a, b : Delivers(k, a, b)

\* The annotations in the client and on their way to it are of request r.
Tagged(r) ==
    /\ \A k \in Keys : \A i \in DOMAIN shown[k] : shown[k][i].req = r
    /\ \A i \in DOMAIN toClient : toClient[i].type = "ANNS" =>
           \A j \in DOMAIN toClient[i].anns : toClient[i].anns[j].req = r

LEMMA CountNat ==
  ASSUME NEW m \in Replies, NEW k
  PROVE  /\ Count(m, k) \in Nat
         /\ m.type # "ANNS" => Count(m, k) = 0
         /\ m.type = "ANNS" /\ m.key = k => Count(m, k) = Len(m.anns)
<1>1. m.type = "ANNS" => Len(m.anns) \in Nat
  BY ReplyFields, LenProperties
<1>2. QED BY <1>1 DEF Count

Shifted(q, a) == [i \in 0 .. Len(q) - 1 |-> a[i + 1]]
Longer(q, a, n) == [i \in 0 .. Len(q) + 1 |-> IF i <= Len(q) THEN a[i] ELSE n]

LEMMA LaidTail ==
  ASSUME NEW q \in Seq(Replies), q # << >>, NEW k, NEW d \in Seq(Annotations), NEW a,
         Laid(q, k, d, a)
  PROVE  /\ Laid(Tail(q), k, d, Shifted(q, a))
         /\ Shifted(q, a)[0] = a[0] + Count(q[1], k)
         /\ Shifted(q, a)[Len(Tail(q))] = a[Len(q)]
         /\ a[0] \in Nat /\ a[0] + Count(q[1], k) <= Len(d)
         /\ Holds(q[1], k, d, a[0])
<1> DEFINE t == Tail(q)
<1>1. /\ Len(q) \in Nat \ {0} /\ Len(t) = Len(q) - 1
      /\ \A i \in 1 .. Len(q) - 1 : t[i] = q[i + 1]
  BY TailAt
<1>2. /\ a \in [0 .. Len(q) -> 0 .. Len(d)] /\ Len(d) \in Nat
      /\ \A i \in 1 .. Len(q) : a[i] = a[i - 1] + Count(q[i], k)
  BY LenProperties DEF Laid
<1> DEFINE c == Shifted(q, a)
<1>3. /\ c \in [0 .. Len(t) -> 0 .. Len(d)]
      /\ \A i \in 0 .. Len(q) - 1 : c[i] = a[i + 1]
  <2>1. \A i \in 0 .. Len(q) - 1 : i + 1 \in 0 .. Len(q)
    BY <1>1
  <2>2. Len(t) = Len(q) - 1 /\ c = [i \in 0 .. Len(q) - 1 |-> a[i + 1]]
    BY <1>1 DEF Shifted
  <2> HIDE DEF c
  <2>3. QED BY <1>2, <2>1, <2>2
<1> HIDE DEF t, c
<1>4. ASSUME NEW i \in 1 .. Len(t)
      PROVE  /\ c[i] = c[i - 1] + Count(t[i], k)
             /\ Holds(t[i], k, d, c[i - 1])
  <2>1. /\ i + 1 \in 1 .. Len(q) /\ i - 1 \in 0 .. Len(q) - 1 /\ i \in 0 .. Len(q) - 1
        /\ t[i] = q[i + 1] /\ i + 1 - 1 = i /\ i - 1 + 1 = i
    BY <1>1
  <2>2. c[i] = a[i + 1] /\ c[i - 1] = a[i]
    BY <1>3, <2>1
  <2>3. /\ a[i + 1] = a[i + 1 - 1] + Count(q[i + 1], k)
        /\ Holds(q[i + 1], k, d, a[i + 1 - 1])
    BY <2>1 DEF Laid
  <2>4. QED BY <2>1, <2>2, <2>3
<1>5. Laid(t, k, d, c)
  BY <1>3, <1>4 DEF Laid
<1>6. 1 \in 1 .. Len(q) /\ 0 \in 0 .. Len(q) /\ 0 \in 0 .. Len(q) - 1 /\ Len(q) - 1 \in 0 .. Len(q) - 1
      /\ 1 - 1 = 0 /\ Len(q) - 1 + 1 = Len(q) /\ 0 + 1 = 1
  BY <1>1
<1>7. /\ a[1] = a[0] + Count(q[1], k)
      /\ Holds(q[1], k, d, a[0])
  BY <1>6 DEF Laid
<1>8. c[0] = a[1] /\ c[Len(t)] = a[Len(q)]
  BY <1>1, <1>3, <1>6
<1>9. a[0] \in Nat /\ a[1] <= Len(d)
  <2>1. 1 \in 0 .. Len(q) /\ 0 \in 0 .. Len(q)
    BY <1>1
  <2>2. a[0] \in 0 .. Len(d) /\ a[1] \in 0 .. Len(d)
    BY <1>2, <2>1
  <2>3. QED BY <1>2, <2>2
<1>10. QED BY <1>5, <1>7, <1>8, <1>9 DEF t, c

LEMMA LaidAppend ==
  ASSUME NEW q \in Seq(Replies), NEW m \in Replies, NEW k, NEW d \in Seq(Annotations), NEW a,
         Laid(q, k, d, a), NEW n \in 0 .. Len(d), n = a[Len(q)] + Count(m, k),
         Holds(m, k, d, a[Len(q)])
  PROVE  /\ Laid(Append(q, m), k, d, Longer(q, a, n))
         /\ Longer(q, a, n)[0] = a[0] /\ Longer(q, a, n)[Len(Append(q, m))] = n
<1> DEFINE t == Append(q, m)
<1> DEFINE c == Longer(q, a, n)
<1>1. /\ Len(q) \in Nat /\ Len(t) = Len(q) + 1 /\ t[Len(q) + 1] = m
      /\ \A i \in 1 .. Len(q) : t[i] = q[i]
  BY AppendAt
<1>2. a \in [0 .. Len(q) -> 0 .. Len(d)] /\ Len(d) \in Nat
  BY LenProperties DEF Laid
<1>3. /\ c \in [0 .. Len(t) -> 0 .. Len(d)] /\ c[Len(q) + 1] = n
      /\ \A i \in 0 .. Len(q) : c[i] = a[i]
  BY <1>1, <1>2 DEF Longer
<1> HIDE DEF t, c
<1>4. ASSUME NEW i \in 1 .. Len(t)
      PROVE  /\ c[i] = c[i - 1] + Count(t[i], k)
             /\ Holds(t[i], k, d, c[i - 1])
  <2>1. CASE i \in 1 .. Len(q)
    <3>1. i - 1 \in 0 .. Len(q) /\ i \in 0 .. Len(q) /\ t[i] = q[i]
      BY <1>1, <2>1
    <3>2. c[i] = a[i] /\ c[i - 1] = a[i - 1]
      BY <1>3, <3>1
    <3>3. QED BY <2>1, <3>1, <3>2 DEF Laid
  <2>2. CASE i = Len(q) + 1
    <3>1. i - 1 = Len(q) /\ t[i] = m /\ c[i] = n /\ c[i - 1] = a[Len(q)]
      BY <1>1, <1>3, <2>2
    <3>2. QED BY <3>1
  <2>3. QED BY <1>1, <2>1, <2>2
<1>5. Laid(t, k, d, c)
  BY <1>3, <1>4 DEF Laid
<1>6. c[0] = a[0] /\ c[Len(t)] = n
  BY <1>1, <1>3
<1>7. QED BY <1>5, <1>6 DEF t, c

\* Making more leaves what is on its way where it is.
LEMMA LaidMore ==
  ASSUME NEW q \in Seq(Replies), NEW k \in Keys, NEW d \in Seq(Annotations), NEW e \in Seq(Annotations),
         Len(d) <= Len(e), \A j \in 1 .. Len(d) : e[j] = d[j], NEW a, Laid(q, k, d, a)
  PROVE  Laid(q, k, e, a)
<1>1. /\ a \in [0 .. Len(q) -> 0 .. Len(d)] /\ Len(q) \in Nat /\ Len(d) \in Nat /\ Len(e) \in Nat
      /\ \A i \in 1 .. Len(q) : q[i] \in Replies
  BY LenProperties DEF Laid
<1>2. a \in [0 .. Len(q) -> 0 .. Len(e)]
  BY <1>1
<1>3. ASSUME NEW i \in 1 .. Len(q), q[i].type = "ANNS", q[i].key = k, NEW j \in 1 .. Len(q[i].anns)
      PROVE  q[i].anns[j] = e[a[i - 1] + j]
  <2>1. q[i].anns[j] = d[a[i - 1] + j] /\ a[i] = a[i - 1] + Len(q[i].anns)
    BY <1>3 DEF Laid, Count, Holds
  <2>2. Len(q[i].anns) \in Nat
    BY <1>1, <1>3, ReplyFields, LenProperties
  <2>i. i - 1 \in 0 .. Len(q) /\ i \in 0 .. Len(q)
    BY <1>1
  <2>3. a[i - 1] \in 0 .. Len(d) /\ a[i] \in 0 .. Len(d)
    BY <1>1, <2>i
  <2>4. a[i - 1] + j \in 1 .. Len(d)
    BY <1>1, <2>1, <2>2, <2>3
  <2>5. QED BY <2>1, <2>4
<1>4. \A i \in 1 .. Len(q) : Holds(q[i], k, e, a[i - 1])
  BY <1>3 DEF Holds
<1>5. QED BY <1>2, <1>4 DEF Laid

LEMMA LaidEmpty ==
  ASSUME NEW k, NEW d \in Seq(Annotations), NEW n \in 0 .. Len(d)
  PROVE  Laid(<< >>, k, d, [i \in 0 .. 0 |-> n])
BY DEF Laid

\* What was laid in the queue is of the request it was made for.
LEMMA DeliveryTags == DecTypeOK /\ Delivery => Tagged(req)
<1> SUFFICES ASSUME DecTypeOK, Delivery PROVE Tagged(req)
  OBVIOUS
<1>t. /\ shown \in [Keys -> Seq(Annotations)] /\ due \in [Keys -> Seq(Annotations)]
      /\ toClient \in Seq(Replies)
  BY DEF DecTypeOK, RxTypes, WireTypes, GhostTypes
<1>1. ASSUME NEW k \in Keys, NEW i \in DOMAIN shown[k] PROVE shown[k][i].req = req
  <2>1. PICK a, b : Delivers(k, a, b)
    BY DEF Delivery
  <2>2. /\ i \in 1 .. Len(shown[k]) /\ Len(shown[k]) \in Nat /\ Len(due[k]) \in Nat
        /\ a[0] \in 0 .. Len(due[k]) /\ a[0] = Len(shown[k])
    <3>1. i \in 1 .. Len(shown[k]) /\ Len(shown[k]) \in Nat /\ Len(due[k]) \in Nat
      BY <1>t, LenProperties
    <3>2. a \in [0 .. Len(toClient) -> 0 .. Len(due[k])] /\ a[0] = Len(shown[k])
      BY <2>1 DEF Delivers, Laid
    <3>3. 0 \in 0 .. Len(toClient)
      BY <1>t, LenProperties
    <3>4. QED BY <3>1, <3>2, <3>3
  <2>3. i \in 1 .. Len(due[k])
    BY <2>2
  <2>4. QED BY <2>1, <2>2, <2>3 DEF Delivers
<1>2. ASSUME NEW i \in DOMAIN toClient, toClient[i].type = "ANNS",
             NEW j \in DOMAIN toClient[i].anns
      PROVE  toClient[i].anns[j].req = req
  <2> DEFINE m == toClient[i]
  <2>1. /\ m.key \in Keys /\ m.anns \in Seq(Annotations) /\ i \in 1 .. Len(toClient)
        /\ Len(toClient) \in Nat
    BY <1>t, <1>2, ReplyFields, LenProperties
  <2>2. j \in 1 .. Len(m.anns) /\ Len(m.anns) \in Nat
    BY <1>2, <2>1, LenProperties
  <2> DEFINE k == m.key
  <2>3. PICK a, b : Delivers(k, a, b)
    BY <2>1 DEF Delivery
  <2>4. Laid(toClient, k, due[k], a) /\ \A n \in 1 .. Len(due[k]) : due[k][n].req = req
    BY <2>3 DEF Delivers
  <2>p. i - 1 \in 0 .. Len(toClient) /\ i \in 0 .. Len(toClient)
    BY <2>1
  <2>5. /\ m.anns[j] = due[k][a[i - 1] + j] /\ a[i] = a[i - 1] + Len(m.anns)
        /\ a[i - 1] \in 0 .. Len(due[k]) /\ a[i] \in 0 .. Len(due[k])
    <3>1. a \in [0 .. Len(toClient) -> 0 .. Len(due[k])]
      BY <2>4 DEF Laid
    <3>2. m.anns[j] = due[k][a[i - 1] + j] /\ a[i] = a[i - 1] + Len(m.anns)
      BY <1>2, <2>1, <2>2, <2>4 DEF Laid, Count, Holds
    <3>3. QED BY <2>p, <3>1, <3>2
  <2>6. Len(due[k]) \in Nat
    BY <1>t, <2>1, LenProperties
  <2> HIDE DEF m, k
  <2>7. a[i - 1] + j \in 1 .. Len(due[k])
    BY <2>2, <2>5, <2>6
  <2>8. QED BY <2>4, <2>5, <2>7 DEF m
<1>3. QED BY <1>1, <1>2 DEF Tagged

LEMMA Places ==
  ASSUME NEW x \in Nat, NEW y \in Nat, NEW j \in 1 .. x + y
  PROVE  \/ j <= x /\ j \in 1 .. x
         \/ ~(j <= x) /\ j - x \in 1 .. y /\ x + (j - x) = j
OBVIOUS

LEMMA DeliveryTypes ==
  DecTypeOK => /\ shown \in [Keys -> Seq(Annotations)] /\ due \in [Keys -> Seq(Annotations)]
               /\ toClient \in Seq(Replies) /\ out \in Seq(Replies)
               /\ req \in 0 .. MaxRequests /\ served \in 0 .. MaxRequests
BY DEF DecTypeOK, UiTypes, RxTypes, ServerTypes, WireTypes, GhostTypes

LEMMA DeliveryStays ==
  ASSUME Delivery, UNCHANGED << shown, due, toClient, out, req >>
  PROVE  Delivery'
<1>1. ASSUME NEW k \in Keys, NEW a, NEW b, Delivers(k, a, b) PROVE Delivers(k, a, b)'
  BY <1>1 DEF Delivers
<1>2. QED BY <1>1 DEF Delivery

\* The RX thread puts a batch into the store, or hands a notice on.
LEMMA DeliveryReceive ==
  ASSUME DecTypeOK, Delivery, Receive
  PROVE  Delivery'
<1> DEFINE m == Head(toClient)
<1>t. /\ shown \in [Keys -> Seq(Annotations)] /\ due \in [Keys -> Seq(Annotations)]
      /\ toClient \in Seq(Replies) /\ toClient # << >>
      /\ toClient' = Tail(toClient) /\ UNCHANGED << due, out, req >>
  BY DeliveryTypes DEF Receive
<1>m. m \in Replies /\ toClient[1] = m
  BY <1>t, TailAt
<1>s. \/ /\ m.type = "ANNS" /\ m.key \in Keys /\ m.anns \in Seq(Annotations)
         /\ shown' = [shown EXCEPT ![m.key] = shown[m.key] \o m.anns]
      \/ m.type # "ANNS" /\ shown' = shown
  BY <1>m, ReplyFields DEF Receive
<1> HIDE DEF m
<1>1. ASSUME NEW k \in Keys, NEW a, NEW b, Delivers(k, a, b)
      PROVE  \E c : Delivers(k, c, b)'
  <2>cc. PICK c : c = Shifted(toClient, a)
    OBVIOUS
  <2>ss. PICK s : s = shown'[k]
    OBVIOUS
  <2>0. /\ shown[k] \in Seq(Annotations) /\ due[k] \in Seq(Annotations)
        /\ Len(shown[k]) \in Nat /\ Len(due[k]) \in Nat
    BY <1>t, LenProperties
  <2>1. Laid(toClient, k, due[k], a)
    BY <1>1 DEF Delivers
  <2>2. /\ Laid(Tail(toClient), k, due[k], c) /\ c[0] = a[0] + Count(m, k)
        /\ c[Len(Tail(toClient))] = a[Len(toClient)] /\ a[0] \in Nat
        /\ Holds(m, k, due[k], a[0])
    BY <1>t, <1>m, <2>cc, <2>0, <2>1, LaidTail
  <2>3. /\ a[0] = Len(shown[k]) /\ \A j \in 1 .. Len(shown[k]) : shown[k][j] = due[k][j]
    BY <1>1 DEF Delivers
  <2>4. c[0] = Len(s) /\ \A j \in 1 .. Len(s) : s[j] = due[k][j]
    <3>1. CASE m.type = "ANNS" /\ m.key = k
      <4>1. s = shown[k] \o m.anns /\ m.anns \in Seq(Annotations) /\ Len(m.anns) \in Nat
        BY <1>t, <1>s, <2>ss, <3>1, LenProperties
      <4>2. /\ Len(s) = Len(shown[k]) + Len(m.anns)
            /\ \A j \in 1 .. Len(shown[k]) + Len(m.anns) :
                  s[j] = IF j <= Len(shown[k]) THEN shown[k][j] ELSE m.anns[j - Len(shown[k])]
        BY <2>0, <4>1, ConcatProperties
      <4>3. c[0] = Len(s)
        BY <2>2, <2>3, <3>1, <4>2 DEF Count
      <4>n. Len(s) = Len(shown[k]) + Len(m.anns)
        BY <4>2
      <4>w. Len(m.anns) \in Nat /\ Len(shown[k]) \in Nat
        BY <2>0, <4>1
      <4>4. ASSUME NEW j \in 1 .. Len(shown[k]) + Len(m.anns) PROVE s[j] = due[k][j]
        <5>0. \/ j <= Len(shown[k]) /\ j \in 1 .. Len(shown[k])
              \/ /\ ~(j <= Len(shown[k])) /\ j - Len(shown[k]) \in 1 .. Len(m.anns)
                 /\ Len(shown[k]) + (j - Len(shown[k])) = j
          BY <4>w, Places
        <5>a. s[j] = IF j <= Len(shown[k]) THEN shown[k][j] ELSE m.anns[j - Len(shown[k])]
          BY <4>2
        <5>1. CASE j <= Len(shown[k]) /\ j \in 1 .. Len(shown[k])
          BY <2>3, <5>a, <5>1
        <5>2. CASE /\ ~(j <= Len(shown[k])) /\ j - Len(shown[k]) \in 1 .. Len(m.anns)
                   /\ Len(shown[k]) + (j - Len(shown[k])) = j
          <6>1. m.anns[j - Len(shown[k])] = due[k][Len(shown[k]) + (j - Len(shown[k]))]
            BY <2>2, <2>3, <3>1, <5>2 DEF Holds
          <6>2. s[j] = m.anns[j - Len(shown[k])]
            BY <5>a, <5>2
          <6>3. QED BY <5>2, <6>1, <6>2
        <5>3. QED BY <5>0, <5>1, <5>2
      <4>5. QED BY <4>3, <4>4, <4>n
    <3>2. CASE ~(m.type = "ANNS" /\ m.key = k)
      <4>1. s = shown[k] /\ Count(m, k) = 0
        BY <1>t, <1>s, <2>ss, <3>2 DEF Count
      <4>2. QED BY <2>2, <2>3, <4>1
    <3>3. QED BY <3>1, <3>2
  <2>5. /\ Laid(out, k, due[k], b) /\ b[0] = c[Len(Tail(toClient))] /\ b[Len(out)] = Len(due[k])
        /\ \A j \in 1 .. Len(due[k]) : due[k][j].req = req
    BY <1>1, <2>2 DEF Delivers
  <2>6. Delivers(k, c, b)'
    BY <1>t, <2>ss, <2>2, <2>4, <2>5 DEF Delivers
  <2>7. QED BY <2>6
<1>2. QED BY <1>1 DEF Delivery

\* A reply goes from one queue to the next.
LEMMA DeliveryReply ==
  ASSUME DecTypeOK, Delivery, out # << >>,
         toClient' = Append(toClient, Head(out)), out' = Tail(out),
         UNCHANGED << shown, due, req >>
  PROVE  Delivery'
<1> DEFINE m == Head(out)
<1>t. /\ due \in [Keys -> Seq(Annotations)] /\ toClient \in Seq(Replies) /\ out \in Seq(Replies)
  BY DeliveryTypes
<1>m. m \in Replies /\ out[1] = m
  BY <1>t, TailAt
<1> HIDE DEF m
<1>1. ASSUME NEW k \in Keys, NEW a, NEW b, Delivers(k, a, b)
      PROVE  \E d, c : Delivers(k, d, c)'
  <2>cc. PICK c : c = Shifted(out, b)
    OBVIOUS
  <2>0. due[k] \in Seq(Annotations) /\ Len(due[k]) \in Nat
    BY <1>t, LenProperties
  <2>1. Laid(out, k, due[k], b) /\ Laid(toClient, k, due[k], a) /\ b[0] = a[Len(toClient)]
    BY <1>1 DEF Delivers
  <2>2. /\ Laid(Tail(out), k, due[k], c) /\ c[0] = b[0] + Count(m, k)
        /\ c[Len(Tail(out))] = b[Len(out)] /\ b[0] \in Nat /\ b[0] + Count(m, k) <= Len(due[k])
        /\ Holds(m, k, due[k], b[0])
    BY <1>t, <1>m, <2>cc, <2>0, <2>1, LaidTail
  <2>nn. PICK n : n = b[0] + Count(m, k)
    OBVIOUS
  <2>3. n \in 0 .. Len(due[k]) /\ n = a[Len(toClient)] + Count(m, k)
    BY <1>m, <2>nn, <2>0, <2>1, <2>2, CountNat
  <2>dd. PICK d : d = Longer(toClient, a, n)
    OBVIOUS
  <2>4. /\ Laid(Append(toClient, m), k, due[k], d)
        /\ d[0] = a[0] /\ d[Len(Append(toClient, m))] = n
    <3>1. Holds(m, k, due[k], a[Len(toClient)])
      BY <2>1, <2>2
    <3>2. QED BY <1>t, <1>m, <2>dd, <2>nn, <2>0, <2>1, <2>3, <3>1, LaidAppend
  <2>5. toClient' = Append(toClient, m)
    BY DEF m
  <2>6. /\ Laid(toClient', k, due[k], d) /\ Laid(out', k, due[k], c)
        /\ d[0] = Len(shown[k]) /\ c[0] = d[Len(toClient')] /\ c[Len(out')] = Len(due[k])
    BY <1>1, <2>nn, <2>2, <2>4, <2>5 DEF Delivers
  <2>7. Delivers(k, d, c)'
    BY <1>1, <2>6 DEF Delivers
  <2>8. QED BY <2>7
<1>2. QED BY <1>1 DEF Delivery

\* A notice is said after the annotations.
LEMMA DeliveryNotice ==
  ASSUME DecTypeOK, Delivery, NEW m \in Notices, out' = Append(out, m),
         UNCHANGED << shown, due, toClient, req >>
  PROVE  Delivery'
<1>t. due \in [Keys -> Seq(Annotations)] /\ m \in Replies /\ m.type # "ANNS"
  BY DeliveryTypes, NoticeFields
<1>1. ASSUME NEW k \in Keys, NEW a, NEW b, Delivers(k, a, b)
      PROVE  \E d : Delivers(k, a, d)'
  <2>0. due[k] \in Seq(Annotations) /\ Len(due[k]) \in Nat /\ Count(m, k) = 0
    BY <1>t, LenProperties, CountNat
  <2>1. Laid(out, k, due[k], b) /\ b[Len(out)] = Len(due[k])
    BY <1>1 DEF Delivers
  <2>nn. PICK n : n = Len(due[k])
    OBVIOUS
  <2>dd. PICK d : d = Longer(out, b, n)
    OBVIOUS
  <2>2. out \in Seq(Replies)
    BY DeliveryTypes
  <2>3. n \in 0 .. Len(due[k]) /\ n = b[Len(out)] + Count(m, k)
    BY <2>0, <2>1, <2>nn
  <2>4. /\ Laid(Append(out, m), k, due[k], d)
        /\ d[0] = b[0] /\ d[Len(Append(out, m))] = n
    <3>1. Holds(m, k, due[k], b[Len(out)])
      BY <1>t DEF Holds
    <3>2. QED BY <1>t, <2>dd, <2>0, <2>1, <2>2, <2>3, <3>1, LaidAppend
  <2>5. Delivers(k, a, d)'
    BY <1>1, <2>nn, <2>2, <2>4 DEF Delivers
  <2>6. QED BY <2>5
<1>2. QED BY <1>1 DEF Delivery

\* The annotations of a run of samples, batched: what a batch has no room for
\* is not due.
LEMMA DeliveryData ==
  ASSUME DecTypeOK, Delivery, served = req, out = << >>,
         NEW more \in [Keys -> Seq(Annotations)],
         \A k \in Keys : \A i \in DOMAIN more[k] : more[k][i].req = served,
         out' \in Batches(more), due' = [k \in Keys |-> due[k] \o Held(more[k])],
         UNCHANGED << shown, toClient, req >>
  PROVE  Delivery'
<1>t. /\ due \in [Keys -> Seq(Annotations)] /\ toClient \in Seq(Replies)
      /\ served \in 0 .. MaxRequests
  BY DeliveryTypes
<1>o. /\ out' \in Seq(Replies) /\ DOMAIN out' = 1 .. Len(out') /\ Len(out') \in Nat
      /\ \A i \in DOMAIN out' : /\ out'[i].type = "ANNS" /\ out'[i].key \in Keys
                                /\ out'[i].anns = Held(more[out'[i].key])
      /\ \A i, j \in DOMAIN out' : out'[i].key = out'[j].key => i = j
      /\ \A k \in Keys : more[k] # << >> => \E i \in DOMAIN out' : out'[i].key = k
  BY <1>t, BatchesAre, LenProperties, ZenonT(40)
<1>1. ASSUME NEW k \in Keys, NEW a, NEW b, Delivers(k, a, b)
      PROVE  \E d : Delivers(k, a, d)'
  <2>hh. PICK h : h = Held(more[k])
    OBVIOUS
  <2>ee. PICK e : e = due'[k]
    OBVIOUS
  <2>oo. PICK o : o = out'
    OBVIOUS
  <2>h. /\ h \in Seq(Annotations) /\ Len(h) \in Nat /\ Len(more[k]) \in Nat
        /\ DOMAIN more[k] = 1 .. Len(more[k])
        /\ \A j \in 1 .. Len(h) : h[j] = more[k][j] /\ j \in DOMAIN more[k]
        /\ more[k] = << >> => Len(h) = 0
    BY <2>hh, HeldIsPrefix, LenProperties
  <2>0. /\ due[k] \in Seq(Annotations) /\ Len(due[k]) \in Nat /\ e = due[k] \o h
    BY <1>t, <2>hh, <2>ee, LenProperties
  <2>1. /\ e \in Seq(Annotations) /\ Len(e) = Len(due[k]) + Len(h)
        /\ \A j \in 1 .. Len(due[k]) + Len(h) :
              e[j] = IF j <= Len(due[k]) THEN due[k][j] ELSE h[j - Len(due[k])]
    BY <2>h, <2>0, ConcatProperties
  <2>2. /\ \A j \in 1 .. Len(due[k]) : e[j] = due[k][j]
        /\ \A j \in 1 .. Len(h) : e[Len(due[k]) + j] = h[j]
    <3>1. \A j \in 1 .. Len(h) : /\ Len(due[k]) + j \in 1 .. Len(due[k]) + Len(h)
                                 /\ ~(Len(due[k]) + j <= Len(due[k]))
                                 /\ Len(due[k]) + j - Len(due[k]) = j
      BY <2>h, <2>0
    <3>2. \A j \in 1 .. Len(due[k]) : j \in 1 .. Len(due[k]) + Len(h) /\ j <= Len(due[k])
      BY <2>h, <2>0
    <3>3. ASSUME NEW j \in 1 .. Len(due[k]) PROVE e[j] = due[k][j]
      <4>1. j \in 1 .. Len(due[k]) + Len(h) /\ j <= Len(due[k])
        BY <3>2
      <4>2. e[j] = IF j <= Len(due[k]) THEN due[k][j] ELSE h[j - Len(due[k])]
        BY <2>1, <4>1
      <4>3. QED BY <4>1, <4>2
    <3>4. ASSUME NEW j \in 1 .. Len(h) PROVE e[Len(due[k]) + j] = h[j]
      <4> DEFINE l == Len(due[k]) + j
      <4>1. l \in 1 .. Len(due[k]) + Len(h) /\ ~(l <= Len(due[k])) /\ l - Len(due[k]) = j
        BY <3>1
      <4> HIDE DEF l
      <4>2. e[l] = IF l <= Len(due[k]) THEN due[k][l] ELSE h[l - Len(due[k])]
        BY <2>1, <4>1
      <4>3. e[l] = h[j]
        BY <4>1, <4>2
      <4>4. QED BY <4>3 DEF l
    <3>5. QED BY <3>3, <3>4
  <2>3. Laid(toClient, k, e, a)
    <3>1. Laid(toClient, k, due[k], a) /\ Len(due[k]) <= Len(e)
      BY <1>1, <2>h, <2>0, <2>1 DEF Delivers
    <3>2. QED BY <1>t, <2>0, <2>1, <2>2, <3>1, LaidMore
  <2> DEFINE At(i) == \E j \in 1 .. i : o[j].key = k
  <2> DEFINE d == [i \in 0 .. Len(o) |-> IF At(i) THEN Len(e) ELSE Len(due[k])]
  <2>4. d \in [0 .. Len(o) -> 0 .. Len(e)]
    BY <2>h, <2>0, <2>1
  <2>5. ASSUME NEW i \in 1 .. Len(o)
        PROVE  /\ d[i] = d[i - 1] + Count(o[i], k)
               /\ Holds(o[i], k, e, d[i - 1])
    <3>0. i \in 0 .. Len(o) /\ i - 1 \in 0 .. Len(o)
      BY <1>o, <2>oo
    <3>1. CASE o[i].key = k
      <4>1. At(i) /\ ~At(i - 1)
        <5>1. \A j \in 1 .. i - 1 : j \in DOMAIN o /\ j # i
          BY <1>o, <2>oo
        <5>2. i \in 1 .. i
          OBVIOUS
        <5>3. \A j \in 1 .. i - 1 : o[j].key # k
          BY <1>o, <2>oo, <3>1, <5>1
        <5>4. QED BY <3>1, <5>2, <5>3
      <4>2. d[i] = Len(e) /\ d[i - 1] = Len(due[k])
        BY <3>0, <4>1
      <4>3. o[i].anns = h /\ Count(o[i], k) = Len(h)
        BY <1>o, <2>oo, <2>hh, <3>1 DEF Count
      <4> HIDE DEF d, At
      <4>4. QED BY <2>1, <2>2, <4>2, <4>3 DEF Holds
    <3>2. CASE o[i].key # k
      <4>1. At(i) <=> At(i - 1)
        <5>1. \A j \in 1 .. i : j \in 1 .. i - 1 \/ j = i
          OBVIOUS
        <5>2. \A j \in 1 .. i - 1 : j \in 1 .. i
          OBVIOUS
        <5>3. QED BY <3>2, <5>1, <5>2
      <4>2. d[i] = d[i - 1] /\ d[i] \in Nat
        <5>1. d[i] = (IF At(i) THEN Len(e) ELSE Len(due[k]))
              /\ d[i - 1] = (IF At(i - 1) THEN Len(e) ELSE Len(due[k]))
          BY <3>0
        <5> HIDE DEF d, At
        <5>2. QED BY <2>h, <2>0, <2>1, <4>1, <5>1
      <4>3. Count(o[i], k) = 0
        BY <3>2 DEF Count
      <4> HIDE DEF d, At
      <4>4. QED BY <3>2, <4>2, <4>3 DEF Holds
    <3>3. QED BY <3>1, <3>2
  <2>6. d[0] = Len(due[k])
    BY <1>o, <2>oo
  <2>7. d[Len(o)] = Len(e)
    <3>1. CASE more[k] = << >>
      BY <1>o, <2>oo, <2>h, <2>0, <2>1, <3>1
    <3>2. CASE more[k] # << >>
      BY <1>o, <2>oo, <3>2
    <3>3. QED BY <3>1, <3>2
  <2>ff. PICK f : f = d
    OBVIOUS
  <2> HIDE DEF d, At
  <2>8. Laid(o, k, e, f)
    BY <2>ff, <2>4, <2>5 DEF Laid
  <2>9. ASSUME NEW j \in 1 .. Len(e) PROVE e[j].req = req
    <3>1. CASE j <= Len(due[k])
      <4>1. j \in 1 .. Len(due[k])
        BY <2>0, <3>1
      <4>2. QED BY <1>1, <2>2, <4>1 DEF Delivers
    <3>2. CASE ~(j <= Len(due[k]))
      <4>1. j - Len(due[k]) \in 1 .. Len(h) /\ Len(due[k]) + (j - Len(due[k])) = j
        BY <2>h, <2>0, <2>1, <3>2
      <4>2. e[j] = h[j - Len(due[k])]
        BY <2>2, <4>1
      <4>3. QED BY <2>h, <4>1, <4>2
    <3>3. QED BY <3>1, <3>2
  <2>10. /\ a[0] = Len(shown[k]) /\ f[0] = a[Len(toClient)]
         /\ \A j \in 1 .. Len(shown[k]) : shown[k][j] = e[j]
    <3>1. /\ a[0] = Len(shown[k]) /\ b[0] = a[Len(toClient)] /\ b[Len(out)] = Len(due[k])
          /\ \A j \in 1 .. Len(shown[k]) : shown[k][j] = due[k][j]
          /\ a \in [0 .. Len(toClient) -> 0 .. Len(due[k])]
      BY <1>1 DEF Delivers, Laid
    <3>2. Len(out) = 0 /\ 0 \in 0 .. Len(toClient)
      BY <1>t, LenProperties
    <3>3. Len(shown[k]) \in 0 .. Len(due[k])
      BY <3>1, <3>2
    <3>4. \A j \in 1 .. Len(shown[k]) : j \in 1 .. Len(due[k])
      BY <2>0, <3>3
    <3>5. ASSUME NEW j \in 1 .. Len(shown[k]) PROVE shown[k][j] = e[j]
      BY <2>2, <3>1, <3>4
    <3>6. f[0] = a[Len(toClient)]
      BY <2>ff, <2>6, <3>1, <3>2
    <3>7. QED BY <3>1, <3>5, <3>6
  <2>11. Delivers(k, a, f)'
    BY <2>ee, <2>oo, <2>ff, <2>3, <2>7, <2>8, <2>9, <2>10 DEF Delivers
  <2>12. QED BY <2>11
<1>2. QED BY <1>1 DEF Delivery

\* When nothing is on its way, what is shown is what was made.
LEMMA DeliveryOver ==
  ASSUME DecTypeOK, Delivery, toClient = << >>, out = << >> PROVE shown = due
<1>t. shown \in [Keys -> Seq(Annotations)] /\ due \in [Keys -> Seq(Annotations)]
  BY DeliveryTypes
<1>1. ASSUME NEW k \in Keys PROVE shown[k] = due[k]
  <2>1. PICK a, b : Delivers(k, a, b)
    BY DEF Delivery
  <2>2. /\ Len(toClient) = 0 /\ Len(out) = 0
        /\ shown[k] \in Seq(Annotations) /\ due[k] \in Seq(Annotations)
    BY <1>t
  <2>3. /\ Len(shown[k]) = Len(due[k]) /\ \A j \in 1 .. Len(shown[k]) : shown[k][j] = due[k][j]
    BY <2>1, <2>2 DEF Delivers
  <2>4. QED BY <2>2, <2>3, SeqEqual
<1>2. QED BY <1>t, <1>1

-----------------------------------------------------------------------------
(* Where the last request is.                                              *)

IsAnswer(m)   == m.type \in {"END", "ERROR"}
NoAnswer(q)   == \A i \in DOMAIN q : ~IsAnswer(q[i])
AnswerLast(q) == /\ q # << >> /\ IsAnswer(q[Len(q)])
                 /\ \A i \in 1 .. Len(q) - 1 : ~IsAnswer(q[i])
NoRequest(q)  == \A i \in DOMAIN q : q[i].type # "REQ"
OldEnds(q, r) == \A i \in DOMAIN q : q[i].type = "END" => q[i].req # r

\* After message p, queue q holds the samples from s to t in DATA up to message e.
From(q, p, s, i) == IF i = p THEN s ELSE q[i].from + q[i].n

Streams(q, p, e, s, t) ==
    /\ \A i \in p + 1 .. e : q[i].type = "DATA" /\ q[i].from = From(q, p, s, i - 1)
    /\ From(q, p, s, e) = t

\* What sonview has sent of the store goes on from where sond is; once all is
\* sent, it is followed by END.
Sending(p) ==
    \E e \in p .. Len(toServer) :
        /\ Streams(toServer, p, e, first + Len(fed), pos)
        /\ \/ e = Len(toServer)
           \/ /\ e = Len(toServer) - 1 /\ toServer[Len(toServer)].type = "END"
              /\ pos = Total /\ upc = "frame"

InStep == \A i \in 1 .. Len(fed) : fed[i] = first + i - 1
Whole  == InStep /\ Len(fed) = Total - first

Idle  == session = 0 /\ ctrl = << >> /\ toClient = << >> /\ out = << >>
Fresh == shown = NoAnns /\ due = NoAnns /\ fed = << >>

\* No decode: none yet, the last is over, or the next is about to be asked for.
Resting ==
    /\ link = "up" /\ Idle /\ NoRequest(toServer) /\ upc # "stream" /\ \E r : Tagged(r)
    /\ upc = "request" => redecoding /\ Fresh

\* The request is message p on its way.
Requested(p) ==
    /\ link = "up" /\ Idle /\ redecoding /\ upc # "request" /\ Fresh
    /\ p \in DOMAIN toServer /\ toServer[p].type = "REQ" /\ toServer[p].req = req
    /\ \A i \in DOMAIN toServer : i # p => toServer[i].type # "REQ"
    /\ Sending(p)

\* sond has a session for it.
Decoding ==
    /\ link = "up" /\ session # 0 /\ served = req /\ redecoding /\ upc # "request"
    /\ NoRequest(toServer) /\ NoAnswer(ctrl) /\ NoAnswer(toClient) /\ NoAnswer(out)
    /\ InStep /\ Sending(0) /\ Delivery

\* sond has answered it; the answer is the last message of one of the queues,
\* behind every annotation.
AnswerIn(q) == AnswerLast(q) /\ (q[Len(q)].type = "END" => Whole)

Answered ==
    /\ session = 0 /\ (link = "up" => redecoding) /\ upc # "request"
    /\ NoRequest(toServer) /\ Delivery
    /\ \/ AnswerIn(ctrl) /\ toClient = << >> /\ out = << >>
       \/ NoAnswer(ctrl) /\ AnswerIn(toClient) /\ out = << >>
       \/ link = "up" /\ NoAnswer(ctrl) /\ NoAnswer(toClient) /\ AnswerIn(out)

\* The connection was lost before it was answered.
Lost ==
    /\ link = "down" /\ \E r : Tagged(r)
    /\ OldEnds(ctrl, req) /\ OldEnds(toClient, req)

Somewhere == Resting \/ (\E p : Requested(p)) \/ Decoding \/ Answered \/ Lost

Phase == ~refused => Somewhere

LEMMA NoAnswerTail ==
  ASSUME NEW S, NEW q \in Seq(S), q # << >>, NoAnswer(q)
  PROVE  NoAnswer(Tail(q)) /\ ~IsAnswer(Head(q))
BY TailAt DEF NoAnswer

LEMMA NoAnswerAppend ==
  ASSUME NEW S, NEW q \in Seq(S), NEW m \in S, NoAnswer(q), ~IsAnswer(m)
  PROVE  NoAnswer(Append(q, m))
<1>1. ASSUME NEW i \in DOMAIN Append(q, m) PROVE ~IsAnswer(Append(q, m)[i])
  <2>1. i \in 1 .. Len(q) \/ i = Len(q) + 1
    BY AppendAt
  <2>2. QED BY <2>1, AppendAt DEF NoAnswer
<1>2. QED BY <1>1 DEF NoAnswer

LEMMA AnswerAppend ==
  ASSUME NEW S, NEW q \in Seq(S), NEW m \in S, NoAnswer(q), IsAnswer(m)
  PROVE  AnswerLast(Append(q, m)) /\ Append(q, m)[Len(Append(q, m))] = m
<1> DEFINE a == Append(q, m)
<1>1. /\ a # << >> /\ Len(a) = Len(q) + 1 /\ Len(q) \in Nat /\ a[Len(q) + 1] = m
      /\ \A i \in 1 .. Len(q) : a[i] = q[i]
  BY AppendAt
<1>2. \A i \in 1 .. Len(q) : ~IsAnswer(q[i])
  BY AppendAt DEF NoAnswer
<1> HIDE DEF a
<1>3. Len(a) - 1 = Len(q)
  BY <1>1
<1>4. AnswerLast(a) /\ a[Len(a)] = m
  BY <1>1, <1>2, <1>3 DEF AnswerLast
<1>5. QED BY <1>4 DEF a

LEMMA AnswerTail ==
  ASSUME NEW S, NEW q \in Seq(S), AnswerLast(q)
  PROVE  /\ q # << >>
         /\ \/ Tail(q) = << >> /\ IsAnswer(Head(q)) /\ Head(q) = q[Len(q)]
            \/ /\ AnswerLast(Tail(q)) /\ ~IsAnswer(Head(q))
               /\ Tail(q)[Len(Tail(q))] = q[Len(q)]
<1> DEFINE t == Tail(q)
<1>0. q # << >>
  BY DEF AnswerLast
<1>1. /\ t \in Seq(S) /\ Len(t) = Len(q) - 1 /\ Len(q) \in Nat \ {0} /\ Head(q) = q[1]
      /\ \A i \in 1 .. Len(q) - 1 : t[i] = q[i + 1]
  BY <1>0, TailAt
<1> HIDE DEF t
<1>2. CASE Len(q) = 1
  <2>1. t = << >>
    BY <1>1, <1>2, EmptySeq
  <2>2. QED BY <1>0, <1>1, <1>2, <2>1 DEF t, AnswerLast
<1>3. CASE Len(q) # 1
  <2>1. /\ Len(t) \in 1 .. Len(q) - 1 /\ Len(t) + 1 = Len(q) /\ 1 \in 1 .. Len(q) - 1
        /\ \A i \in 1 .. Len(t) - 1 : i \in 1 .. Len(q) - 1 /\ i + 1 \in 1 .. Len(q) - 1
    BY <1>1, <1>3
  <2>2. t[Len(t)] = q[Len(q)] /\ t # << >>
    <3>1. t[Len(t)] = q[Len(t) + 1]
      BY <1>1, <2>1
    <3>2. t # << >>
      BY <1>1, <1>3
    <3>3. QED BY <2>1, <3>1, <3>2
  <2>3. \A i \in 1 .. Len(t) - 1 : ~IsAnswer(t[i])
    BY <1>1, <2>1 DEF AnswerLast
  <2>4. ~IsAnswer(q[1]) /\ IsAnswer(q[Len(q)])
    BY <2>1 DEF AnswerLast
  <2>5. AnswerLast(t) /\ ~IsAnswer(Head(q)) /\ t[Len(t)] = q[Len(q)]
    BY <1>1, <2>2, <2>3, <2>4 DEF AnswerLast
  <2>6. QED BY <1>0, <2>5 DEF t
<1>4. QED BY <1>2, <1>3

LEMMA NoRequestTail ==
  ASSUME NEW S, NEW q \in Seq(S), q # << >>, NoRequest(q)
  PROVE  NoRequest(Tail(q)) /\ Head(q).type # "REQ"
BY TailAt DEF NoRequest

LEMMA NoRequestAppend ==
  ASSUME NEW S, NEW q \in Seq(S), NEW m \in S, NoRequest(q), m.type # "REQ"
  PROVE  NoRequest(Append(q, m))
<1>1. ASSUME NEW i \in DOMAIN Append(q, m) PROVE Append(q, m)[i].type # "REQ"
  <2>1. i \in 1 .. Len(q) \/ i = Len(q) + 1
    BY AppendAt
  <2>2. QED BY <2>1, AppendAt DEF NoRequest
<1>2. QED BY <1>1 DEF NoRequest

LEMMA OldEndsTail ==
  ASSUME NEW S, NEW q \in Seq(S), q # << >>, NEW r, OldEnds(q, r)
  PROVE  OldEnds(Tail(q), r) /\ (Head(q).type = "END" => Head(q).req # r)
BY TailAt DEF OldEnds

LEMMA OldEndsAppend ==
  ASSUME NEW S, NEW q \in Seq(S), NEW m \in S, NEW r, OldEnds(q, r),
         m.type = "END" => m.req # r
  PROVE  OldEnds(Append(q, m), r)
<1>1. ASSUME NEW i \in DOMAIN Append(q, m), Append(q, m)[i].type = "END"
      PROVE  Append(q, m)[i].req # r
  <2>1. i \in 1 .. Len(q) \/ i = Len(q) + 1
    BY AppendAt
  <2>2. QED BY <1>1, <2>1, AppendAt DEF OldEnds
<1>2. QED BY <1>1 DEF OldEnds

LEMMA NoAnswerOld ==
  ASSUME NEW q, NEW r, NoAnswer(q) PROVE OldEnds(q, r)
BY DEF NoAnswer, OldEnds, IsAnswer

\* The numbers of the messages there are are below that of the next request.
LEMMA NextOld ==
  ASSUME NEW q, NEW r \in Nat, UpTo(q, r), \A i \in DOMAIN q : q[i].req \in Nat
  PROVE  OldEnds(q, r + 1)
BY DEF OldEnds, UpTo

-----------------------------------------------------------------------------
(* Samples on their way.                                                   *)

LEMMA StreamsTail ==
  ASSUME NEW q \in Seq(Orders), NEW p \in 1 .. Len(q), NEW e \in p .. Len(q), NEW s, NEW t,
         Streams(q, p, e, s, t)
  PROVE  Streams(Tail(q), p - 1, e - 1, s, t)
<1> DEFINE u == Tail(q)
<1>0. Len(q) \in Nat
  BY LenProperties
<1>n. q # << >> /\ 1 <= p /\ p <= e /\ e <= Len(q) /\ p \in Nat /\ e \in Nat
  BY <1>0
<1>1. /\ Len(q) \in Nat \ {0} /\ Len(u) = Len(q) - 1
      /\ \A i \in 1 .. Len(q) - 1 : u[i] = q[i + 1]
  BY <1>n, TailAt
<1> HIDE DEF u
<1>2. \A i \in p - 1 .. e - 1 : From(u, p - 1, s, i) = From(q, p, s, i + 1)
  <2> TAKE i \in p - 1 .. e - 1
  <2>1. CASE i = p - 1
    <3>1. i + 1 = p
      BY <1>n, <2>1
    <3>2. QED BY <2>1, <3>1 DEF From
  <2>2. CASE i # p - 1
    <3>1. i \in 1 .. Len(q) - 1 /\ i + 1 # p
      BY <1>n, <2>2
    <3>2. u[i] = q[i + 1]
      BY <1>1, <3>1
    <3>3. QED BY <2>2, <3>1, <3>2 DEF From
  <2>3. QED BY <2>1, <2>2
<1>3. ASSUME NEW i \in p .. e - 1
      PROVE  u[i].type = "DATA" /\ u[i].from = From(u, p - 1, s, i - 1)
  <2>1. i + 1 \in p + 1 .. e /\ i \in 1 .. Len(q) - 1 /\ i + 1 - 1 = i
        /\ i - 1 \in p - 1 .. e - 1 /\ i - 1 + 1 = i
    BY <1>n
  <2>2. u[i] = q[i + 1]
    BY <1>1, <2>1
  <2>3. q[i + 1].type = "DATA" /\ q[i + 1].from = From(q, p, s, i + 1 - 1)
    BY <2>1 DEF Streams
  <2>4. From(u, p - 1, s, i - 1) = From(q, p, s, i - 1 + 1)
    BY <1>2, <2>1
  <2>5. QED BY <2>1, <2>2, <2>3, <2>4
<1>4. From(u, p - 1, s, e - 1) = t
  <2>1. e - 1 \in p - 1 .. e - 1 /\ e - 1 + 1 = e
    BY <1>n
  <2>2. From(u, p - 1, s, e - 1) = From(q, p, s, e - 1 + 1)
    BY <1>2, <2>1
  <2>3. QED BY <2>1, <2>2 DEF Streams
<1>5. p - 1 + 1 = p
  BY <1>n
<1>6. Streams(u, p - 1, e - 1, s, t)
  BY <1>3, <1>4, <1>5 DEF Streams
<1>7. QED BY <1>6 DEF u

\* The first of the DATA is where sond goes on.
LEMMA StreamsFeed ==
  ASSUME NEW q \in Seq(Orders), NEW e \in 1 .. Len(q), NEW s, NEW t,
         Streams(q, 0, e, s, t)
  PROVE  /\ q[1].type = "DATA" /\ q[1].from = s
         /\ Streams(Tail(q), 0, e - 1, s + q[1].n, t)
<1> DEFINE u == Tail(q)
<1>0. Len(q) \in Nat
  BY LenProperties
<1>n. q # << >> /\ 1 <= e /\ e <= Len(q) /\ e \in Nat
  BY <1>0
<1>1. /\ Len(q) \in Nat \ {0} /\ Len(u) = Len(q) - 1
      /\ \A i \in 1 .. Len(q) - 1 : u[i] = q[i + 1]
  BY <1>n, TailAt
<1> HIDE DEF u
<1>2. q[1].type = "DATA" /\ q[1].from = s
  <2>1. 1 \in 0 + 1 .. e /\ 1 - 1 = 0
    BY <1>n
  <2>2. q[1].type = "DATA" /\ q[1].from = From(q, 0, s, 1 - 1)
    BY <2>1 DEF Streams
  <2>3. QED BY <2>1, <2>2 DEF From
<1>3. \A i \in 0 .. e - 1 : From(u, 0, s + q[1].n, i) = From(q, 0, s, i + 1)
  <2> TAKE i \in 0 .. e - 1
  <2>1. i + 1 # 0 /\ (i # 0 => i \in 1 .. Len(q) - 1) /\ (i = 0 => i + 1 = 1)
    BY <1>n
  <2>2. i # 0 => u[i] = q[i + 1]
    BY <1>1, <2>1
  <2>3. QED BY <1>2, <2>1, <2>2 DEF From
<1>4. ASSUME NEW i \in 1 .. e - 1
      PROVE  u[i].type = "DATA" /\ u[i].from = From(u, 0, s + q[1].n, i - 1)
  <2>1. i + 1 \in 0 + 1 .. e /\ i \in 1 .. Len(q) - 1 /\ i + 1 - 1 = i
        /\ i - 1 \in 0 .. e - 1 /\ i - 1 + 1 = i
    BY <1>n
  <2>2. u[i] = q[i + 1]
    BY <1>1, <2>1
  <2>3. q[i + 1].type = "DATA" /\ q[i + 1].from = From(q, 0, s, i + 1 - 1)
    BY <2>1 DEF Streams
  <2>4. From(u, 0, s + q[1].n, i - 1) = From(q, 0, s, i - 1 + 1)
    BY <1>3, <2>1
  <2>5. QED BY <2>1, <2>2, <2>3, <2>4
<1>5. From(u, 0, s + q[1].n, e - 1) = t
  <2>1. e - 1 \in 0 .. e - 1 /\ e - 1 + 1 = e
    BY <1>n
  <2>2. From(u, 0, s + q[1].n, e - 1) = From(q, 0, s, e - 1 + 1)
    BY <1>3, <2>1
  <2>3. QED BY <2>1, <2>2 DEF Streams
<1>6. 0 + 1 = 1
  OBVIOUS
<1>7. Streams(u, 0, e - 1, s + q[1].n, t)
  BY <1>4, <1>5, <1>6 DEF Streams
<1>8. QED BY <1>2, <1>7 DEF u

LEMMA StreamsNone ==
  ASSUME NEW q, NEW p \in Nat, NEW s PROVE Streams(q, p, p, s, s)
BY DEF Streams, From

LEMMA StreamsKeep ==
  ASSUME NEW q \in Seq(Orders), NEW p \in 0 .. Len(q), NEW e \in p .. Len(q), NEW s, NEW t,
         Streams(q, p, e, s, t), NEW m \in Orders
  PROVE  Streams(Append(q, m), p, e, s, t)
<1> DEFINE u == Append(q, m)
<1>0. Len(q) \in Nat
  BY LenProperties
<1>1. \A i \in 1 .. Len(q) : u[i] = q[i]
  BY AppendAt
<1> HIDE DEF u
<1>n. p \in Nat /\ e \in Nat /\ p <= e /\ e <= Len(q)
  BY <1>0
<1>2. \A i \in p .. e : From(u, p, s, i) = From(q, p, s, i)
  <2> TAKE i \in p .. e
  <2>1. i = p \/ i \in 1 .. Len(q)
    BY <1>0, <1>n
  <2>2. QED BY <1>1, <2>1 DEF From
<1>3. ASSUME NEW i \in p + 1 .. e
      PROVE  u[i].type = "DATA" /\ u[i].from = From(u, p, s, i - 1)
  <2>1. i \in 1 .. Len(q) /\ i - 1 \in p .. e
    BY <1>0, <1>n
  <2>2. QED BY <1>1, <1>2, <2>1 DEF Streams
<1>4. From(u, p, s, e) = t
  <2>1. e \in p .. e
    BY <1>n
  <2>2. QED BY <1>2, <2>1 DEF Streams
<1>5. Streams(u, p, e, s, t)
  BY <1>3, <1>4 DEF Streams
<1>6. QED BY <1>5 DEF u

\* A chunk more.
LEMMA StreamsAppend ==
  ASSUME NEW q \in Seq(Orders), NEW p \in 0 .. Len(q), NEW s, NEW t,
         Streams(q, p, Len(q), s, t),
         NEW m \in Orders, m.type = "DATA", m.from = t
  PROVE  Streams(Append(q, m), p, Len(q) + 1, s, t + m.n)
<1>uu. PICK u : u = Append(q, m)
  OBVIOUS
<1>0. Len(q) \in Nat /\ p \in Nat /\ p <= Len(q)
  BY LenProperties
<1>1. u[Len(q) + 1] = m
  BY <1>uu, AppendAt
<1>2. Streams(u, p, Len(q), s, t)
  <2>1. Len(q) \in p .. Len(q)
    BY <1>0
  <2>2. QED BY <1>uu, <2>1, StreamsKeep
<1>3. ASSUME NEW i \in p + 1 .. Len(q) + 1
      PROVE  u[i].type = "DATA" /\ u[i].from = From(u, p, s, i - 1)
  <2>1. CASE i = Len(q) + 1
    <3>1. i - 1 = Len(q)
      BY <1>0, <2>1
    <3>2. QED BY <1>1, <1>2, <2>1, <3>1 DEF Streams
  <2>2. CASE i # Len(q) + 1
    <3>1. i \in p + 1 .. Len(q)
      BY <1>0, <2>2
    <3>2. QED BY <1>2, <3>1 DEF Streams
  <2>3. QED BY <2>1, <2>2
<1>4. From(u, p, s, Len(q) + 1) = t + m.n
  <2>1. Len(q) + 1 # p
    BY <1>0
  <2>2. QED BY <1>1, <2>1 DEF From
<1>5. QED BY <1>uu, <1>3, <1>4 DEF Streams

LEMMA PhaseTypes ==
  DecTypeOK => /\ req \in 0 .. MaxRequests /\ served \in 0 .. MaxRequests /\ MaxRequests \in Nat
               /\ toServer \in Seq(Orders) /\ toClient \in Seq(Replies)
               /\ out \in Seq(Replies) /\ ctrl \in Seq(Notices)
               /\ link \in {"up", "down"} /\ fed \in Seq(Nat)
               /\ pos \in 0 .. Total /\ first \in 0 .. Total /\ Total \in Nat
BY SizesAssumption DEF DecTypeOK, UiTypes, RxTypes, ServerTypes, WireTypes, GhostTypes

\* The stream goes on while sonview sends it.
LEMMA SendingGoesOn ==
  ASSUME DecTypeOK, link = "up", NEW p \in 0 .. Len(toServer), Sending(p),
         SendChunk \/ SendEnd
  PROVE  /\ Sending(p)' /\ UNCHANGED redecoding /\ upc' # "request"
         /\ \E m \in Orders : m.type # "REQ" /\ toServer' = Append(toServer, m)
<1>t. /\ toServer \in Seq(Orders) /\ pos \in 0 .. Total /\ first \in 0 .. Total /\ Total \in Nat
      /\ req \in 0 .. MaxRequests /\ Len(toServer) \in Nat
  BY PhaseTypes, LenProperties
<1>s. Len(toServer) \in p .. Len(toServer) /\ Len(toServer) \in 0 .. Len(toServer)
  BY <1>t
<1>e. Streams(toServer, p, Len(toServer), first + Len(fed), pos)
  BY DEF Sending, SendChunk, SendEnd
<1>u. UNCHANGED << first, fed >>
  BY DEF SendChunk, SendEnd
<1>1. CASE SendChunk
  <2> DEFINE n == IF pos + Chunk > Total THEN Total - pos ELSE Chunk
  <2>0. n \in 0 .. Total
    BY <1>1, <1>t, SizesAssumption DEF SendChunk
  <2>mm. PICK m : m = Data(req, pos, n)
    OBVIOUS
  <2>1. m \in Orders /\ m.type = "DATA" /\ m.from = pos /\ m.n = n
    BY <1>t, <2>0, <2>mm DEF Data, Orders
  <2>2. toServer' = Append(toServer, m) /\ pos' = pos + n /\ UNCHANGED << upc, redecoding >>
    BY <1>1, <2>mm DEF SendChunk, Sent, SendFails
  <2> HIDE DEF n
  <2>3. Streams(toServer', p, Len(toServer) + 1, first + Len(fed), pos')
    BY <1>t, <1>e, <2>1, <2>2, StreamsAppend
  <2>4. Len(toServer') = Len(toServer) + 1
    BY <1>t, <2>1, <2>2, AppendAt
  <2>5. Len(toServer') \in p .. Len(toServer')
    BY <1>t, <2>4
  <2>6. Sending(p)'
    BY <1>u, <2>3, <2>4, <2>5 DEF Sending
  <2>7. upc' # "request"
    BY <1>1, <2>2 DEF SendChunk
  <2>8. QED BY <2>1, <2>2, <2>6, <2>7
<1>2. CASE SendEnd
  <2>mm. PICK m : m = Msg("END", req)
    OBVIOUS
  <2>1. m \in Orders /\ m.type = "END"
    BY <1>t, <2>mm DEF Msg, Orders
  <2>2. /\ toServer' = Append(toServer, m) /\ upc' = "frame" /\ pos = Total
        /\ UNCHANGED << pos, redecoding >>
    BY <1>2, <2>mm DEF SendEnd, Sent, SendFails
  <2>3. Streams(toServer', p, Len(toServer), first + Len(fed), pos)
    BY <1>t, <1>s, <1>e, <2>1, <2>2, StreamsKeep
  <2>4. Len(toServer') = Len(toServer) + 1 /\ toServer'[Len(toServer) + 1] = m
    BY <1>t, <2>1, <2>2, AppendAt
  <2>5. Len(toServer) \in p .. Len(toServer') /\ Len(toServer) = Len(toServer') - 1
    BY <1>t, <2>4
  <2>6. Sending(p)'
    BY <1>u, <2>1, <2>2, <2>3, <2>4, <2>5 DEF Sending
  <2>7. QED BY <2>1, <2>2, <2>6
<1>3. QED BY <1>1, <1>2

LEMMA SendingStays ==
  ASSUME NEW p, Sending(p), UNCHANGED << toServer, first, fed, pos, upc >>
  PROVE  Sending(p)'
BY DEF Sending

\* What sond reads before the request brings the request a place nearer.
LEMMA SendingNearer ==
  ASSUME DecTypeOK, NEW p \in DOMAIN toServer, Sending(p), toServer' = Tail(toServer),
         UNCHANGED << first, fed, pos, upc >>
  PROVE  Sending(p - 1)'
<1>t. /\ toServer \in Seq(Orders) /\ Len(toServer) \in Nat /\ DOMAIN toServer = 1 .. Len(toServer)
  BY PhaseTypes, LenProperties
<1>1. PICK e \in p .. Len(toServer) :
        /\ Streams(toServer, p, e, first + Len(fed), pos)
        /\ \/ e = Len(toServer)
           \/ /\ e = Len(toServer) - 1 /\ toServer[Len(toServer)].type = "END"
              /\ pos = Total /\ upc = "frame"
  BY DEF Sending
<1>2. toServer # << >> /\ p \in 1 .. Len(toServer) /\ 1 <= p /\ p <= e /\ e <= Len(toServer)
      /\ e \in Nat /\ p \in Nat
  BY <1>t
<1>3. Streams(toServer', p - 1, e - 1, first + Len(fed), pos)
  BY <1>t, <1>1, <1>2, StreamsTail
<1>4. /\ Len(toServer') = Len(toServer) - 1
      /\ \A i \in 1 .. Len(toServer) - 1 : toServer'[i] = toServer[i + 1]
  BY <1>t, <1>2, TailAt
<1>5. e - 1 \in p - 1 .. Len(toServer')
  BY <1>t, <1>2, <1>4
<1>6. CASE e = Len(toServer)
  <2>1. e - 1 = Len(toServer')
    BY <1>4, <1>6
  <2>2. QED BY <1>3, <1>5, <2>1 DEF Sending
<1>7. CASE /\ e = Len(toServer) - 1 /\ toServer[Len(toServer)].type = "END"
           /\ pos = Total /\ upc = "frame"
  <2>1. /\ e - 1 = Len(toServer') - 1 /\ Len(toServer) - 1 \in 1 .. Len(toServer) - 1
        /\ Len(toServer) - 1 + 1 = Len(toServer)
    BY <1>t, <1>2, <1>4, <1>7
  <2>2. toServer'[Len(toServer')] = toServer[Len(toServer)]
    <3>1. toServer'[Len(toServer) - 1] = toServer[Len(toServer) - 1 + 1]
      BY <1>4, <2>1
    <3>2. QED BY <1>4, <2>1, <3>1
  <2>3. QED BY <1>3, <1>5, <1>7, <2>1, <2>2 DEF Sending
<1>8. QED BY <1>1, <1>6, <1>7

\* sond decodes the next chunk.
LEMMA SendingFed ==
  ASSUME DecTypeOK, Sending(0), toServer # << >>, toServer[1].type = "DATA",
         toServer' = Tail(toServer), Len(fed') = Len(fed) + toServer[1].n,
         UNCHANGED << first, pos, upc >>
  PROVE  toServer[1].from = first + Len(fed) /\ Sending(0)'
<1>t. /\ toServer \in Seq(Orders) /\ Len(toServer) \in Nat \ {0} /\ Len(fed) \in Nat
      /\ first \in Nat /\ toServer[1] \in Orders
  <2>1. 1 \in 1 .. Len(toServer) /\ Len(toServer) \in Nat \ {0}
    BY PhaseTypes, TailAt
  <2>2. QED BY <2>1, PhaseTypes, TailAt, LenProperties
<1>m. toServer[1].n \in Nat
  BY <1>t, OrderFields, SizesAssumption
<1>1. PICK e \in 0 .. Len(toServer) :
        /\ Streams(toServer, 0, e, first + Len(fed), pos)
        /\ \/ e = Len(toServer)
           \/ /\ e = Len(toServer) - 1 /\ toServer[Len(toServer)].type = "END"
              /\ pos = Total /\ upc = "frame"
  BY DEF Sending
<1>2. e \in 1 .. Len(toServer)
  <2>1. CASE e = 0
    <3>1. Len(toServer) = 1 /\ toServer[Len(toServer)].type = "END"
      BY <1>t, <1>1, <2>1
    <3>2. QED BY <3>1
  <2>2. QED BY <1>1, <2>1, <1>t
<1>3. /\ toServer[1].from = first + Len(fed)
      /\ Streams(toServer', 0, e - 1, first + Len(fed) + toServer[1].n, pos)
  BY <1>t, <1>1, <1>2, StreamsFeed
<1>4. first + Len(fed) + toServer[1].n = first' + Len(fed')
  BY <1>t, <1>m
<1>5. /\ Len(toServer') = Len(toServer) - 1
      /\ \A i \in 1 .. Len(toServer) - 1 : toServer'[i] = toServer[i + 1]
  BY <1>t, TailAt
<1>6. e - 1 \in 0 .. Len(toServer')
  BY <1>t, <1>2, <1>5
<1>7. CASE e = Len(toServer)
  <2>1. e - 1 = Len(toServer')
    BY <1>5, <1>7
  <2>2. QED BY <1>3, <1>4, <1>6, <2>1 DEF Sending
<1>8. CASE /\ e = Len(toServer) - 1 /\ toServer[Len(toServer)].type = "END"
           /\ pos = Total /\ upc = "frame"
  <2>1. /\ e - 1 = Len(toServer') - 1 /\ Len(toServer) - 1 \in 1 .. Len(toServer) - 1
        /\ Len(toServer) - 1 + 1 = Len(toServer)
    BY <1>t, <1>2, <1>5, <1>8
  <2>2. toServer'[Len(toServer')] = toServer[Len(toServer)]
    <3>1. toServer'[Len(toServer) - 1] = toServer[Len(toServer) - 1 + 1]
      BY <1>5, <2>1
    <3>2. QED BY <1>5, <2>1, <3>1
  <2>3. QED BY <1>3, <1>4, <1>6, <1>8, <2>1, <2>2 DEF Sending
<1>9. QED BY <1>1, <1>7, <1>8

\* sond reads END after the last sample.
LEMMA SendingOver ==
  ASSUME DecTypeOK, Sending(0), InStep, toServer # << >>, toServer[1].type = "END"
  PROVE  Whole
<1>t. /\ toServer \in Seq(Orders) /\ Len(toServer) \in Nat \ {0} /\ Len(fed) \in Nat
      /\ first \in Nat /\ Total \in Nat
  BY PhaseTypes, TailAt, LenProperties
<1>1. PICK e \in 0 .. Len(toServer) :
        /\ Streams(toServer, 0, e, first + Len(fed), pos)
        /\ \/ e = Len(toServer)
           \/ /\ e = Len(toServer) - 1 /\ toServer[Len(toServer)].type = "END"
              /\ pos = Total /\ upc = "frame"
  BY DEF Sending
<1>2. CASE e \in 1 .. Len(toServer)
  <2>1. toServer[1].type = "DATA"
    BY <1>t, <1>1, <1>2, StreamsFeed
  <2>2. QED BY <2>1
<1>3. CASE e = 0
  <2>1. pos = Total
    BY <1>t, <1>1, <1>3
  <2>2. first + Len(fed) = pos
    BY <1>1, <1>3 DEF Streams, From
  <2>3. Len(fed) = Total - first
    BY <1>t, <2>1, <2>2
  <2>4. QED BY <2>3 DEF Whole
<1>4. QED BY <1>2, <1>3, <1>t

LEMMA TaggedStays ==
  ASSUME NEW r, Tagged(r), UNCHANGED << shown, toClient >> PROVE Tagged(r)'
BY DEF Tagged

LEMMA TaggedReceive ==
  ASSUME DecTypeOK, NEW r, Tagged(r), Receive PROVE Tagged(r)'
<1> DEFINE m == Head(toClient)
<1>t. /\ shown \in [Keys -> Seq(Annotations)] /\ toClient \in Seq(Replies) /\ toClient # << >>
      /\ toClient' = Tail(toClient)
  BY DeliveryTypes DEF Receive
<1>m. /\ m \in Replies /\ toClient[1] = m /\ 1 \in DOMAIN toClient
      /\ DOMAIN Tail(toClient) = 1 .. Len(toClient) - 1 /\ DOMAIN toClient = 1 .. Len(toClient)
      /\ \A i \in 1 .. Len(toClient) - 1 : Tail(toClient)[i] = toClient[i + 1]
      /\ \A i \in 1 .. Len(toClient) - 1 : i + 1 \in 1 .. Len(toClient)
  BY <1>t, TailAt
<1>s. \/ /\ m.type = "ANNS" /\ m.key \in Keys /\ m.anns \in Seq(Annotations)
         /\ shown' = [shown EXCEPT ![m.key] = shown[m.key] \o m.anns]
      \/ m.type # "ANNS" /\ shown' = shown
  BY <1>m, ReplyFields DEF Receive
<1>1. m.type = "ANNS" => \A j \in DOMAIN m.anns : m.anns[j].req = r
  BY <1>m DEF Tagged
<1> HIDE DEF m
<1>2. ASSUME NEW k \in Keys, NEW i \in DOMAIN shown'[k] PROVE shown'[k][i].req = r
  <2>1. CASE m.type = "ANNS" /\ m.key = k
    <3>ss. PICK s : s = shown'[k]
      OBVIOUS
    <3>0. shown[k] \in Seq(Annotations) /\ m.anns \in Seq(Annotations)
      BY <1>t, <1>s, <2>1
    <3>1. s = shown[k] \o m.anns
      BY <1>t, <1>s, <2>1, <3>ss
    <3>2. /\ Len(shown[k]) \in Nat /\ Len(m.anns) \in Nat
          /\ DOMAIN shown[k] = 1 .. Len(shown[k]) /\ DOMAIN m.anns = 1 .. Len(m.anns)
      BY <3>0, LenProperties
    <3>3. /\ DOMAIN s = 1 .. Len(shown[k]) + Len(m.anns)
          /\ \A j \in 1 .. Len(shown[k]) + Len(m.anns) :
                s[j] = IF j <= Len(shown[k]) THEN shown[k][j] ELSE m.anns[j - Len(shown[k])]
      <4>1. s \in Seq(Annotations) /\ Len(s) = Len(shown[k]) + Len(m.anns)
        BY <3>0, <3>1, ConcatProperties
      <4>2. QED BY <3>0, <3>1, <4>1, ConcatProperties, LenProperties
    <3>4. i \in 1 .. Len(shown[k]) + Len(m.anns)
      BY <3>ss, <3>3
    <3>5. \/ i <= Len(shown[k]) /\ i \in 1 .. Len(shown[k])
          \/ ~(i <= Len(shown[k])) /\ i - Len(shown[k]) \in 1 .. Len(m.anns)
      BY <3>2, <3>4, Places
    <3>6. s[i] = IF i <= Len(shown[k]) THEN shown[k][i] ELSE m.anns[i - Len(shown[k])]
      BY <3>3, <3>4
    <3>7. s[i].req = r
      BY <1>1, <2>1, <3>2, <3>5, <3>6 DEF Tagged
    <3>8. QED BY <3>ss, <3>7
  <2>2. CASE ~(m.type = "ANNS" /\ m.key = k)
    <3>1. shown'[k] = shown[k]
      BY <1>t, <1>s, <2>2
    <3>2. QED BY <3>1 DEF Tagged
  <2>3. QED BY <2>1, <2>2
<1>3. ASSUME NEW i \in DOMAIN toClient', toClient'[i].type = "ANNS",
             NEW j \in DOMAIN toClient'[i].anns
      PROVE  toClient'[i].anns[j].req = r
  <2>1. toClient'[i] = toClient[i + 1] /\ i + 1 \in DOMAIN toClient
    BY <1>t, <1>m
  <2>2. QED BY <1>3, <2>1 DEF Tagged
<1>4. QED BY <1>2, <1>3 DEF Tagged

LEMMA TaggedShown ==
  ASSUME NEW r, Tagged(r), shown' = NoAnns, toClient' = toClient PROVE Tagged(r)'
BY NoAnnsType DEF Tagged

LEMMA TaggedNothing ==
  ASSUME NEW r, Tagged(r), shown' = shown, toClient' = << >> PROVE Tagged(r)'
BY DEF Tagged

\* Before the first annotation.
LEMMA DeliveryFresh ==
  ASSUME Fresh, toClient = << >>, out = << >> PROVE Delivery
<1>1. ASSUME NEW k \in Keys PROVE \E a, b : Delivers(k, a, b)
  <2>1. shown[k] = << >> /\ due[k] = << >>
    BY <1>1, NoAnnsType DEF Fresh
  <2>2. PICK a : a = [i \in 0 .. 0 |-> 0]
    OBVIOUS
  <2>3. a[0] = 0 /\ Laid(<< >>, k, << >>, a)
    BY <2>2 DEF Laid
  <2>4. Delivers(k, a, a)
    BY <2>1, <2>3 DEF Delivers
  <2>5. QED BY <2>4
<1>2. QED BY <1>1 DEF Delivery

-----------------------------------------------------------------------------
(* From phase to phase.                                                    *)

LEMMA RestingStep ==
  ASSUME DecTypeOK, Ends, Resting, [Next]_vars, ~refused'
  PROVE  Somewhere'
<1>t. toServer \in Seq(Orders) /\ req \in 0 .. MaxRequests /\ first \in 0 .. Total
  BY PhaseTypes
<1>r. /\ link = "up" /\ Idle /\ NoRequest(toServer) /\ upc # "stream"
      /\ upc = "request" => redecoding /\ Fresh
      /\ connected
  BY DEF Resting, Ends
<1>g. PICK r : Tagged(r)
  BY DEF Resting
<1>1. CASE Redecode
  <2>1. Tagged(r)'
    BY <1>1, <1>g, TaggedShown DEF Redecode
  <2>2. Fresh' /\ redecoding'
    BY <1>1 DEF Redecode, Fresh
  <2>3. Idle' /\ link' = "up" /\ NoRequest(toServer)' /\ upc' = "request"
    BY <1>1, <1>r DEF Redecode, Idle
  <2>4. Resting'
    BY <2>1, <2>2, <2>3 DEF Resting
  <2>5. QED BY <2>4 DEF Somewhere
<1>2. CASE SendRequest
  <2>mm. PICK m : m = Msg("REQ", req)
    OBVIOUS
  <2>nn. PICK n : n = Len(toServer) + 1
    OBVIOUS
  <2>1. m \in Orders /\ m.type = "REQ" /\ m.req = req
    BY <1>t, <2>mm DEF Msg, Orders
  <2>2. /\ toServer' = Append(toServer, m) /\ pos' = first /\ upc' = "stream"
        /\ redecoding' = redecoding /\ redecoding /\ Fresh
        /\ UNCHANGED << req, first, fed, link >>
    BY <1>2, <1>r, <2>mm DEF SendRequest, Sent, SendFails
  <2>3. /\ DOMAIN toServer' = 1 .. n /\ toServer'[n] = m /\ n \in 1 .. n /\ n \in Nat
        /\ Len(toServer') = n
        /\ \A i \in 1 .. n : i # n => i \in DOMAIN toServer /\ toServer'[i] = toServer[i]
    BY <1>t, <2>1, <2>2, <2>nn, AppendAt
  <2>4. \A i \in DOMAIN toServer' : i # n => toServer'[i].type # "REQ"
    BY <1>r, <2>3 DEF NoRequest
  <2>5. Sending(n)'
    <3>1. Streams(toServer', n, n, pos', pos')
      BY <2>3, StreamsNone
    <3>2. first' + Len(fed') = pos'
      BY <1>t, <2>2 DEF Fresh
    <3>3. n \in n .. Len(toServer')
      BY <2>3
    <3>4. QED BY <2>3, <3>1, <3>2, <3>3 DEF Sending
  <2>6. Idle' /\ Fresh'
    BY <1>2, <1>r, <2>2 DEF SendRequest, Idle, Fresh
  <2>7. Requested(n)'
    BY <1>r, <2>1, <2>2, <2>3, <2>4, <2>5, <2>6 DEF Requested
  <2>8. QED BY <2>7 DEF Somewhere
<1>3. CASE SendChunk \/ SendEnd
  BY <1>3, <1>r DEF SendChunk, SendEnd
<1>4. CASE HandleCtrl \/ Receive \/ Reply
  BY <1>4, <1>r DEF Idle, HandleCtrl, Receive, Reply
<1>5. CASE ReceiveFails \/ ClientGone \/ Reconnect
  BY <1>5, <1>r DEF ReceiveFails, ClientGone, Reconnect
<1>6. CASE RecvRequest
  BY <1>6, <1>t, <1>r, NoRequestTail DEF RecvRequest, Got
<1>7. CASE RecvData \/ RecvEnd
  <2>1. /\ toServer' = Tail(toServer) /\ toServer # << >> /\ session = 0
        /\ session' = 0 /\ out' = << >>
        /\ UNCHANGED << shown, ctrl, toClient, link, upc, redecoding, fed, due >>
    BY <1>7, <1>r DEF RecvData, RecvEnd, Got, Idle
  <2>2. Tagged(r)'
    BY <1>g, <2>1, TaggedStays
  <2>3. NoRequest(toServer)'
    BY <1>t, <1>r, <2>1, NoRequestTail
  <2>4. Idle' /\ (Fresh => Fresh')
    BY <1>r, <2>1 DEF Idle, Fresh
  <2>5. Resting'
    BY <1>r, <2>1, <2>2, <2>3, <2>4 DEF Resting
  <2>6. QED BY <2>5 DEF Somewhere
<1>8. CASE Lose
  <2>1. Tagged(r)'
    BY <1>8, <1>g, TaggedStays DEF Lose
  <2>2. OldEnds(ctrl, req)' /\ OldEnds(toClient, req)' /\ link' = "down"
    BY <1>8, <1>r DEF Lose, OldEnds, Idle
  <2>3. Lost'
    BY <2>1, <2>2 DEF Lost
  <2>4. QED BY <2>3 DEF Somewhere
<1>9. CASE OtherError
  BY <1>9 DEF OtherError
<1>10. CASE UNCHANGED vars
  <2>1. Tagged(r)'
    BY <1>10, <1>g, TaggedStays
  <2>2. Idle' /\ (Fresh => Fresh')
    BY <1>10, <1>r DEF Idle, Fresh
  <2>3. Resting'
    BY <1>10, <1>r, <2>1, <2>2 DEF Resting
  <2>4. QED BY <2>3 DEF Somewhere
<1>11. QED BY <1>1, <1>2, <1>3, <1>4, <1>5, <1>6, <1>7, <1>8, <1>9, <1>10 DEF Next

LEMMA RequestedStep ==
  ASSUME DecTypeOK, Ends, NEW p, Requested(p), [Next]_vars, ~refused'
  PROVE  Somewhere'
<1>t. toServer \in Seq(Orders) /\ req \in 0 .. MaxRequests
  BY PhaseTypes
<1>r. /\ link = "up" /\ Idle /\ redecoding /\ upc # "request" /\ Fresh /\ connected
      /\ p \in DOMAIN toServer /\ toServer[p].type = "REQ" /\ toServer[p].req = req
      /\ \A i \in DOMAIN toServer : i # p => toServer[i].type # "REQ"
      /\ Sending(p)
  BY DEF Requested, Ends
<1>d. DOMAIN toServer = 1 .. Len(toServer) /\ Len(toServer) \in Nat \ {0} /\ toServer # << >>
  <2>1. toServer # << >>
    BY <1>r
  <2>2. QED BY <1>t, <2>1, TailAt
<1>h. /\ Head(toServer) = toServer[1] /\ Head(toServer) \in Orders
      /\ DOMAIN Tail(toServer) = 1 .. Len(toServer) - 1
      /\ \A i \in 1 .. Len(toServer) - 1 : Tail(toServer)[i] = toServer[i + 1]
  BY <1>t, <1>d, TailAt
<1>i. 1 \in DOMAIN toServer /\ \A i \in 1 .. Len(toServer) - 1 : i + 1 \in DOMAIN toServer
  BY <1>d
<1>1. CASE Redecode \/ SendRequest
  BY <1>1, <1>r DEF Redecode, SendRequest
<1>2. CASE SendChunk \/ SendEnd
  <2>1. /\ Sending(p)' /\ UNCHANGED redecoding /\ upc' # "request"
        /\ \E m \in Orders : m.type # "REQ" /\ toServer' = Append(toServer, m)
    <3>1. p \in 0 .. Len(toServer)
      BY <1>r, <1>d
    <3>2. QED BY <1>2, <1>r, <3>1, SendingGoesOn
  <2>2. PICK m \in Orders : m.type # "REQ" /\ toServer' = Append(toServer, m)
    BY <2>1
  <2>3. /\ DOMAIN toServer' = 1 .. Len(toServer) + 1 /\ toServer'[Len(toServer) + 1] = m
        /\ \A i \in 1 .. Len(toServer) : toServer'[i] = toServer[i]
        /\ \A i \in 1 .. Len(toServer) + 1 : i \in 1 .. Len(toServer) \/ i = Len(toServer) + 1
        /\ 1 .. Len(toServer) \subseteq 1 .. Len(toServer) + 1
    BY <1>t, <2>2, AppendAt
  <2>4. \A i \in DOMAIN toServer' : i # p => toServer'[i].type # "REQ"
    BY <1>r, <1>d, <2>2, <2>3
  <2>5. p \in DOMAIN toServer' /\ toServer'[p] = toServer[p]
    BY <1>r, <1>d, <2>3
  <2>6. Idle' /\ Fresh' /\ UNCHANGED << link, req >>
    BY <1>2, <1>r DEF SendChunk, SendEnd, Idle, Fresh
  <2>7. Requested(p)'
    BY <1>r, <2>1, <2>4, <2>5, <2>6 DEF Requested
  <2>8. QED BY <2>7 DEF Somewhere
<1>3. CASE HandleCtrl \/ Receive \/ Reply
  BY <1>3, <1>r DEF Idle, HandleCtrl, Receive, Reply
<1>4. CASE ReceiveFails \/ ClientGone \/ Reconnect
  BY <1>4, <1>r DEF ReceiveFails, ClientGone, Reconnect
<1>5. CASE RecvRequest
  <2>1. p = 1
    <3>1. toServer[1].type = "REQ"
      BY <1>5, <1>h DEF RecvRequest, Got
    <3>2. QED BY <1>r, <1>i, <3>1
  <2>2. /\ toServer' = Tail(toServer) /\ served' = req /\ out = << >>
        /\ UNCHANGED << ui, rx, toClient, link, ghost >>
    BY <1>5, <1>r, <1>h, <2>1 DEF RecvRequest, Got
  <2>3. \/ \E n \in 0 .. MaxStacks : session' = n + 1 /\ out' = Append(out, Info(n, req))
        \/ session' = 0 /\ out' = Append(out, Msg("ERROR", req))
    BY <1>5, <1>r, <2>2 DEF RecvRequest, Idle
  <2>4. NoRequest(toServer')
    <3>1. ASSUME NEW i \in DOMAIN toServer' PROVE toServer'[i].type # "REQ"
      <4>1. i \in 1 .. Len(toServer) - 1
        BY <1>h, <2>2
      <4>2. i + 1 \in DOMAIN toServer /\ toServer'[i] = toServer[i + 1]
        BY <1>h, <1>i, <2>2, <4>1
      <4>3. i + 1 # p
        BY <2>1, <4>1
      <4>4. QED BY <1>r, <4>2, <4>3
    <3>2. QED BY <3>1 DEF NoRequest
  <2>5. Delivery
    BY <1>r, DeliveryFresh DEF Idle
  <2>6. InStep'
    BY <1>r, <2>2 DEF InStep, Fresh
  <2>7. Sending(0)'
    <3>1. Sending(p - 1)'
      BY <1>r, <2>2, SendingNearer
    <3>2. p - 1 = 0
      BY <2>1
    <3>3. QED BY <3>1, <3>2
  <2>8. CASE \E n \in 0 .. MaxStacks : session' = n + 1 /\ out' = Append(out, Info(n, req))
    <3>1. PICK n \in 0 .. MaxStacks : session' = n + 1 /\ out' = Append(out, Info(n, req))
      BY <2>8
    <3>mm. PICK m : m = Info(n, req)
      OBVIOUS
    <3>2. m \in Notices /\ m.type = "INFO"
      <4>1. 0 .. n - 1 \subseteq 0 .. MaxStacks - 1
        BY SizesAssumption
      <4>2. QED BY <1>t, <3>mm, <4>1 DEF Info, Notices, Keys
    <3>3. Delivery'
      BY <2>2, <2>5, <3>1, <3>mm, <3>2, DeliveryNotice
    <3>4. NoAnswer(out')
      BY <2>2, <3>1, <3>mm, <3>2 DEF NoAnswer, IsAnswer
    <3>5. NoAnswer(ctrl') /\ NoAnswer(toClient') /\ session' # 0
      BY <1>r, <2>2, <3>1 DEF Idle, NoAnswer
    <3>6. Decoding'
      BY <1>r, <2>2, <2>4, <2>6, <2>7, <3>3, <3>4, <3>5 DEF Decoding
    <3>7. QED BY <3>6 DEF Somewhere
  <2>9. CASE session' = 0 /\ out' = Append(out, Msg("ERROR", req))
    <3>mm. PICK m : m = Msg("ERROR", req)
      OBVIOUS
    <3>2. m \in Notices /\ m.type = "ERROR" /\ m \in Replies
      BY <1>t, <3>mm DEF Msg, Notices, Replies
    <3>3. Delivery'
      BY <2>2, <2>5, <2>9, <3>mm, <3>2, DeliveryNotice
    <3>4. AnswerIn(out)'
      <4>1. out \in Seq(Replies) /\ NoAnswer(out) /\ IsAnswer(m)
        BY <2>2, <3>2 DEF NoAnswer, IsAnswer
      <4>2. AnswerLast(out') /\ out'[Len(out')] = m
        BY <2>9, <3>mm, <3>2, <4>1, AnswerAppend
      <4>3. QED BY <3>2, <4>2 DEF AnswerIn
    <3>5. NoAnswer(ctrl') /\ NoAnswer(toClient')
      BY <1>r, <2>2 DEF Idle, NoAnswer
    <3>6. Answered'
      BY <1>r, <2>2, <2>4, <2>9, <3>3, <3>4, <3>5 DEF Answered
    <3>7. QED BY <3>6 DEF Somewhere
  <2>10. QED BY <2>3, <2>8, <2>9
<1>6. CASE RecvData \/ RecvEnd
  <2>1. /\ toServer' = Tail(toServer) /\ session' = 0 /\ out' = << >>
        /\ UNCHANGED << ui, rx, toClient, link, fed, due >>
        /\ Head(toServer).type # "REQ"
    BY <1>6, <1>r DEF RecvData, RecvEnd, Got, Idle
  <2>2. p \in Nat /\ p # 1 /\ p - 1 \in DOMAIN toServer' /\ toServer'[p - 1] = toServer[p]
    <3>1. p # 1
      BY <1>r, <1>h, <2>1
    <3>2. p - 1 \in 1 .. Len(toServer) - 1 /\ p - 1 + 1 = p /\ p \in Nat
      BY <1>r, <1>d, <3>1
    <3>3. QED BY <1>h, <2>1, <3>1, <3>2
  <2>3. ASSUME NEW i \in DOMAIN toServer', i # p - 1 PROVE toServer'[i].type # "REQ"
    <3>1. i \in 1 .. Len(toServer) - 1
      BY <1>h, <2>1
    <3>2. i + 1 \in DOMAIN toServer /\ toServer'[i] = toServer[i + 1]
      BY <1>h, <1>i, <2>1, <3>1
    <3>3. i + 1 # p
      BY <2>2, <2>3, <3>1
    <3>4. QED BY <1>r, <3>2, <3>3
  <2>4. Sending(p - 1)'
    BY <1>r, <2>1, SendingNearer
  <2>5. Idle' /\ Fresh'
    BY <1>r, <2>1 DEF Idle, Fresh
  <2>6. Requested(p - 1)'
    BY <1>r, <2>1, <2>2, <2>3, <2>4, <2>5 DEF Requested
  <2>7. QED BY <2>6 DEF Somewhere
<1>7. CASE Lose
  <2>1. Tagged(0)'
    BY <1>7, <1>r, NoAnnsType DEF Lose, Tagged, Fresh, Idle
  <2>2. OldEnds(ctrl, req)' /\ OldEnds(toClient, req)' /\ link' = "down"
    BY <1>7, <1>r DEF Lose, OldEnds, Idle
  <2>3. Lost'
    BY <2>1, <2>2 DEF Lost
  <2>4. QED BY <2>3 DEF Somewhere
<1>8. CASE OtherError
  BY <1>8 DEF OtherError
<1>9. CASE UNCHANGED vars
  <2>1. Sending(p)'
    BY <1>9, <1>r, SendingStays
  <2>2. Idle' /\ Fresh'
    BY <1>9, <1>r DEF Idle, Fresh
  <2>3. Requested(p)'
    BY <1>9, <1>r, <2>1, <2>2 DEF Requested
  <2>4. QED BY <2>3 DEF Somewhere
<1>10. QED BY <1>1, <1>2, <1>3, <1>4, <1>5, <1>6, <1>7, <1>8, <1>9 DEF Next

LEMMA DecodingStep ==
  ASSUME DecTypeOK, Ends, Numbered, Decoding, [Next]_vars, ~refused'
  PROVE  Somewhere'
<1>t. /\ toServer \in Seq(Orders) /\ toClient \in Seq(Replies) /\ out \in Seq(Replies)
      /\ ctrl \in Seq(Notices) /\ req \in 0 .. MaxRequests /\ served \in 0 .. MaxRequests
      /\ first \in Nat /\ fed \in Seq(Nat) /\ Len(fed) \in Nat
  BY PhaseTypes, LenProperties
<1>r. /\ link = "up" /\ session # 0 /\ served = req /\ redecoding /\ upc # "request"
      /\ NoRequest(toServer) /\ NoAnswer(ctrl) /\ NoAnswer(toClient) /\ NoAnswer(out)
      /\ InStep /\ Sending(0) /\ Delivery /\ connected /\ anns = NoAnns
  BY DEF Decoding, Ends
<1>1. CASE Redecode \/ SendRequest
  BY <1>1, <1>r DEF Redecode, SendRequest
<1>2. CASE SendChunk \/ SendEnd
  <2>1. /\ Sending(0)' /\ UNCHANGED redecoding /\ upc' # "request"
        /\ \E m \in Orders : m.type # "REQ" /\ toServer' = Append(toServer, m)
    <3>1. 0 \in 0 .. Len(toServer)
      BY <1>t, LenProperties
    <3>2. QED BY <1>2, <1>r, <3>1, SendingGoesOn
  <2>2. NoRequest(toServer')
    BY <1>t, <1>r, <2>1, NoRequestAppend
  <2>u. UNCHANGED << shown, due, toClient, out, req, ctrl, session, served, link, fed, first >>
    BY <1>2 DEF SendChunk, SendEnd
  <2>3. Delivery' /\ InStep'
    BY <1>r, <2>u, DeliveryStays DEF InStep
  <2>4. Decoding'
    BY <1>r, <2>1, <2>2, <2>3, <2>u DEF Decoding
  <2>5. QED BY <2>4 DEF Somewhere
<1>3. CASE HandleCtrl
  <2>1. NoAnswer(Tail(ctrl)) /\ ~IsAnswer(Head(ctrl)) /\ Head(ctrl) \in Notices
    BY <1>3, <1>t, <1>r, NoAnswerTail, TailAt DEF HandleCtrl
  <2>2. Head(ctrl).type = "INFO"
    BY <2>1, NoticeFields DEF IsAnswer
  <2>3. /\ redecoding' /\ ctrl' = Tail(ctrl)
        /\ UNCHANGED << shown, due, toClient, out, req, session, served, link, fed, first,
                        toServer, pos, upc >>
    BY <1>3, <1>r, <2>2 DEF HandleCtrl
  <2>4. Delivery' /\ InStep' /\ Sending(0)'
    BY <1>r, <2>3, DeliveryStays, SendingStays DEF InStep
  <2>5. Decoding'
    BY <1>r, <2>1, <2>3, <2>4 DEF Decoding
  <2>6. QED BY <2>5 DEF Somewhere
<1>4. CASE Receive
  <2>1. /\ NoAnswer(Tail(toClient)) /\ ~IsAnswer(Head(toClient)) /\ Head(toClient) \in Replies
        /\ toClient' = Tail(toClient)
        /\ UNCHANGED << ui, server, toServer, link, ghost >>
    BY <1>4, <1>t, <1>r, NoAnswerTail, TailAt DEF Receive
  <2>2. NoAnswer(ctrl')
    <3>1. CASE Head(toClient).type = "ANNS"
      BY <1>4, <1>r, <3>1 DEF Receive
    <3>2. CASE Head(toClient).type # "ANNS"
      <4>1. ctrl' = Append(ctrl, Head(toClient)) /\ Head(toClient) \in Notices
        BY <1>4, <2>1, <3>2, ReplyFields DEF Receive
      <4>2. QED BY <1>t, <1>r, <2>1, <4>1, NoAnswerAppend
    <3>3. QED BY <3>1, <3>2
  <2>3. Delivery' /\ InStep' /\ Sending(0)'
    BY <1>4, <1>r, <2>1, DeliveryReceive, SendingStays DEF InStep
  <2>4. Decoding'
    BY <1>r, <2>1, <2>2, <2>3 DEF Decoding
  <2>5. QED BY <2>4 DEF Somewhere
<1>5. CASE ReceiveFails \/ ClientGone \/ Reconnect
  BY <1>5, <1>r DEF ReceiveFails, ClientGone, Reconnect
<1>6. CASE Reply
  <2>1. /\ out # << >> /\ NoAnswer(Tail(out)) /\ ~IsAnswer(Head(out)) /\ Head(out) \in Replies
        /\ toClient' = Append(toClient, Head(out)) /\ out' = Tail(out)
        /\ UNCHANGED << ui, rx, session, served, anns, spc, toServer, link, ghost >>
    BY <1>6, <1>t, <1>r, NoAnswerTail, TailAt DEF Reply
  <2>2. NoAnswer(toClient')
    BY <1>t, <1>r, <2>1, NoAnswerAppend
  <2>3. Delivery' /\ InStep' /\ Sending(0)'
    BY <1>r, <2>1, DeliveryReply, SendingStays DEF InStep
  <2>4. Decoding'
    BY <1>r, <2>1, <2>2, <2>3 DEF Decoding
  <2>5. QED BY <2>4 DEF Somewhere
<1>7. CASE RecvRequest
  BY <1>7, <1>t, <1>r, NoRequestTail DEF RecvRequest, Got
<1>8. CASE RecvData
  <2> DEFINE m == Head(toServer)
  <2>1. /\ m \in Orders /\ m = toServer[1] /\ toServer # << >> /\ m.type = "DATA"
        /\ toServer' = Tail(toServer) /\ NoRequest(toServer') /\ out = << >>
        /\ UNCHANGED << ui, rx, session, served, toClient, link >>
    BY <1>8, <1>t, <1>r, TailAt, NoRequestTail DEF RecvData, Got
  <2>2. m.from \in 0 .. Total /\ m.n \in Nat
    BY <2>1, OrderFields, SizesAssumption
  <2>3. PICK y \in Yields :
           LET more == Made(y, m.from)
               vecs == [k \in Keys |-> anns[k] \o more[k]]
           IN  /\ Flush(vecs)
               /\ fed' = fed \o [i \in 1 .. m.n |-> m.from + i - 1]
               /\ due' = [k \in Keys |-> due[k] \o Held(more[k])]
    BY <1>8, <1>r DEF RecvData
  <2>mm. PICK more : more = Made(y, m.from)
    OBVIOUS
  <2>4. /\ out' \in Batches([k \in Keys |-> anns[k] \o more[k]])
        /\ fed' = fed \o [i \in 1 .. m.n |-> m.from + i - 1]
        /\ due' = [k \in Keys |-> due[k] \o Held(more[k])]
    BY <2>3, <2>mm DEF Flush
  <2> HIDE DEF m
  <2>5. /\ more \in [Keys -> Seq(Annotations)]
        /\ \A k \in Keys : \A i \in DOMAIN more[k] : more[k][i].req = served
    BY <1>t, <2>2, <2>mm, MadeAre
  <2>6. [k \in Keys |-> anns[k] \o more[k]] = more
    <3>1. \A k \in Keys : anns[k] \o more[k] = more[k]
      BY <1>r, <2>5, NoAnnsType
    <3>2. QED BY <2>5, <3>1
  <2>7. Delivery'
    BY <1>r, <2>1, <2>4, <2>5, <2>6, DeliveryData
  <2>ff. PICK f : f = [i \in 1 .. m.n |-> m.from + i - 1]
    OBVIOUS
  <2>8. /\ f \in Seq(Nat) /\ Len(f) = m.n
        /\ \A i \in 1 .. m.n : f[i] = m.from + i - 1
    <3>1. \A i \in 1 .. m.n : m.from + i - 1 \in Nat
      BY <2>2
    <3>2. f \in [1 .. m.n -> Nat]
      BY <2>ff, <3>1
    <3>3. QED BY <2>2, <2>ff, <3>2, FunctionIsSeq
  <2>gg. PICK g : g = fed'
    OBVIOUS
  <2>9. /\ Len(g) = Len(fed) + m.n
        /\ \A i \in 1 .. Len(fed) + m.n :
              g[i] = IF i <= Len(fed) THEN fed[i] ELSE f[i - Len(fed)]
    <3>1. g = fed \o f /\ fed \in Seq(Nat) /\ f \in Seq(Nat)
      BY <1>t, <2>4, <2>ff, <2>8, <2>gg
    <3>2. /\ Len(fed \o f) = Len(fed) + Len(f)
          /\ \A i \in 1 .. Len(fed) + Len(f) :
                (fed \o f)[i] = IF i <= Len(fed) THEN fed[i] ELSE f[i - Len(fed)]
      BY <3>1, ConcatProperties
    <3>3. QED BY <2>8, <3>1, <3>2
  <2>10. m.from = first + Len(fed) /\ Sending(0)'
    BY <1>r, <2>1, <2>9, <2>gg, SendingFed
  <2>11. InStep'
    <3>1. ASSUME NEW i \in 1 .. Len(g) PROVE g[i] = first + i - 1
      <4>0. i \in 1 .. Len(fed) + m.n
        BY <2>9
      <4>1. g[i] = IF i <= Len(fed) THEN fed[i] ELSE f[i - Len(fed)]
        BY <2>9, <4>0
      <4>2. CASE i <= Len(fed)
        <5>1. i \in 1 .. Len(fed)
          BY <1>t, <4>0, <4>2
        <5>2. QED BY <1>r, <4>1, <4>2, <5>1 DEF InStep
      <4>3. CASE ~(i <= Len(fed))
        <5>1. i - Len(fed) \in 1 .. m.n
          BY <1>t, <2>2, <4>0, <4>3
        <5>2. g[i] = m.from + (i - Len(fed)) - 1
          BY <2>8, <4>1, <4>3, <5>1
        <5>3. QED BY <1>t, <2>10, <5>2, <4>0
      <4>4. QED BY <4>2, <4>3
    <3>2. first' = first
      BY <2>1
    <3>3. QED BY <2>gg, <3>1, <3>2 DEF InStep
  <2>12. NoAnswer(out')
    <3>1. \A i \in DOMAIN out' : out'[i].type = "ANNS"
      BY <1>t, <2>4, <2>5, <2>6, BatchesAre, ZenonT(40)
    <3>2. QED BY <3>1 DEF NoAnswer, IsAnswer
  <2>13. Decoding'
    BY <1>r, <2>1, <2>7, <2>10, <2>11, <2>12 DEF Decoding
  <2>14. QED BY <2>13 DEF Somewhere
<1>9. CASE RecvEnd
  <2>1. /\ toServer[1].type = "END" /\ toServer # << >> /\ out = << >>
        /\ toServer' = Tail(toServer) /\ NoRequest(toServer') /\ session' = 0
        /\ out' \in Ended
        /\ UNCHANGED << ui, rx, served, toClient, link, ghost >>
    BY <1>9, <1>t, <1>r, TailAt, NoRequestTail DEF RecvEnd, Got
  <2>mm. PICK m : m = Msg("END", served)
    OBVIOUS
  <2>2. m \in Notices /\ m \in Replies /\ m.type = "END"
    BY <1>t, <2>mm DEF Msg, Notices, Replies
  <2>3. PICK b \in Batches(anns) : out' = Append(b, m)
    BY <2>1, <2>mm DEF Ended
  <2>4. out' = Append(out, m)
    BY <1>t, <1>r, <2>1, <2>3, NothingToFlush
  <2>5. Delivery'
    BY <1>r, <2>1, <2>2, <2>4, DeliveryNotice
  <2>6. Whole'
    <3>1. Whole
      BY <1>r, <2>1, SendingOver
    <3>2. QED BY <2>1, <3>1 DEF Whole, InStep
  <2>7. AnswerIn(out)'
    <3>1. AnswerLast(out')
      BY <1>t, <1>r, <2>2, <2>4, AnswerAppend DEF IsAnswer
    <3>2. QED BY <2>6, <3>1 DEF AnswerIn
  <2>8. Answered'
    BY <1>r, <2>1, <2>5, <2>7 DEF Answered
  <2>9. QED BY <2>8 DEF Somewhere
<1>10. CASE Lose
  <2>1. Tagged(req)
    BY <1>r, DeliveryTags
  <2>2. PICK r : r = req
    OBVIOUS
  <2>3. Tagged(r)'
    BY <1>10, <2>1, <2>2, TaggedStays DEF Lose
  <2>4. OldEnds(ctrl', req') /\ OldEnds(toClient', req') /\ link' = "down"
    BY <1>10, <1>r, NoAnswerOld DEF Lose
  <2>5. Lost'
    BY <2>3, <2>4 DEF Lost
  <2>6. QED BY <2>5 DEF Somewhere
<1>11. CASE OtherError
  BY <1>11 DEF OtherError
<1>12. CASE UNCHANGED vars
  <2>1. Delivery' /\ Sending(0)' /\ InStep'
    BY <1>12, <1>r, DeliveryStays, SendingStays DEF InStep
  <2>2. Decoding'
    BY <1>12, <1>r, <2>1 DEF Decoding
  <2>3. QED BY <2>2 DEF Somewhere
<1>13. QED BY <1>1, <1>2, <1>3, <1>4, <1>5, <1>6, <1>7, <1>8, <1>9, <1>10, <1>11, <1>12 DEF Next

LEMMA AnsweredStep ==
  ASSUME DecTypeOK, Ends, Numbered, Answered, [Next]_vars, ~refused'
  PROVE  Somewhere'
<1>t. /\ toServer \in Seq(Orders) /\ toClient \in Seq(Replies) /\ out \in Seq(Replies)
      /\ ctrl \in Seq(Notices) /\ req \in 0 .. MaxRequests /\ link \in {"up", "down"}
  BY PhaseTypes
<1>r. /\ session = 0 /\ (link = "up" => redecoding /\ connected) /\ upc # "request"
      /\ NoRequest(toServer) /\ Delivery
      /\ ~connected => toClient = << >>
  BY DEF Answered, Ends
<1>q. \/ AnswerIn(ctrl) /\ toClient = << >> /\ out = << >>
      \/ NoAnswer(ctrl) /\ AnswerIn(toClient) /\ out = << >>
      \/ link = "up" /\ NoAnswer(ctrl) /\ NoAnswer(toClient) /\ AnswerIn(out)
  BY DEF Answered
<1>w. UNCHANGED << first, fed >> => Whole' = Whole
  BY DEF Whole, InStep
<1>s. ASSUME UNCHANGED << shown, ctrl, toClient, out, req, first, fed, due >>,
             session' = 0, link' = "up" => redecoding' /\ link = "up", upc' # "request",
             NoRequest(toServer')
      PROVE  Somewhere'
  <2>1. /\ AnswerIn(ctrl) => AnswerIn(ctrl)'
        /\ AnswerIn(toClient) => AnswerIn(toClient)'
        /\ AnswerIn(out) => AnswerIn(out)'
    BY <1>s, <1>w DEF AnswerIn
  <2>2. Delivery'
    BY <1>r, <1>s, DeliveryStays
  <2>3. CASE link' = link \/ link = "down"
    <3>1. Answered'
      BY <1>q, <1>s, <2>1, <2>2, <2>3 DEF Answered
    <3>2. QED BY <3>1 DEF Somewhere
  <2>4. CASE link' # link /\ link = "up" /\ ~AnswerIn(out)
    <3>1. Answered'
      BY <1>q, <1>s, <2>1, <2>2, <2>4 DEF Answered
    <3>2. QED BY <3>1 DEF Somewhere
  <2>5. CASE link' # link /\ link = "up" /\ AnswerIn(out) /\ link' = "down"
    <3>0. out # << >>
      BY <2>5 DEF AnswerIn, AnswerLast
    <3>1. OldEnds(ctrl, req)' /\ OldEnds(toClient, req)'
      BY <1>q, <1>s, <3>0, NoAnswerOld
    <3>2. PICK r : r = req
      OBVIOUS
    <3>3. Tagged(r)
      BY <1>r, <3>2, DeliveryTags
    <3>4. Tagged(r)'
      BY <1>s, <3>3, TaggedStays
    <3>5. Lost'
      BY <2>5, <3>1, <3>4 DEF Lost
    <3>6. QED BY <3>5 DEF Somewhere
  <2>6. link' \in {"up", "down"} => Somewhere'
    BY <1>t, <2>3, <2>4, <2>5
  <2>7. DecTypeOK'
    BY UiKeepsTypes, RxKeepsTypes, ServerKeepsTypes, EnvironmentKeepsTypes DEF Next
  <2>8. link' \in {"up", "down"}
    BY <2>7 DEF DecTypeOK, WireTypes
  <2>9. QED BY <2>6, <2>8
<1>1. CASE Redecode
  <2>1. link = "down"
    BY <1>1, <1>r, <1>t DEF Redecode
  <2>2. /\ OldEnds(ctrl, req + 1) /\ OldEnds(toClient, req + 1)
    <3>1. /\ \A i \in DOMAIN ctrl : ctrl[i].req \in Nat
          /\ \A i \in DOMAIN toClient : toClient[i].req \in Nat
      BY <1>t, NoticeFields, ReplyFields, SizesAssumption
    <3>2. UpTo(ctrl, req) /\ UpTo(toClient, req) /\ req \in Nat
      BY <1>t DEF Numbered
    <3>3. QED BY <3>1, <3>2, NextOld
  <2>3. PICK r : r = req
    OBVIOUS
  <2>4. Tagged(r)'
    <3>1. Tagged(r)
      BY <1>r, <2>3, DeliveryTags
    <3>2. QED BY <1>1, <3>1, TaggedShown DEF Redecode
  <2>5. Lost'
    BY <1>1, <2>1, <2>2, <2>4 DEF Lost, Redecode
  <2>6. QED BY <2>5 DEF Somewhere
<1>2. CASE SendRequest
  BY <1>2, <1>r DEF SendRequest
<1>3. CASE SendChunk
  <2>1. NoRequest(toServer')
    <3>1. CASE toServer' = toServer
      BY <1>r, <3>1
    <3>2. CASE toServer' # toServer
      <4> DEFINE n == IF pos + Chunk > Total THEN Total - pos ELSE Chunk
      <4>mm. PICK m : m = Data(req, pos, n)
        OBVIOUS
      <4>0. n \in 0 .. Total /\ pos \in 0 .. Total
        BY <1>3, PhaseTypes, SizesAssumption DEF SendChunk
      <4>1. m \in Orders /\ m.type = "DATA"
        BY <1>t, <4>0, <4>mm DEF Data, Orders
      <4>2. toServer' = Append(toServer, m)
        BY <1>3, <3>2, <4>mm DEF SendChunk, Sent, SendFails
      <4>3. QED BY <1>t, <1>r, <4>1, <4>2, NoRequestAppend
    <3>3. QED BY <3>1, <3>2
  <2>2. /\ UNCHANGED << shown, ctrl, toClient, out, req, first, fed, due, session, link >>
        /\ upc' # "request" /\ (link = "up" => redecoding' = redecoding)
    BY <1>3, <1>r DEF SendChunk, Sent, SendFails, GiveUp
  <2>3. QED BY <1>s, <1>r, <2>1, <2>2
<1>4. CASE SendEnd
  <2>1. NoRequest(toServer')
    <3>1. Msg("END", req) \in Orders /\ Msg("END", req).type = "END"
      BY <1>t DEF Msg, Orders
    <3>2. QED BY <1>4, <1>t, <1>r, <3>1, NoRequestAppend DEF SendEnd, Sent, SendFails
  <2>2. /\ UNCHANGED << shown, ctrl, toClient, out, req, first, fed, due, session, link >>
        /\ upc' # "request" /\ redecoding' = redecoding
    BY <1>4 DEF SendEnd
  <2>3. QED BY <1>s, <1>r, <2>1, <2>2
<1>5. CASE HandleCtrl
  <2>1. /\ ctrl # << >> /\ ctrl' = Tail(ctrl) /\ upc' = "frame"
        /\ redecoding' = (redecoding /\ Head(ctrl).type = "INFO")
        /\ UNCHANGED << shown, toClient, out, req, first, fed, due, session, link, toServer >>
    BY <1>5 DEF HandleCtrl
  <2>2. Delivery'
    BY <1>r, <2>1, DeliveryStays
  <2>3. CASE AnswerIn(ctrl) /\ toClient = << >> /\ out = << >>
    <3>0. AnswerLast(ctrl)
      BY <2>3 DEF AnswerIn
    <3>1. CASE Tail(ctrl) = << >> /\ IsAnswer(Head(ctrl))
      <4>1. PICK r : r = req
        OBVIOUS
      <4>2. Tagged(r)'
        <5>1. Tagged(r)
          BY <1>r, <4>1, DeliveryTags
        <5>2. QED BY <2>1, <5>1, TaggedStays
      <4>3. CASE link = "up"
        <5>1. Idle' /\ NoRequest(toServer)' /\ link' = "up"
          BY <1>r, <2>1, <2>3, <3>1, <4>3 DEF Idle
        <5>2. Resting'
          BY <2>1, <4>2, <5>1 DEF Resting
        <5>3. QED BY <5>2 DEF Somewhere
      <4>4. CASE link = "down"
        <5>1. OldEnds(ctrl, req)' /\ OldEnds(toClient, req)'
          BY <2>1, <2>3, <3>1 DEF OldEnds
        <5>2. Lost'
          BY <2>1, <4>2, <4>4, <5>1 DEF Lost
        <5>3. QED BY <5>2 DEF Somewhere
      <4>5. QED BY <1>t, <4>3, <4>4
    <3>2. CASE /\ AnswerLast(Tail(ctrl)) /\ ~IsAnswer(Head(ctrl))
               /\ Tail(ctrl)[Len(Tail(ctrl))] = ctrl[Len(ctrl)]
      <4>1. AnswerIn(ctrl)'
        BY <1>w, <2>1, <2>3, <3>2 DEF AnswerIn
      <4>2. Head(ctrl).type = "INFO"
        BY <1>t, <2>1, <3>2, TailAt, NoticeFields DEF IsAnswer
      <4>3. Answered'
        BY <1>r, <2>1, <2>2, <2>3, <4>1, <4>2 DEF Answered
      <4>4. QED BY <4>3 DEF Somewhere
    <3>3. QED BY <1>t, <3>0, <3>1, <3>2, AnswerTail
  <2>4. CASE NoAnswer(ctrl)
    <3>1. NoAnswer(ctrl') /\ Head(ctrl).type = "INFO"
      <4>1. NoAnswer(Tail(ctrl)) /\ ~IsAnswer(Head(ctrl)) /\ Head(ctrl) \in Notices
        BY <1>t, <2>1, <2>4, NoAnswerTail, TailAt
      <4>2. QED BY <2>1, <4>1, NoticeFields DEF IsAnswer
    <3>2. /\ AnswerIn(toClient) => AnswerIn(toClient)'
          /\ AnswerIn(out) => AnswerIn(out)'
      BY <1>w, <2>1 DEF AnswerIn
    <3>3. CASE AnswerIn(ctrl)
      BY <2>3, <3>3, <1>q, <2>4 DEF AnswerIn, AnswerLast, NoAnswer
    <3>4. CASE ~AnswerIn(ctrl)
      <4>1. Answered'
        BY <1>q, <1>r, <2>1, <2>2, <3>1, <3>2, <3>4 DEF Answered
      <4>2. QED BY <4>1 DEF Somewhere
    <3>5. QED BY <3>3, <3>4
  <2>5. QED BY <1>q, <2>3, <2>4
<1>6. CASE Receive
  <2>1. /\ toClient # << >> /\ toClient' = Tail(toClient) /\ Head(toClient) \in Replies
        /\ UNCHANGED << ui, server, toServer, link, ghost >>
    BY <1>6, <1>t, TailAt DEF Receive
  <2>2. Delivery'
    BY <1>6, <1>r, DeliveryReceive
  <2>3. NoAnswer(ctrl)
    BY <1>q, <2>1
  <2>4. CASE ~IsAnswer(Head(toClient))
    <3>1. NoAnswer(ctrl')
      <4>1. CASE Head(toClient).type = "ANNS"
        BY <1>6, <2>3, <4>1 DEF Receive
      <4>2. CASE Head(toClient).type # "ANNS"
        <5>1. ctrl' = Append(ctrl, Head(toClient)) /\ Head(toClient) \in Notices
          BY <1>6, <2>1, <4>2, ReplyFields DEF Receive
        <5>2. QED BY <1>t, <2>3, <2>4, <5>1, NoAnswerAppend
      <4>3. QED BY <4>1, <4>2
    <3>2. CASE AnswerIn(toClient) /\ out = << >>
      <4>1. /\ AnswerLast(Tail(toClient))
            /\ Tail(toClient)[Len(Tail(toClient))] = toClient[Len(toClient)]
        BY <1>t, <2>4, <3>2, AnswerTail DEF AnswerIn
      <4>2. AnswerIn(toClient)'
        BY <1>w, <2>1, <3>2, <4>1 DEF AnswerIn
      <4>3. Answered'
        BY <1>r, <2>1, <2>2, <3>1, <3>2, <4>2 DEF Answered
      <4>4. QED BY <4>3 DEF Somewhere
    <3>3. CASE link = "up" /\ NoAnswer(toClient) /\ AnswerIn(out)
      <4>1. NoAnswer(toClient')
        BY <1>t, <2>1, <3>3, NoAnswerTail
      <4>2. AnswerIn(out)'
        BY <1>w, <2>1, <3>3 DEF AnswerIn
      <4>3. Answered'
        BY <1>r, <2>1, <2>2, <3>1, <3>3, <4>1, <4>2 DEF Answered
      <4>4. QED BY <4>3 DEF Somewhere
    <3>4. QED BY <1>q, <2>1, <3>2, <3>3
  <2>5. CASE IsAnswer(Head(toClient))
    <3>1. AnswerIn(toClient) /\ out = << >>
      <4>1. ~NoAnswer(toClient)
        BY <1>t, <2>1, <2>5, NoAnswerTail
      <4>2. QED BY <1>q, <2>1, <4>1
    <3>2. Tail(toClient) = << >> /\ Head(toClient) = toClient[Len(toClient)]
      BY <1>t, <2>5, <3>1, AnswerTail DEF AnswerIn
    <3>3. /\ Head(toClient).type # "ANNS" /\ Head(toClient) \in Notices
          /\ ctrl' = Append(ctrl, Head(toClient))
      <4>1. Head(toClient).type # "ANNS"
        BY <2>5 DEF IsAnswer
      <4>2. QED BY <1>6, <2>1, <4>1, ReplyFields DEF Receive
    <3>4. AnswerLast(ctrl') /\ ctrl'[Len(ctrl')] = Head(toClient)
      BY <1>t, <2>3, <2>5, <3>3, AnswerAppend
    <3>5. AnswerIn(ctrl)'
      BY <1>w, <2>1, <3>1, <3>2, <3>4 DEF AnswerIn
    <3>6. Answered'
      BY <1>r, <2>1, <2>2, <3>1, <3>2, <3>5 DEF Answered
    <3>7. QED BY <3>6 DEF Somewhere
  <2>6. QED BY <2>4, <2>5
<1>7. CASE ReceiveFails
  <2>1. /\ link = "down" /\ link' = "down" /\ toClient' = << >>
        /\ UNCHANGED << ui, shown, ctrl, server, toServer, ghost >>
    BY <1>7 DEF ReceiveFails
  <2>2. CASE toClient = << >>
    BY <1>s, <1>r, <2>1, <2>2
  <2>3. CASE toClient # << >>
    <3>1. OldEnds(ctrl, req)' /\ OldEnds(toClient, req)'
      BY <1>q, <2>1, <2>3, NoAnswerOld DEF OldEnds
    <3>2. PICK r : r = req
      OBVIOUS
    <3>3. Tagged(r)
      BY <1>r, <3>2, DeliveryTags
    <3>4. Tagged(r)'
      BY <2>1, <3>3, TaggedNothing
    <3>5. Lost'
      BY <2>1, <3>1, <3>4 DEF Lost
    <3>6. QED BY <3>5 DEF Somewhere
  <2>4. QED BY <2>2, <2>3
<1>8. CASE Reply
  <2>1. /\ link = "up" /\ NoAnswer(ctrl) /\ NoAnswer(toClient) /\ AnswerIn(out)
        /\ out # << >> /\ Head(out) \in Replies
        /\ toClient' = Append(toClient, Head(out)) /\ out' = Tail(out)
        /\ UNCHANGED << ui, rx, session, served, anns, spc, toServer, link, ghost >>
    BY <1>8, <1>t, <1>q, TailAt DEF Reply
  <2>2. Delivery'
    BY <1>r, <2>1, DeliveryReply
  <2>3. CASE Tail(out) = << >> /\ IsAnswer(Head(out)) /\ Head(out) = out[Len(out)]
    <3>1. AnswerLast(toClient') /\ toClient'[Len(toClient')] = Head(out)
      BY <1>t, <2>1, <2>3, AnswerAppend
    <3>2. AnswerIn(toClient)'
      BY <1>w, <2>1, <2>3, <3>1 DEF AnswerIn
    <3>3. Answered'
      BY <1>r, <2>1, <2>2, <2>3, <3>2 DEF Answered
    <3>4. QED BY <3>3 DEF Somewhere
  <2>4. CASE /\ AnswerLast(Tail(out)) /\ ~IsAnswer(Head(out))
             /\ Tail(out)[Len(Tail(out))] = out[Len(out)]
    <3>1. NoAnswer(toClient')
      BY <1>t, <2>1, <2>4, NoAnswerAppend
    <3>2. AnswerIn(out)'
      BY <1>w, <2>1, <2>4 DEF AnswerIn
    <3>3. Answered'
      BY <1>r, <2>1, <2>2, <3>1, <3>2 DEF Answered
    <3>4. QED BY <3>3 DEF Somewhere
  <2>5. AnswerLast(out)
    BY <2>1 DEF AnswerIn
  <2>6. QED BY <1>t, <2>3, <2>4, <2>5, AnswerTail
<1>9. CASE RecvRequest
  BY <1>9, <1>t, <1>r, NoRequestTail DEF RecvRequest, Got
<1>10. CASE RecvData \/ RecvEnd
  <2>1. /\ toServer # << >> /\ toServer' = Tail(toServer) /\ out = << >> /\ out' = << >>
        /\ session' = 0
        /\ UNCHANGED << ui, rx, toClient, link, fed, due >>
    BY <1>10, <1>r DEF RecvData, RecvEnd, Got
  <2>2. NoRequest(toServer')
    BY <1>t, <1>r, <2>1, NoRequestTail
  <2>3. QED BY <1>s, <1>r, <2>1, <2>2
<1>11. CASE ClientGone
  <2>1. /\ NoRequest(toServer') /\ session' = 0
        /\ UNCHANGED << ui, rx, out, toClient, link, ghost >>
    BY <1>11 DEF ClientGone, NoRequest
  <2>2. QED BY <1>s, <1>r, <2>1
<1>12. CASE Lose
  BY <1>12, <1>s, <1>r DEF Lose
<1>13. CASE Reconnect
  BY <1>13, <1>q, <1>r DEF Reconnect, AnswerIn, AnswerLast
<1>14. CASE OtherError
  BY <1>14 DEF OtherError
<1>15. CASE UNCHANGED vars
  BY <1>15, <1>s, <1>r
<1>16. QED BY <1>1, <1>2, <1>3, <1>4, <1>5, <1>6, <1>7, <1>8, <1>9, <1>10, <1>11, <1>12, <1>13,
              <1>14, <1>15 DEF Next

LEMMA LostStep ==
  ASSUME DecTypeOK, Ends, Numbered, Lost, [Next]_vars, ~refused'
  PROVE  Somewhere'
<1>t. /\ toClient \in Seq(Replies) /\ ctrl \in Seq(Notices) /\ req \in 0 .. MaxRequests
  BY PhaseTypes
<1>r. link = "down" /\ OldEnds(ctrl, req) /\ OldEnds(toClient, req)
  BY DEF Lost
<1>g. PICK r : Tagged(r)
  BY DEF Lost
<1>s. ASSUME UNCHANGED << shown, ctrl, toClient, req, link >> PROVE Somewhere'
  <2>1. Tagged(r)'
    BY <1>g, <1>s, TaggedStays
  <2>2. Lost'
    BY <1>r, <1>s, <2>1 DEF Lost
  <2>3. QED BY <2>2 DEF Somewhere
<1>1. CASE Redecode
  <2>1. OldEnds(ctrl, req + 1) /\ OldEnds(toClient, req + 1)
    <3>1. /\ \A i \in DOMAIN ctrl : ctrl[i].req \in Nat
          /\ \A i \in DOMAIN toClient : toClient[i].req \in Nat
      BY <1>t, NoticeFields, ReplyFields, SizesAssumption
    <3>2. UpTo(ctrl, req) /\ UpTo(toClient, req) /\ req \in Nat
      BY <1>t DEF Numbered
    <3>3. QED BY <3>1, <3>2, NextOld
  <2>2. Tagged(r)'
    BY <1>1, <1>g, TaggedShown DEF Redecode
  <2>3. Lost'
    BY <1>1, <1>r, <2>1, <2>2 DEF Lost, Redecode
  <2>4. QED BY <2>3 DEF Somewhere
<1>2. CASE SendRequest \/ SendChunk \/ SendEnd
  BY <1>2, <1>s DEF SendRequest, SendChunk, SendEnd
<1>3. CASE HandleCtrl
  <2>1. OldEnds(ctrl', req)
    BY <1>3, <1>t, <1>r, OldEndsTail DEF HandleCtrl
  <2>2. Tagged(r)'
    BY <1>3, <1>g, TaggedStays DEF HandleCtrl
  <2>3. Lost'
    BY <1>3, <1>r, <2>1, <2>2 DEF Lost, HandleCtrl
  <2>4. QED BY <2>3 DEF Somewhere
<1>4. CASE Receive
  <2>1. /\ OldEnds(Tail(toClient), req) /\ Head(toClient) \in Replies
        /\ Head(toClient).type = "END" => Head(toClient).req # req
    BY <1>4, <1>t, <1>r, OldEndsTail, TailAt DEF Receive
  <2>2. OldEnds(ctrl', req)
    <3>1. CASE Head(toClient).type = "ANNS"
      BY <1>4, <1>r, <3>1 DEF Receive
    <3>2. CASE Head(toClient).type # "ANNS"
      <4>1. ctrl' = Append(ctrl, Head(toClient)) /\ Head(toClient) \in Notices
        BY <1>4, <2>1, <3>2, ReplyFields DEF Receive
      <4>2. QED BY <1>t, <1>r, <2>1, <4>1, OldEndsAppend
    <3>3. QED BY <3>1, <3>2
  <2>3. Tagged(r)'
    BY <1>4, <1>g, TaggedReceive
  <2>4. Lost'
    BY <1>4, <1>r, <2>1, <2>2, <2>3 DEF Lost, Receive
  <2>5. QED BY <2>4 DEF Somewhere
<1>5. CASE ReceiveFails
  <2>1. Tagged(r)' /\ OldEnds(toClient', req)
    BY <1>5, <1>g, TaggedNothing DEF ReceiveFails, OldEnds
  <2>2. Lost'
    BY <1>5, <1>r, <2>1 DEF Lost, ReceiveFails
  <2>3. QED BY <2>2 DEF Somewhere
<1>6. CASE Reply
  BY <1>6, <1>r, <1>s DEF Reply
<1>7. CASE RecvRequest \/ RecvData \/ RecvEnd \/ ClientGone
  BY <1>7, <1>s DEF RecvRequest, RecvData, RecvEnd, ClientGone
<1>8. CASE Lose
  BY <1>8, <1>r DEF Lose
<1>9. CASE Reconnect
  <2>1. /\ session' = 0 /\ ctrl' = << >> /\ toClient' = << >> /\ out' = << >>
        /\ toServer' = << >> /\ link' = "up" /\ upc' = "frame"
    BY <1>9 DEF Reconnect, Ends
  <2>2. Tagged(r)'
    BY <1>9, <1>g, TaggedStays DEF Reconnect
  <2>3. Idle' /\ NoRequest(toServer)'
    BY <2>1 DEF Idle, NoRequest
  <2>4. Resting'
    BY <2>1, <2>2, <2>3 DEF Resting
  <2>5. QED BY <2>4 DEF Somewhere
<1>10. CASE OtherError
  BY <1>10 DEF OtherError
<1>11. CASE UNCHANGED vars
  BY <1>11, <1>s
<1>12. QED BY <1>1, <1>2, <1>3, <1>4, <1>5, <1>6, <1>7, <1>8, <1>9, <1>10, <1>11 DEF Next

LEMMA PhaseCorrect == Spec => []Phase
<1>1. Init => Phase
  <2> SUFFICES ASSUME Init PROVE Resting
    BY DEF Phase, Somewhere
  <2>1. Tagged(0)
    BY NoAnnsType DEF Init, Tagged
  <2>2. QED BY <2>1 DEF Init, Resting, Idle, NoRequest
<1>2. DecTypeOK /\ Ends /\ Numbered /\ Phase /\ [Next]_vars => Phase'
  <2> SUFFICES ASSUME DecTypeOK, Ends, Numbered, Phase, [Next]_vars, ~refused'
               PROVE  Somewhere'
    BY DEF Phase
  <2>1. ~refused
    <3>1. CASE Redecode \/ SendRequest \/ SendChunk \/ SendEnd \/ HandleCtrl
      BY <3>1 DEF Redecode, SendRequest, SendChunk, SendEnd, HandleCtrl
    <3>2. CASE Receive \/ ReceiveFails \/ Reply \/ RecvRequest \/ RecvData \/ RecvEnd
      BY <3>2 DEF Receive, ReceiveFails, Reply, RecvRequest, RecvData, RecvEnd
    <3>3. CASE ClientGone \/ Lose \/ Reconnect \/ OtherError \/ UNCHANGED vars
      BY <3>3 DEF ClientGone, Lose, Reconnect, OtherError
    <3>4. QED BY <3>1, <3>2, <3>3 DEF Next
  <2>2. QED BY <2>1, RestingStep, RequestedStep, DecodingStep, AnsweredStep, LostStep
            DEF Phase, Somewhere
<1>3. QED BY <1>1, <1>2, DecodeTypes, EndsCorrect, NumberedCorrect, PTL DEF Spec

-----------------------------------------------------------------------------
(* What follows.                                                           *)

LEMMA TaggedIsOne ==
  ASSUME NEW r, Tagged(r)
  PROVE  \A k, l \in Keys : \A i \in DOMAIN shown[k], j \in DOMAIN shown[l] :
            shown[k][i].req = shown[l][j].req
BY DEF Tagged

\* The annotations on the screen are those of one request, over losses of the
\* connection, stale replies and the next request; as long as no ERROR about
\* something else comes during a decode.
THEOREM OneDecodeOnly == Spec => []OneDecode
<1>1. DecTypeOK /\ Phase => OneDecode
  <2> SUFFICES ASSUME DecTypeOK, Phase, ~refused PROVE \E r : Tagged(r)
    BY TaggedIsOne DEF OneDecode
  <2>1. ASSUME NEW p, Requested(p) PROVE Tagged(0)
    BY <2>1, NoAnnsType DEF Requested, Tagged, Fresh, Idle
  <2>2. Decoding \/ Answered => Tagged(req)
    BY DeliveryTags DEF Decoding, Answered
  <2>3. Resting \/ Lost => \E r : Tagged(r)
    BY DEF Resting, Lost
  <2>4. QED BY <2>1, <2>2, <2>3 DEF Phase, Somewhere
<1>2. QED BY <1>1, DecodeTypes, PhaseCorrect, PTL

\* When the UI thread is told that the re-decode is complete, sond has decoded
\* every sample of the store, once and in order, and the client shows every
\* annotation a batch had room for, once and in order: the RX thread puts them
\* there without the queue the answer goes through.
THEOREM CompleteWhenTold == Spec => []CompleteAtEnd
<1>1. DecTypeOK /\ Phase => CompleteAtEnd
  <2> SUFFICES ASSUME DecTypeOK, Phase, ~refused,
                      NEW m \in Answers, m.type = "END", m.req = req
               PROVE  /\ fed = [i \in 1 .. Total - first |-> first + i - 1]
                      /\ shown = due
    BY DEF CompleteAtEnd
  <2>1. PICK i \in DOMAIN ctrl : ctrl[i] = m
    BY DEF Answers
  <2>t. /\ fed \in Seq(Nat) /\ first \in Nat /\ Total \in Nat /\ ctrl \in Seq(Notices)
    BY PhaseTypes
  <2>2. ~NoAnswer(ctrl) /\ ctrl # << >>
    BY <2>1 DEF NoAnswer, IsAnswer
  <2>3. ~Lost
    BY <2>1 DEF Lost, OldEnds
  <2>4. Answered /\ AnswerIn(ctrl) /\ toClient = << >> /\ out = << >>
    BY <2>2, <2>3 DEF Phase, Somewhere, Resting, Requested, Decoding, Idle, Answered
  <2>5. shown = due
    BY <2>4, DeliveryOver DEF Answered
  <2>6. ctrl[Len(ctrl)].type = "END"
    <3>1. i \in 1 .. Len(ctrl) /\ Len(ctrl) \in Nat \ {0}
      BY <2>t, <2>2, TailAt
    <3>2. i = Len(ctrl)
      <4>1. i \notin 1 .. Len(ctrl) - 1
        BY <2>1, <2>4 DEF AnswerIn, AnswerLast, IsAnswer
      <4>2. QED BY <3>1, <4>1
    <3>3. QED BY <2>1, <3>2
  <2>7. Whole
    BY <2>4, <2>6 DEF AnswerIn
  <2>8. fed = [j \in 1 .. Total - first |-> first + j - 1]
    <3>1. /\ Len(fed) = Total - first /\ \A j \in 1 .. Len(fed) : fed[j] = first + j - 1
      BY <2>7 DEF Whole, InStep
    <3>2. fed = [j \in 1 .. Len(fed) |-> fed[j]]
      BY <2>t
    <3>3. [j \in 1 .. Len(fed) |-> fed[j]] = [j \in 1 .. Total - first |-> first + j - 1]
      BY <3>1
    <3>4. QED BY <3>2, <3>3
  <2>9. QED BY <2>5, <2>8
<1>2. QED BY <1>1, DecodeTypes, PhaseCorrect, PTL

\* A re-decode the client holds to be over is over: no session, and nothing of
\* it on its way that would land among the annotations of the next.
THEOREM QuietAfterwards == Spec => []QuietWhenOver
<1>1. DecTypeOK /\ Ends /\ Phase => QuietWhenOver
  <2> SUFFICES ASSUME DecTypeOK, Ends, Phase, ~redecoding, ~cut, ~refused
               PROVE  session = 0 /\ InFlight = {}
    BY DEF QuietWhenOver
  <2>1. link = "up"
    BY PhaseTypes DEF Ends
  <2>2. Idle
    BY <2>1 DEF Phase, Somewhere, Resting, Requested, Decoding, Answered, Lost
  <2>3. QED BY <2>2 DEF Idle, InFlight
<1>2. QED BY <1>1, DecodeTypes, EndsCorrect, PhaseCorrect, PTL

-----------------------------------------------------------------------------
(* The rows DECODER_INFO lists.                                            *)

\* What q holds is of the rows R: its batches, and the DECODER_INFO before them.
Within(q, R) == \A i \in DOMAIN q : /\ q[i].type = "ANNS" => q[i].key \in R
                                    /\ q[i].type = "INFO" => q[i].rows = R
HasInfo(q) == \E i \in DOMAIN q : q[i].type = "INFO"

\* The annotations are of the rows of the session, which the UI thread knows or
\* will be told of.
Lanes(R) ==
    /\ \A k \in Keys : shown[k] # << >> => k \in R
    /\ Within(ctrl, R) /\ Within(toClient, R) /\ Within(out, R)
    /\ decoderRows = R \/ HasInfo(ctrl) \/ HasInfo(toClient) \/ HasInfo(out)
    /\ session # 0 => R = (0 .. session - 2) \X Rows

InLanes == ~refused /\ ~cut => \E R : Lanes(R)

LEMMA WithinTail ==
  ASSUME NEW S, NEW q \in Seq(S), q # << >>, NEW R, Within(q, R)
  PROVE  /\ Within(Tail(q), R)
         /\ Head(q).type = "ANNS" => Head(q).key \in R
         /\ Head(q).type = "INFO" => Head(q).rows = R
         /\ HasInfo(q) => HasInfo(Tail(q)) \/ Head(q).type = "INFO"
<1>1. /\ DOMAIN q = 1 .. Len(q) /\ Len(q) \in Nat \ {0} /\ Head(q) = q[1]
      /\ DOMAIN Tail(q) = 1 .. Len(q) - 1
      /\ \A i \in 1 .. Len(q) - 1 : Tail(q)[i] = q[i + 1]
  BY TailAt
<1>2. ASSUME NEW i \in DOMAIN q, q[i].type = "INFO", i # 1 PROVE HasInfo(Tail(q))
  <2>1. i - 1 \in 1 .. Len(q) - 1 /\ i - 1 + 1 = i
    BY <1>1, <1>2
  <2>2. Tail(q)[i - 1] = q[i]
    BY <1>1, <2>1
  <2>3. QED BY <1>1, <1>2, <2>1, <2>2 DEF HasInfo
<1>3. QED BY <1>1, <1>2 DEF Within, HasInfo

LEMMA WithinAppend ==
  ASSUME NEW S, NEW q \in Seq(S), NEW m \in S, NEW R, Within(q, R),
         m.type = "ANNS" => m.key \in R, m.type = "INFO" => m.rows = R
  PROVE  /\ Within(Append(q, m), R)
         /\ HasInfo(q) \/ m.type = "INFO" => HasInfo(Append(q, m))
<1> DEFINE a == Append(q, m)
<1>1. /\ DOMAIN a = 1 .. Len(q) + 1 /\ a[Len(q) + 1] = m /\ DOMAIN q = 1 .. Len(q)
      /\ \A i \in 1 .. Len(q) : a[i] = q[i] /\ i \in 1 .. Len(q) + 1
      /\ Len(q) + 1 \in 1 .. Len(q) + 1
      /\ \A i \in 1 .. Len(q) + 1 : i \in 1 .. Len(q) \/ i = Len(q) + 1
  BY AppendAt
<1> HIDE DEF a
<1>2. Within(a, R)
  BY <1>1 DEF Within
<1>3. HasInfo(q) \/ m.type = "INFO" => HasInfo(a)
  BY <1>1 DEF HasInfo
<1>4. QED BY <1>2, <1>3 DEF a

LEMMA LanesStay ==
  ASSUME NEW R, Lanes(R), UNCHANGED << shown, ctrl, toClient, out, decoderRows >>,
         session' \in {session, 0}
  PROVE  Lanes(R)'
BY DEF Lanes

LEMMA InLanesCorrect == Spec => []InLanes
<1>1. Init => InLanes
  <2> SUFFICES ASSUME Init PROVE Lanes({})
    BY DEF InLanes
  <2>1. QED BY NoAnnsType DEF Init, Lanes, Within
<1>2. DecTypeOK /\ Ends /\ Phase /\ InLanes /\ [Next]_vars => InLanes'
  <2> SUFFICES ASSUME DecTypeOK, Ends, Phase, InLanes, [Next]_vars, ~refused', ~cut'
               PROVE  \E R : Lanes(R)'
    BY DEF InLanes
  <2>t. /\ ctrl \in Seq(Notices) /\ toClient \in Seq(Replies) /\ out \in Seq(Replies)
        /\ shown \in [Keys -> Seq(Annotations)] /\ link \in {"up", "down"}
        /\ served \in 0 .. MaxRequests /\ toServer \in Seq(Orders)
    BY PhaseTypes, DeliveryTypes
  <2>l. (cut => link = "up") => link = "up"
    BY <2>t DEF Ends
  <2>r. ASSUME ~cut, ~refused PROVE \E R : Lanes(R)
    BY <2>r DEF InLanes
  <2>1. CASE Redecode
    <3>1. link = "up" /\ ~refused /\ shown' = NoAnns
          /\ UNCHANGED << ctrl, toClient, out, decoderRows, session >>
      BY <2>1, <2>t DEF Redecode
    <3>2. Idle
      BY <2>1, <3>1 DEF Redecode, Phase, Somewhere, Resting, Requested, Decoding, Answered, Lost
    <3>3. PICK R : R = decoderRows
      OBVIOUS
    <3>4. Lanes(R)'
      BY <3>1, <3>2, <3>3, NoAnnsType DEF Idle, Lanes, Within
    <3>5. QED BY <3>4
  <2>2. CASE SendRequest \/ SendChunk \/ SendEnd
    <3>1. UNCHANGED << shown, ctrl, toClient, out, decoderRows, session, cut, refused >>
      BY <2>2 DEF SendRequest, SendChunk, SendEnd
    <3>2. QED BY <2>r, <3>1, LanesStay
  <2>3. CASE HandleCtrl
    <3>1. PICK R : Lanes(R)
      BY <2>r, <2>3 DEF HandleCtrl
    <3>2. /\ ctrl # << >> /\ ctrl' = Tail(ctrl)
          /\ decoderRows' = IF Head(ctrl).type = "INFO" THEN Head(ctrl).rows ELSE decoderRows
          /\ UNCHANGED << shown, toClient, out, session >>
      BY <2>3 DEF HandleCtrl
    <3>3. /\ Within(Tail(ctrl), R) /\ (Head(ctrl).type = "INFO" => Head(ctrl).rows = R)
          /\ HasInfo(ctrl) => HasInfo(Tail(ctrl)) \/ Head(ctrl).type = "INFO"
      BY <2>t, <3>1, <3>2, WithinTail DEF Lanes
    <3>4. Lanes(R)'
      BY <3>1, <3>2, <3>3 DEF Lanes
    <3>5. QED BY <3>4
  <2>4. CASE Receive
    <3>1. PICK R : Lanes(R)
      BY <2>r, <2>4 DEF Receive
    <3>2. /\ toClient # << >> /\ toClient' = Tail(toClient) /\ Head(toClient) \in Replies
          /\ UNCHANGED << out, session, decoderRows >>
      BY <2>4, <2>t, TailAt DEF Receive
    <3>3. /\ Within(Tail(toClient), R)
          /\ Head(toClient).type = "ANNS" => Head(toClient).key \in R
          /\ Head(toClient).type = "INFO" => Head(toClient).rows = R
          /\ HasInfo(toClient) => HasInfo(Tail(toClient)) \/ Head(toClient).type = "INFO"
      BY <2>t, <3>1, <3>2, WithinTail DEF Lanes
    <3>4. CASE Head(toClient).type = "ANNS"
      <4>1. /\ ctrl' = ctrl /\ Head(toClient).key \in R
            /\ shown' = [shown EXCEPT ![Head(toClient).key] =
                                           shown[Head(toClient).key] \o Head(toClient).anns]
        BY <2>4, <3>3, <3>4 DEF Receive
      <4>2. \A k \in Keys : shown'[k] # << >> => k \in R
        BY <2>t, <3>1, <4>1 DEF Lanes
      <4>3. Lanes(R)'
        BY <3>1, <3>2, <3>3, <3>4, <4>1, <4>2 DEF Lanes
      <4>4. QED BY <4>3
    <3>5. CASE Head(toClient).type # "ANNS"
      <4>1. /\ ctrl' = Append(ctrl, Head(toClient)) /\ shown' = shown
            /\ Head(toClient) \in Notices
        BY <2>4, <3>2, <3>5, ReplyFields DEF Receive
      <4>2. /\ Within(ctrl', R)
            /\ HasInfo(ctrl) \/ Head(toClient).type = "INFO" => HasInfo(ctrl')
        BY <2>t, <3>1, <3>3, <3>5, <4>1, WithinAppend DEF Lanes
      <4>3. Lanes(R)'
        BY <3>1, <3>2, <3>3, <4>1, <4>2 DEF Lanes
      <4>4. QED BY <4>3
    <3>6. QED BY <3>4, <3>5
  <2>5. CASE ReceiveFails \/ ClientGone \/ Lose \/ Reconnect \/ OtherError
    <3>1. CASE ReceiveFails \/ ClientGone
      BY <2>t, <3>1 DEF Ends, ReceiveFails, ClientGone
    <3>2. CASE Lose \/ OtherError
      BY <3>2 DEF Lose, OtherError
    <3>3. CASE Reconnect
      BY <2>t, <3>3 DEF Ends, Reconnect
    <3>4. QED BY <2>5, <3>1, <3>2, <3>3
  <2>6. CASE Reply
    <3>1. PICK R : Lanes(R)
      BY <2>r, <2>6 DEF Reply
    <3>2. /\ out # << >> /\ out' = Tail(out) /\ toClient' = Append(toClient, Head(out))
          /\ Head(out) \in Replies
          /\ UNCHANGED << shown, ctrl, session, decoderRows >>
      BY <2>6, <2>t, TailAt DEF Reply, Ends
    <3>3. /\ Within(Tail(out), R)
          /\ Head(out).type = "ANNS" => Head(out).key \in R
          /\ Head(out).type = "INFO" => Head(out).rows = R
          /\ HasInfo(out) => HasInfo(Tail(out)) \/ Head(out).type = "INFO"
      BY <2>t, <3>1, <3>2, WithinTail DEF Lanes
    <3>4. /\ Within(toClient', R)
          /\ HasInfo(toClient) \/ Head(out).type = "INFO" => HasInfo(toClient')
      BY <2>t, <3>1, <3>2, <3>3, WithinAppend DEF Lanes
    <3>5. Lanes(R)'
      BY <3>1, <3>2, <3>3, <3>4 DEF Lanes
    <3>6. QED BY <3>5
  <2>7. CASE RecvRequest
    <3>1. ~refused /\ ~cut /\ ~NoRequest(toServer)
      BY <2>7, <2>t, NoRequestTail DEF RecvRequest, Got
    <3>2. PICK p : Requested(p)
      BY <2>t, <3>1 DEF Phase, Somewhere, Resting, Decoding, Answered, Lost, Ends
    <3>3. /\ session = 0 /\ ctrl = << >> /\ toClient = << >> /\ out = << >> /\ shown = NoAnns
          /\ UNCHANGED << shown, ctrl, toClient, decoderRows >>
      BY <2>7, <3>2 DEF RecvRequest, Requested, Idle, Fresh
    <3>4. \/ \E n \in 0 .. MaxStacks : session' = n + 1 /\ out' = << Info(n, served') >>
          \/ session' = 0 /\ out' = << Msg("ERROR", served') >>
      BY <2>7, <3>3 DEF RecvRequest
    <3>5. CASE \E n \in 0 .. MaxStacks : session' = n + 1 /\ out' = << Info(n, served') >>
      <4>1. PICK n \in 0 .. MaxStacks : session' = n + 1 /\ out' = << Info(n, served') >>
        BY <3>5
      <4>2. PICK R : R = (0 .. n - 1) \X Rows
        OBVIOUS
      <4>3. session' - 2 = n - 1
        BY <4>1
      <4>4. Within(out', R) /\ HasInfo(out')
        BY <4>1, <4>2 DEF Within, HasInfo, Info
      <4>5. Lanes(R)'
        BY <3>3, <4>2, <4>3, <4>4, NoAnnsType DEF Lanes, Within
      <4>6. QED BY <4>5
    <3>6. CASE session' = 0 /\ out' = << Msg("ERROR", served') >>
      <4>1. PICK R : R = decoderRows
        OBVIOUS
      <4>2. Lanes(R)'
        BY <3>3, <3>6, <4>1, NoAnnsType DEF Lanes, Within, Msg
      <4>3. QED BY <4>2
    <3>7. QED BY <3>4, <3>5, <3>6
  <2>8. CASE RecvData
    <3>1. PICK R : Lanes(R)
      BY <2>r, <2>8 DEF RecvData
    <3>2. /\ out = << >> /\ UNCHANGED << shown, ctrl, toClient, decoderRows, session >>
          /\ Head(toServer) \in Orders /\ Head(toServer).type = "DATA"
      BY <2>8, <2>t, TailAt DEF RecvData, Got
    <3>3. CASE session = 0
      <4>1. out' = out
        BY <2>8, <3>3 DEF RecvData
      <4>2. QED BY <3>1, <3>2, <4>1, LanesStay
    <3>4. CASE session # 0
      <4>1. PICK y \in Yields :
               out' \in Batches([k \in Keys |-> anns[k] \o Made(y, Head(toServer).from)[k]])
        BY <2>8, <3>4 DEF RecvData, Flush
      <4>mm. PICK more : more = Made(y, Head(toServer).from)
        OBVIOUS
      <4>2. more \in [Keys -> Seq(Annotations)]
        <5>1. Head(toServer).from \in 0 .. Total
          BY <3>2, OrderFields
        <5>2. QED BY <2>t, <4>mm, <5>1, MadeAre
      <4>3. [k \in Keys |-> anns[k] \o more[k]] = more
        <5>1. \A k \in Keys : anns[k] \o more[k] = more[k]
          BY <4>2, NoAnnsType DEF Ends
        <5>2. QED BY <4>2, <5>1
      <4>4. out' \in Batches(more)
        BY <4>1, <4>mm, <4>3
      <4>5. ASSUME NEW k \in Keys, more[k] # << >> PROVE k \in R
        <5>1. DOMAIN more[k] = DOMAIN y[k]
          BY <4>mm DEF Made
        <5>2. PICK i : i \in DOMAIN y[k]
          <6>1. more[k] \in Seq(Annotations)
            BY <4>2
          <6>2. 1 \in DOMAIN more[k]
            BY <4>5, <6>1, TailAt
          <6>3. QED BY <5>1, <6>2
        <5>3. k[1] < session - 1 /\ k = << k[1], k[2] >> /\ k[1] \in Nat /\ k[2] \in Rows
          BY <5>2, SizesAssumption DEF Yields, Keys
        <5>4. session \in Nat
          BY SizesAssumption DEF DecTypeOK, ServerTypes
        <5>5. k[1] \in 0 .. session - 2
          BY <5>3, <5>4
        <5>6. R = (0 .. session - 2) \X Rows
          BY <3>1, <3>4 DEF Lanes
        <5>7. QED BY <5>3, <5>5, <5>6
      <4>6. ASSUME NEW i \in DOMAIN out'
            PROVE  out'[i].type = "ANNS" /\ out'[i].key \in R
        <5>1. PICK ks \in InOrder({k \in Keys : more[k] # << >>}) :
                 out' = [j \in DOMAIN ks |-> Batch(ks[j], more[ks[j]])]
          BY <4>4 DEF Batches
        <5>2. i \in DOMAIN ks /\ ks[i] \in {k \in Keys : more[k] # << >>}
          BY <4>6, <5>1 DEF InOrder
        <5>3. out'[i].type = "ANNS" /\ out'[i].key = ks[i]
          BY <5>1, <5>2 DEF Batch
        <5>4. QED BY <4>5, <5>2, <5>3
      <4>7. Within(out', R)
        BY <4>6 DEF Within
      <4>8. ~HasInfo(out)
        BY <3>2 DEF HasInfo
      <4>9. Lanes(R)'
        BY <3>1, <3>2, <4>7, <4>8 DEF Lanes
      <4>10. QED BY <4>9
    <3>5. QED BY <3>3, <3>4
  <2>9. CASE RecvEnd
    <3>1. PICK R : Lanes(R)
      BY <2>r, <2>9 DEF RecvEnd
    <3>2. /\ out = << >> /\ UNCHANGED << shown, ctrl, toClient, decoderRows >> /\ session' = 0
          /\ out' \in IF session = 0 THEN {<< >>} ELSE Ended
      BY <2>9 DEF RecvEnd, Got
    <3>3. CASE session = 0
      BY <3>1, <3>2, <3>3, LanesStay
    <3>4. CASE session # 0
      <4>1. PICK b \in Batches(anns) : out' = Append(b, Msg("END", served))
        BY <3>2, <3>4 DEF Ended
      <4>2. out' = << Msg("END", served) >>
        <5>1. b \in Batches(NoAnns)
          BY <4>1 DEF Ends
        <5>2. b = << >>
          BY <2>t, <5>1, NothingToFlush
        <5>3. QED BY <4>1, <5>2
      <4>3. Within(out', R)
        BY <4>2 DEF Within, Msg
      <4>4. ~HasInfo(out)
        BY <3>2 DEF HasInfo
      <4>5. Lanes(R)'
        BY <3>1, <3>2, <4>3, <4>4 DEF Lanes
      <4>6. QED BY <4>5
    <3>5. QED BY <3>3, <3>4
  <2>10. CASE UNCHANGED vars
    BY <2>10, <2>r, LanesStay
  <2>11. QED BY <2>1, <2>2, <2>3, <2>4, <2>5, <2>6, <2>7, <2>8, <2>9, <2>10 DEF Next
<1>3. QED BY <1>1, <1>2, DecodeTypes, EndsCorrect, PhaseCorrect, PTL DEF Spec

\* Every annotation of a re-decode that is over has the lane DECODER_INFO gave
\* it: the RX thread stores annotations that the UI thread has no lanes for yet,
\* and by the time it hears of the end it has them.
THEOREM AllLabelled == Spec => []Labelled
<1>1. DecTypeOK /\ Ends /\ Phase /\ InLanes => Labelled
  <2> SUFFICES ASSUME DecTypeOK, Ends, Phase, InLanes, ~redecoding, ~cut, ~refused,
                      NEW k \in Keys, shown[k] # << >>
               PROVE  k \in decoderRows
    BY DEF Labelled
  <2>1. link = "up"
    BY PhaseTypes DEF Ends
  <2>2. Idle
    BY <2>1 DEF Phase, Somewhere, Resting, Requested, Decoding, Answered, Lost
  <2>3. PICK R : Lanes(R)
    BY DEF InLanes
  <2>4. QED BY <2>2, <2>3 DEF Idle, Lanes, HasInfo
<1>2. QED BY <1>1, DecodeTypes, EndsCorrect, PhaseCorrect, InLanesCorrect, PTL

=============================================================================
