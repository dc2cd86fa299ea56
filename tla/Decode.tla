------------------------------- MODULE Decode -------------------------------
(***************************************************************************)
(* A post-hoc decode over one connection: sonview streams the captured      *)
(* samples back (client/src/app.cpp, start_redecode), sond runs its decode  *)
(* session over them in the thread that also reads the connection           *)
(* (server/src/main.cpp, capture.cpp), and the annotations return to the RX *)
(* thread while the UI thread is still sending.  Both directions are socket *)
(* buffers of bounded size: a send waits for room (proto/son_wire.h).       *)
(*                                                                         *)
(* libsigrokdecode is external: a session may fail, any number of its       *)
(* decoder instances may be created, and a run of samples may yield any     *)
(* number of annotations of any class, which come in the order they were    *)
(* made.  An annotation is its request, its class and its number.  Captures *)
(* are left to Acquisition, framing below a message to the README.          *)
(***************************************************************************)
EXTENDS Naturals, Sequences, FiniteSets

CONSTANTS
    Total,       \* samples in the store
    Chunk,       \* samples per DATA_LOGIC sent, 65536
    Pipe,        \* messages a direction of the connection holds
    BatchMax,    \* annotations per ANN_BATCH, 65535
    MaxPerFeed,  \* bound: annotations of a row a run of samples yields
    MaxRequests, \* bound: re-decodes
    MaxStacks,   \* bound: decoders in the stack
    RowOf,       \* class -> row, for the classes listed in a row
    Classes,     \* annotation classes
    Acts         \* of the environment: "lose", "error"

ASSUME SizesAssumption ==
    /\ Total \in Nat /\ Chunk \in Nat \ {0} /\ Pipe \in Nat /\ BatchMax \in Nat
    /\ MaxPerFeed \in Nat /\ MaxRequests \in Nat /\ MaxStacks \in Nat
ASSUME RowsAssumption ==
    /\ IsFiniteSet(DOMAIN RowOf)
    /\ \A c \in DOMAIN RowOf : RowOf[c] \in Nat
ASSUME ActsAssumption == Acts \subseteq {"lose", "error"}

VARIABLES
    upc, pos, redecoding, decoderRows, req,       \* the UI thread
    shown, ctrl, connected,                       \* written by the RX thread
    session, served, anns, out, spc,              \* sond's dispatch thread
                                                  \* (served: ghost, of which request)
    toServer, toClient, link,                     \* the connection
    first,       \* first_live() of the store being sent
    fed, due,    \* ghost: samples decoded, annotations made, of this request
    cut,         \* ghost: the connection was lost since the request
    refused      \* ghost: an ERROR about something else came during a decode

ui     == << upc, pos, redecoding, decoderRows, req, first >>
rx     == << shown, ctrl, connected >>
server == << session, served, anns, out, spc >>
wire   == << toServer, toClient, link >>
ghost  == << fed, due, cut, refused >>
vars   == << ui, rx, server, wire, ghost >>

Rows == {0} \cup {RowOf[c] : c \in DOMAIN RowOf}
Keys == (0 .. MaxStacks - 1) \X Rows     \* (decode_stack_id, row_id)

NoAnns == [k \in Keys |-> << >>]
Msg(type, r) == [type |-> type, req |-> r]
Data(r, from, n) == [type |-> "DATA", req |-> r, from |-> from, n |-> n]

Init ==
    /\ upc = "frame" /\ pos = 0 /\ redecoding = FALSE /\ decoderRows = {}
    /\ req = 0 /\ first = 0
    /\ shown = NoAnns /\ ctrl = << >> /\ connected = TRUE
    /\ session = 0 /\ served = 0 /\ anns = NoAnns /\ out = << >> /\ spc = "recv"
    /\ toServer = << >> /\ toClient = << >> /\ link = "up"
    /\ fed = << >> /\ due = NoAnns /\ cut = FALSE /\ refused = FALSE

-----------------------------------------------------------------------------
(* sonview, UI thread: start_redecode().                                   *)

\* A mutant: a decode under way is not looked at.
RedecodeAgain ==
    /\ upc = "frame" /\ connected /\ req < MaxRequests
    /\ \E fl \in 0 .. Total - 1 : first' = fl
    /\ shown' = NoAnns /\ redecoding' = TRUE /\ upc' = "request"
    /\ req' = req + 1 /\ fed' = << >> /\ due' = NoAnns /\ cut' = (link = "down")
    /\ UNCHANGED << pos, decoderRows, ctrl, connected, server, wire, refused >>

\* Drops the annotations on the screen.  A capture is not running, and the
\* store holds at least a sample.
Redecode ==
    /\ upc = "frame" /\ connected /\ ~redecoding /\ req < MaxRequests
    /\ \E fl \in 0 .. Total - 1 : first' = fl
    /\ shown' = NoAnns /\ redecoding' = TRUE /\ upc' = "request"
    /\ req' = req + 1 /\ fed' = << >> /\ due' = NoAnns /\ cut' = (link = "down")
    /\ UNCHANGED << pos, decoderRows, ctrl, connected, server, wire, refused >>

\* son_send() on the client's descriptor: waits for room, fails once the
\* connection is gone.
Sent(m) == link = "up" /\ Len(toServer) < Pipe /\ toServer' = Append(toServer, m)

SendFails == link = "down" /\ toServer' = toServer

GiveUp == redecoding' = FALSE /\ upc' = "frame" /\ pos' = pos

SendRequest ==
    /\ upc = "request"
    /\ \/ Sent(Msg("REQ", req)) /\ pos' = first /\ upc' = "stream"
          /\ redecoding' = redecoding
       \/ SendFails /\ GiveUp
    /\ UNCHANGED << decoderRows, req, first, rx, server, toClient, link, ghost >>

SendChunk ==
    /\ upc = "stream" /\ pos < Total
    /\ LET n == IF pos + Chunk > Total THEN Total - pos ELSE Chunk
       IN  \/ /\ Sent(Data(req, pos, n))
              /\ pos' = pos + n
              /\ UNCHANGED << upc, redecoding >>
           \/ SendFails /\ GiveUp
    /\ UNCHANGED << decoderRows, req, first, rx, server, toClient, link, ghost >>

\* A DECODE_END that cannot be sent goes unnoticed.
SendEnd ==
    /\ upc = "stream" /\ pos = Total
    /\ Sent(Msg("END", req)) \/ SendFails
    /\ upc' = "frame"
    /\ UNCHANGED << pos, redecoding, decoderRows, req, first, rx, server,
                    toClient, link, ghost >>

\* process_ctrl(): any ERROR ends the re-decode as DECODE_END does.
HandleCtrl ==
    /\ upc = "frame" /\ ctrl # << >>
    /\ LET m == Head(ctrl)
       IN  /\ decoderRows' = IF m.type = "INFO" THEN m.rows ELSE decoderRows
           /\ redecoding' = (redecoding /\ m.type = "INFO")
    /\ ctrl' = Tail(ctrl)
    /\ UNCHANGED << upc, pos, req, first, shown, connected, server, wire, ghost >>

-----------------------------------------------------------------------------
(* sonview, RX thread: rx_loop() and process_rx_message().                 *)

\* A mutant: the RX thread waits for the UI thread.
ReceiveBetweenFrames ==
    /\ upc = "frame" /\ connected /\ toClient # << >>
    /\ ctrl' = Append(ctrl, Head(toClient))
    /\ toClient' = Tail(toClient)
    /\ UNCHANGED << ui, shown, connected, server, toServer, link, ghost >>

\* A batch goes to the store at once, the rest to the UI thread.
Receive ==
    /\ connected /\ toClient # << >>
    /\ LET m == Head(toClient)
       IN  IF m.type = "ANNS"
           THEN /\ shown' = [shown EXCEPT ![m.key] = @ \o m.anns]
                /\ ctrl' = ctrl
           ELSE /\ ctrl' = Append(ctrl, m)
                /\ shown' = shown
    /\ toClient' = Tail(toClient)
    /\ UNCHANGED << ui, connected, server, toServer, link, ghost >>

\* What had not arrived by then is lost.
ReceiveFails ==
    /\ connected /\ link = "down"
    /\ connected' = FALSE /\ toClient' = << >>
    /\ UNCHANGED << ui, shown, ctrl, server, toServer, link, ghost >>

-----------------------------------------------------------------------------
(* sond, dispatch thread: handle_client() and the decode session, whose     *)
(* `session' is the number of its decoder instances plus one, 0 for none.   *)

\* son_send() of the replies of a handler, one after the other.
Reply ==
    /\ out # << >>
    /\ \/ /\ link = "up" /\ Len(toClient) < Pipe
          /\ toClient' = Append(toClient, Head(out))
       \/ link = "down" /\ toClient' = toClient
    /\ out' = Tail(out)
    /\ UNCHANGED << ui, rx, session, served, anns, spc, toServer, link, ghost >>

\* The next message of the given type, once the handler before has returned.
Got(type) == /\ spc = "recv" /\ out = << >>
             /\ toServer # << >> /\ Head(toServer).type = type
             /\ toServer' = Tail(toServer)

\* flush_anns(): a batch per row that has annotations, in key order, and the
\* rows are cleared, what did not fit in a batch included.
Before(k, l) == k[1] < l[1] \/ (k[1] = l[1] /\ k[2] < l[2])

\* The keys of S, each once, in key order: there is one such sequence.
InOrder(S) == {ks \in [1 .. Cardinality(S) -> S] :
                  /\ \A k \in S : \E i \in DOMAIN ks : ks[i] = k
                  /\ \A i, j \in DOMAIN ks : i < j => Before(ks[i], ks[j])}

\* What a batch has room for.
Held(vec) == SubSeq(vec, 1, IF Len(vec) < BatchMax THEN Len(vec) ELSE BatchMax)

Batch(k, vec) == [type |-> "ANNS", req |-> served, key |-> k, anns |-> Held(vec)]

Batches(vecs) == {[i \in DOMAIN ks |-> Batch(ks[i], vecs[ks[i]])] :
                     ks \in InOrder({k \in Keys : vecs[k] # << >>})}

\* A mutant: the rows are not cleared.
FlushKeeps(vecs) == out' \in Batches(vecs) /\ anns' = vecs

Flush(vecs) == out' \in Batches(vecs) /\ anns' = NoAnns

\* setup_decoders(): an instance that cannot be made is skipped, the others are
\* numbered from 0; DECODER_INFO lists their rows.
Info(n, r) == [type |-> "INFO", req |-> r, rows |-> (0 .. n - 1) \X Rows]

\* decode_end(): flush, destroy, reply.
Ended == {Append(b, Msg("END", served)) : b \in Batches(anns)}

\* DECODE_REQ: ends a session still open; a request that does not parse and a
\* session that cannot be made are answered ERROR.
RecvRequest ==
    /\ Got("REQ") /\ served' = Head(toServer).req
    /\ \E before \in IF session = 0 THEN {<< >>} ELSE Ended :
           \/ \E n \in 0 .. MaxStacks :
                 session' = n + 1 /\ out' = Append(before, Info(n, served'))
           \/ session' = 0 /\ out' = Append(before, Msg("ERROR", served'))
    /\ anns' = NoAnns
    /\ UNCHANGED << ui, rx, spc, toClient, link, ghost >>

\* ann_cb(): a class listed in no row goes to row 0.
Row(c) == IF c \in DOMAIN RowOf THEN RowOf[c] ELSE 0

\* What a run of samples yields: of the rows of each instance so many.
Yields == {y \in [Keys -> UNION {[1 .. n -> Classes] : n \in 0 .. MaxPerFeed}] :
              \A k \in Keys : \A i \in DOMAIN y[k] :
                  k[1] < session - 1 /\ Row(y[k][i]) = k[2]}

Made(y, from) ==
    [k \in Keys |-> [i \in DOMAIN y[k] |->
        [req |-> served, class |-> y[k][i], at |-> from, n |-> i]]]

\* DATA_LOGIC: without a session it is ignored; decode_feed() otherwise.
RecvData ==
    /\ Got("DATA")
    /\ LET m == Head(toServer)
       IN  IF session = 0
           THEN UNCHANGED << anns, out, fed, due >>
           ELSE \E y \in Yields :
                  LET more == Made(y, m.from)
                      vecs == [k \in Keys |-> anns[k] \o more[k]]
                  IN  /\ Flush(vecs)
                      /\ fed' = fed \o [i \in 1 .. m.n |-> m.from + i - 1]
                      /\ due' = [k \in Keys |-> due[k] \o Held(more[k])]
    /\ UNCHANGED << ui, rx, session, served, spc, toClient, link, cut,
                    refused >>

\* A mutant: the reply is left to whoever reads the last batch.
RecvEndSilent ==
    /\ Got("END")
    /\ session' = 0 /\ anns' = NoAnns /\ out' = << >>
    /\ UNCHANGED << ui, rx, served, spc, toClient, link, ghost >>

\* DECODE_END: after a failed setup there is nothing to end or to say.
RecvEnd ==
    /\ Got("END")
    /\ out' \in IF session = 0 THEN {<< >>} ELSE Ended
    /\ session' = 0 /\ anns' = NoAnns
    /\ UNCHANGED << ui, rx, served, spc, toClient, link, ghost >>

\* The client is gone: the session is freed, what it has to say is not heard.
ClientGone ==
    /\ spc = "recv" /\ out = << >> /\ link = "down"
    /\ session' = 0 /\ anns' = NoAnns /\ spc' = "accept" /\ toServer' = << >>
    /\ UNCHANGED << ui, rx, served, out, toClient, link, ghost >>

-----------------------------------------------------------------------------
(* The environment.                                                        *)

Lose ==
    /\ "lose" \in Acts /\ link = "up" /\ link' = "down" /\ cut' = TRUE
    /\ UNCHANGED << ui, rx, server, toServer, toClient, fed, due, refused >>

Reconnect ==
    /\ upc = "frame" /\ ~connected /\ spc = "accept" /\ ctrl = << >>
    /\ connected' = TRUE /\ link' = "up" /\ spc' = "recv"
    /\ UNCHANGED << ui, shown, ctrl, session, served, anns, out, toServer, toClient,
                    ghost >>

\* The ERROR of a refused CONFIG or a capture that could not start (bound: one).
OtherError ==
    /\ "error" \in Acts /\ ~refused /\ link = "up" /\ redecoding
    /\ Len(toClient) < Pipe
    /\ toClient' = Append(toClient, Msg("ERROR", req))
    /\ refused' = TRUE
    /\ UNCHANGED << ui, rx, server, toServer, link, fed, due, cut >>

Send  == SendRequest \/ SendChunk \/ SendEnd
Serve == Reply \/ RecvRequest \/ RecvData \/ RecvEnd \/ ClientGone

Next == \/ Redecode \/ SendRequest \/ SendChunk \/ SendEnd \/ HandleCtrl
        \/ Receive \/ ReceiveFails
        \/ Reply \/ RecvRequest \/ RecvData \/ RecvEnd \/ ClientGone
        \/ Lose \/ Reconnect \/ OtherError

Spec == Init /\ [][Next]_vars

\* The three threads are scheduled; nothing is asked of the user.
Fairness == /\ WF_vars(Send) /\ WF_vars(HandleCtrl)
            /\ WF_vars(Receive \/ ReceiveFails) /\ WF_vars(Serve)

FairSpec == Spec /\ Fairness

-----------------------------------------------------------------------------
(* Properties.                                                             *)

Annotations == [req : 0 .. MaxRequests, class : Classes, at : 0 .. Total,
                n : 1 .. MaxPerFeed]

Notices == [type : {"END", "ERROR"}, req : 0 .. MaxRequests] \cup
           [type : {"INFO"}, req : 0 .. MaxRequests, rows : SUBSET Keys]
Replies == Notices \cup
           [type : {"ANNS"}, req : 0 .. MaxRequests, key : Keys, anns : Seq(Annotations)]
Orders  == [type : {"REQ", "END"}, req : 0 .. MaxRequests] \cup
           [type : {"DATA"}, req : 0 .. MaxRequests, from : 0 .. Total, n : 0 .. Total]

UiTypes ==
    /\ upc \in {"frame", "request", "stream"} /\ pos \in 0 .. Total
    /\ redecoding \in BOOLEAN /\ decoderRows \subseteq Keys
    /\ req \in 0 .. MaxRequests /\ first \in 0 .. Total
RxTypes ==
    /\ shown \in [Keys -> Seq(Annotations)] /\ ctrl \in Seq(Notices)
    /\ connected \in BOOLEAN
ServerTypes ==
    /\ session \in 0 .. MaxStacks + 1 /\ served \in 0 .. MaxRequests
    /\ anns \in [Keys -> Seq(Annotations)] /\ out \in Seq(Replies)
    /\ spc \in {"recv", "accept"}
WireTypes ==
    /\ link \in {"up", "down"}
    /\ toServer \in Seq(Orders) /\ Len(toServer) <= Pipe
    /\ toClient \in Seq(Replies) /\ Len(toClient) <= Pipe
GhostTypes ==
    /\ fed \in Seq(Nat) /\ due \in [Keys -> Seq(Annotations)]
    /\ cut \in BOOLEAN /\ refused \in BOOLEAN

\* The values every variable may take, by thread; the connection holds no more
\* than it can.
DecTypeOK == UiTypes /\ RxTypes /\ ServerTypes /\ WireTypes /\ GhostTypes

Answers == {ctrl[i] : i \in DOMAIN ctrl}
InFlight == {toClient[i] : i \in DOMAIN toClient} \cup {out[i] : i \in DOMAIN out}

\* When the UI thread learns that a re-decode is complete, sond has decoded the
\* whole store, each sample once and in order, and every annotation a batch
\* could hold is in the store of the client, none twice: the batches went there
\* from the RX thread, the answer through a queue.
CompleteAtEnd ==
    ~refused => \A m \in Answers : m.type = "END" /\ m.req = req =>
        /\ fed = [i \in 1 .. Total - first |-> first + i - 1]
        /\ shown = due

\* A re-decode the client holds to be over is over: no session, and nothing of
\* it on its way that would land among the annotations of the next.
QuietWhenOver ==
    ~redecoding /\ upc = "frame" /\ ~cut /\ ~refused =>
        /\ session = 0
        /\ \A m \in InFlight : m.type # "ANNS"

\* The annotations on the screen are those of one request, losses of the
\* connection and the next request included; an ERROR about something else,
\* which ends a decode for the UI thread only, breaks that.
OneDecode ==
    ~refused => \A k, l \in Keys : \A i \in DOMAIN shown[k], j \in DOMAIN shown[l] :
        shown[k][i].req = shown[l][j].req

\* The same without the exception.
NeverMixed ==
    \A k, l \in Keys : \A i \in DOMAIN shown[k], j \in DOMAIN shown[l] :
        shown[k][i].req = shown[l][j].req

\* Every annotation of a complete re-decode has the lane DECODER_INFO gave it.
Labelled ==
    ~redecoding /\ upc = "frame" /\ ~cut /\ ~refused =>
        \A k \in Keys : shown[k] # << >> => k \in decoderRows

\* The UI thread, which sends the whole store from one frame, and the dispatch
\* thread, which does not read while it answers, never wait for each other: the
\* RX thread makes room.
StreamEnds == upc # "frame" ~> upc = "frame"

\* Every request is answered, by one DECODE_END or one ERROR, as long as the
\* connection holds.
DecodeAnswered == redecoding ~> ~redecoding \/ cut

\* A re-decode ends, whatever happens to the connection.
DecodeOver == redecoding ~> ~redecoding
=============================================================================
