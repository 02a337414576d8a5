---------------------------------- MODULE Mex ----------------------------------
(***************************************************************************)
(* Message exchange between simulated programs (arch/host/mex): each       *)
(* program is an ucoo::mex::Node connected to a hub, which forwards        *)
(* messages and makes the common date advance when all nodes are idle.     *)
(*                                                                         *)
(* The program of a node is a stack of calls: wait, request, and the       *)
(* handlers dispatch runs inside them.  A request is broadcast and names   *)
(* the node that answers it.  Message types are reserved already.          *)
(***************************************************************************)
EXTENDS Integers, Sequences, FiniteSets

CONSTANTS Nodes,
          MaxDate,          \* bound: dates
          MaxSends,         \* bound: messages a node sends
          MaxRequests,      \* bound: requests a node makes
          NestedRequests    \* may a request handler make a request?

ASSUME MexBounds == IsFiniteSet(Nodes) /\ Nodes # {} /\ "none" \notin Nodes
                    /\ {MaxDate, MaxSends, MaxRequests} \subseteq Nat
                    /\ NestedRequests \in BOOLEAN

Forever == MaxDate + 1      \* wait () has no date
NoReq == [from |-> "none", n |-> 0, to |-> "none"]
NotIdle == -1

VARIABLES
    date, req,          \* date_, req_
    stack,              \* calls in progress, innermost first
    seq,                \* seq_, the number of messages read
    inbox, outbox,      \* messages on the connection to and from the hub
    sends, requests,    \* messages and requests so far
    hubSeq, hubIdle     \* hub: messages sent to each node, date it waits for

node == <<date, req, stack, seq, sends, requests>>
mexVars == <<node, inbox, outbox, hubSeq, hubIdle>>

\* A call: flag tells whether IDLE was sent, or the handler is done.
Frame(kind, until, r) == [kind |-> kind, until |-> until, req |-> r, flag |-> FALSE]
Busy(n) == stack[n] # << >>
Top(n) == Head(stack[n])
In(n, kind) == Busy(n) /\ Top(n).kind = kind

\* The hub sent DATE 0 and every node is synchronised (Node::Node).
MexInit ==
    /\ date = [n \in Nodes |-> 0]
    /\ req = [n \in Nodes |-> NoReq]
    /\ stack = [n \in Nodes |-> << >>]
    /\ seq = [n \in Nodes |-> 1]
    /\ inbox = [n \in Nodes |-> << >>]
    /\ outbox = [n \in Nodes |-> << >>]
    /\ sends = [n \in Nodes |-> 0]
    /\ requests = [n \in Nodes |-> 0]
    /\ hubSeq = [n \in Nodes |-> 1]
    /\ hubIdle = [n \in Nodes |-> NotIdle]

Hub == <<hubSeq, hubIdle>>

Msg(type, until, r, s, at) ==
    [type |-> type, until |-> until, req |-> r, seq |-> s, at |-> at]

\* Mutant of Write: the sequence number counts messages still to be read.
WriteNewSeq(n, type, until, r) ==
    outbox' = [outbox EXCEPT ![n] = Append(@, Msg(type, until, r, hubSeq[n], date[n]))]

\* Every message carries the number of the last one read (and, for the
\* properties, the date).
Write(n, type, until, r) ==
    outbox' = [outbox EXCEPT ![n] = Append(@, Msg(type, until, r, seq[n], date[n]))]

Push(n, frame) == stack' = [stack EXCEPT ![n] = <<frame>> \o @]
Return(n) == stack' = [stack EXCEPT ![n] = Tail(@)]
SetFlag(n, value) == stack' = [stack EXCEPT ![n][1].flag = value]

--------------------------------------------------------------------------------
(* A node. *)

\* The program, or a handler, may go on.
MayCall(n) == ~Busy(n) \/ (In(n, "handler") /\ ~Top(n).flag)

\* wait, only from the program.
Wait(n, until) ==
    /\ ~Busy(n)
    /\ until > date[n]
    /\ Push(n, Frame("wait", until, NoReq))
    /\ UNCHANGED <<date, req, seq, sends, requests, inbox, outbox, Hub>>

\* Top of the loop: signal IDLE state.
WaitIdle(n) ==
    /\ In(n, "wait") /\ ~Top(n).flag
    /\ date[n] # Top(n).until
    /\ Write(n, "idle", Top(n).until, NoReq)
    /\ SetFlag(n, TRUE)
    /\ UNCHANGED <<date, req, seq, sends, requests, inbox, Hub>>

WaitEnd(n) ==
    /\ In(n, "wait") /\ ~Top(n).flag
    /\ date[n] = Top(n).until
    /\ Return(n)
    /\ UNCHANGED <<date, req, seq, sends, requests, inbox, outbox, Hub>>

send(n) ==
    /\ MayCall(n)
    /\ sends[n] < MaxSends
    /\ sends' = [sends EXCEPT ![n] = @ + 1]
    /\ Write(n, "msg", 0, NoReq)
    /\ UNCHANGED <<date, req, stack, seq, requests, inbox, Hub>>

request(n, to) ==
    LET r == [from |-> n, n |-> requests[n] + 1, to |-> to]
    IN  /\ MayCall(n) /\ to # n
        /\ Busy(n) => NestedRequests
        /\ requests[n] < MaxRequests
        /\ requests' = [requests EXCEPT ![n] = @ + 1]
        /\ Write(n, "req", 0, r)
        /\ Push(n, Frame("request", 0, r))
        /\ UNCHANGED <<date, req, seq, sends, inbox, Hub>>

\* The handler of the node asked gives its response.
response(n) ==
    /\ In(n, "handler") /\ ~Top(n).flag
    /\ Top(n).req.to = n
    /\ Write(n, "rsp", 0, req[n])
    /\ req' = [req EXCEPT ![n] = NoReq]
    /\ SetFlag(n, TRUE)
    /\ UNCHANGED <<date, seq, sends, requests, inbox, Hub>>

\* A handler returns; handle_req resets req_.
HandlerEnd(n) ==
    /\ In(n, "handler")
    /\ Top(n).flag \/ Top(n).req.to # n
    /\ Return(n)
    /\ req' = IF Top(n).req = NoReq THEN req ELSE [req EXCEPT ![n] = NoReq]
    /\ UNCHANGED <<date, seq, sends, requests, inbox, outbox, Hub>>

\* recv, in wait once IDLE is sent or in request.
Recv(n, type) ==
    /\ In(n, "request") \/ (In(n, "wait") /\ Top(n).flag)
    /\ inbox[n] # << >>
    /\ Head(inbox[n]).type = type
    /\ inbox' = [inbox EXCEPT ![n] = Tail(@)]
    /\ seq' = [seq EXCEPT ![n] = @ + 1]

\* After a message wait looks at the date again.
Restarted(n) == IF In(n, "wait") THEN [Top(n) EXCEPT !.flag = FALSE] ELSE Top(n)

handle_date(n) ==
    /\ Recv(n, "date")
    /\ date' = [date EXCEPT ![n] = Head(inbox[n]).until]
    /\ stack' = [stack EXCEPT ![n][1] = Restarted(n)]
    /\ UNCHANGED <<req, sends, requests, outbox, Hub>>

\* Mutant of handle_req: the message is dispatched before req_ is known.
handle_reqLate(n) ==
    /\ Recv(n, "req")
    /\ stack' = [stack EXCEPT ![n] = <<Frame("handler", 0, Head(inbox[n]).req),
                                       Restarted(n)>> \o Tail(@)]
    /\ UNCHANGED <<date, req, sends, requests, outbox, Hub>>

\* dispatch to handle_req, then to the handler.
handle_req(n) ==
    /\ Recv(n, "req")
    /\ req' = [req EXCEPT ![n] = Head(inbox[n]).req]
    /\ stack' = [stack EXCEPT ![n] = <<Frame("handler", 0, req'[n]), Restarted(n)>>
                                     \o Tail(@)]
    /\ UNCHANGED <<date, sends, requests, outbox, Hub>>

\* dispatch to the handler of a message that is no request.
HandleMsg(n) ==
    /\ Recv(n, "msg")
    /\ stack' = [stack EXCEPT ![n] = <<Frame("handler", 0, NoReq), Restarted(n)>>
                                     \o Tail(@)]
    /\ UNCHANGED <<date, req, sends, requests, outbox, Hub>>

\* A response ends the innermost request whatever its identifier; wait
\* ignores it.
RecvRsp(n) ==
    /\ Recv(n, "rsp")
    /\ IF In(n, "request") THEN Return(n)
       ELSE stack' = [stack EXCEPT ![n][1] = Restarted(n)]
    /\ UNCHANGED <<date, req, sends, requests, outbox, Hub>>

NodeStep(n) ==
    \/ \E until \in 1..Forever : Wait(n, until)
    \/ WaitIdle(n)
    \/ WaitEnd(n)
    \/ send(n)
    \/ \E to \in Nodes : request(n, to)
    \/ response(n)
    \/ HandlerEnd(n)
    \/ handle_date(n)
    \/ handle_req(n)
    \/ HandleMsg(n)
    \/ RecvRsp(n)

--------------------------------------------------------------------------------
(* The hub (not in the repository). *)

HubReads(n, type) ==
    /\ outbox[n] # << >>
    /\ Head(outbox[n]).type = type
    /\ outbox' = [outbox EXCEPT ![n] = Tail(@)]

\* Send to some nodes, which are not idle any more.
HubSends(to, msg) ==
    /\ inbox' = [n \in Nodes |-> IF n \in to THEN Append(inbox[n], msg) ELSE inbox[n]]
    /\ hubSeq' = [n \in Nodes |-> IF n \in to THEN hubSeq[n] + 1 ELSE hubSeq[n]]
    /\ hubIdle' = [n \in Nodes |-> IF n \in to THEN NotIdle ELSE hubIdle[n]]

\* IDLE counts if the node had read everything sent to it.
HubIdle(n) ==
    LET m == Head(outbox[n])
    IN  /\ HubReads(n, "idle")
        /\ hubIdle' = IF m.seq = hubSeq[n] THEN [hubIdle EXCEPT ![n] = m.until]
                      ELSE hubIdle
        /\ UNCHANGED <<node, inbox, hubSeq>>

HubForwards(n) ==
    /\ \/ HubReads(n, "msg") /\ HubSends(Nodes \ {n}, Head(outbox[n]))
       \/ HubReads(n, "req") /\ HubSends(Nodes \ {n}, Head(outbox[n]))
       \/ HubReads(n, "rsp")
          /\ HubSends(Nodes \cap {Head(outbox[n]).req.from}, Head(outbox[n]))
    /\ UNCHANGED node

\* All nodes are idle: the date is the first one waited for.
HubDate ==
    /\ \A n \in Nodes : hubIdle[n] # NotIdle
    /\ \E d \in 1..MaxDate :
        /\ \E n \in Nodes : hubIdle[n] = d
        /\ \A n \in Nodes : hubIdle[n] >= d
        /\ HubSends(Nodes, Msg("date", d, NoReq, 0, d))
    /\ UNCHANGED <<node, outbox>>

HubStep == HubDate \/ \E n \in Nodes : HubIdle(n) \/ HubForwards(n)

MexNext == HubStep \/ \E n \in Nodes : NodeStep(n)

MexSpec == MexInit /\ [][MexNext]_mexVars

\* Programs and hub run.
MexFairness == WF_mexVars(HubStep) /\ \A n \in Nodes : WF_mexVars(NodeStep(n))
MexFairSpec == MexSpec /\ MexFairness

--------------------------------------------------------------------------------
(* Properties. *)

Requests == [from : Nodes, n : 1..MaxRequests, to : Nodes] \cup {NoReq}

MexTypeOK ==
    /\ date \in [Nodes -> 0..MaxDate]
    /\ req \in [Nodes -> Requests]
    /\ \A n \in Nodes : \A i \in 1..Len(stack[n]) :
        stack[n][i].kind \in {"wait", "request", "handler"}
    /\ \A n \in Nodes : seq[n] + Len(inbox[n]) = hubSeq[n]
    /\ sends \in [Nodes -> 0..MaxSends]
    /\ requests \in [Nodes -> 0..MaxRequests]
    /\ hubIdle \in [Nodes -> NotIdle..Forever]

\* A node that waits for a date never finds itself after it: wait, which tests
\* for equality (mex_node.host.cc:68), would not return.
NeverTooLate ==
    \A n \in Nodes : \A i \in 1..Len(stack[n]) :
        stack[n][i].kind = "wait" => date[n] <= stack[n][i].until

\* Time stands still while a message is on its way: a node that reads it
\* (mex_node.host.cc:60, 75, 94) is at the date of its sender, whatever IDLE
\* messages it crossed.
HandledAtItsDate ==
    \A n \in Nodes :
        inbox[n] # << >> /\ Head(inbox[n]).type # "date"
        => Head(inbox[n]).at = date[n]

\* request returns the response to this request (mex_node.hh:55 "Send a
\* request and return response").
ResponseMatches ==
    \A n \in Nodes :
        In(n, "request") /\ inbox[n] # << >> /\ Head(inbox[n]).type = "rsp"
        => Head(inbox[n]).req = Top(n).req

\* A request is answered, if handlers answer.
RequestReturns == \A n \in Nodes : In(n, "request") ~> ~In(n, "request")

\* wait (date) ends at its date.
WaitReturns ==
    \A n \in Nodes, d \in 1..MaxDate :
        (In(n, "wait") /\ Top(n).until = d) ~> (date[n] = d /\ ~In(n, "wait"))

\* For the run: dates, requests, and the blocking calls.
MexIsExact == MexTypeOK /\ NeverTooLate /\ HandledAtItsDate /\ ResponseMatches
CallsReturn == RequestReturns /\ WaitReturns
================================================================================
