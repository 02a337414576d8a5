------------------------------- MODULE MexProofs -------------------------------
(***************************************************************************)
(* Proofs about the message exchange of simulated programs (Mex), for any  *)
(* nodes: dates, then requests and their responses.                        *)
(***************************************************************************)
EXTENDS Mex, SequenceTheorems, TLAPS

Kinds == {"wait", "request", "handler"}
Frames == [kind : Kinds, until : 0..Forever, req : Requests, flag : BOOLEAN]
Asked == {r \in [from : Nodes, n : 1..MaxRequests, to : Nodes] : r.from # r.to}
Messages == [type : {"idle", "msg", "req", "rsp", "date"}, until : 0..Forever,
             req : Requests, seq : Nat, at : 0..MaxDate]

MexTypes ==
    /\ date \in [Nodes -> 0..MaxDate]
    /\ req \in [Nodes -> Requests]
    /\ stack \in [Nodes -> Seq(Frames)]
    /\ seq \in [Nodes -> Nat]
    /\ inbox \in [Nodes -> Seq(Messages)]
    /\ outbox \in [Nodes -> Seq(Messages)]
    /\ sends \in [Nodes -> 0..MaxSends]
    /\ requests \in [Nodes -> 0..MaxRequests]
    /\ hubSeq \in [Nodes -> Nat]
    /\ hubIdle \in [Nodes -> NotIdle..Forever]

AllAreCounted == \A n \in Nodes : seq[n] + Len(inbox[n]) = hubSeq[n]

--------------------------------------------------------------------------------
(* Dates. *)

Waits(n) == In(n, "wait") /\ Top(n).flag

\* Only the program waits.
WaitIsLast ==
    \A n \in Nodes : \A i \in 1..Len(stack[n]) :
        stack[n][i].kind = "wait" => i = Len(stack[n])

\* The date of a node once it has read what it was sent.
DateIsNext(n) == inbox[n] # << >> /\ inbox[n][1].type = "date"
NextDate(n) == IF DateIsNext(n) THEN inbox[n][1].until ELSE date[n]

SameDate == \A m, n \in Nodes : NextDate(m) = NextDate(n)

SentNow ==
    \A n \in Nodes :
        /\ \A i \in 1..Len(outbox[n]) :
            outbox[n][i].type # "idle" => outbox[n][i].at = NextDate(n)
        /\ \A i \in 1..Len(inbox[n]) :
            inbox[n][i].type # "date" => inbox[n][i].at = NextDate(n)

\* An IDLE that counts is the last thing a node wrote, and it still waits.
IdleIsLast ==
    \A n \in Nodes : \A i \in 1..Len(outbox[n]) :
        outbox[n][i].type = "idle" =>
            /\ outbox[n][i].seq <= seq[n]
            /\ outbox[n][i].seq = seq[n] => /\ i = Len(outbox[n]) /\ Waits(n)
                                            /\ Top(n).until = outbox[n][i].until

\* The hub is right about the nodes it thinks idle.
HubKnows ==
    \A n \in Nodes :
        hubIdle[n] # NotIdle =>
            /\ inbox[n] = << >> /\ outbox[n] = << >>
            /\ Waits(n) /\ Top(n).until = hubIdle[n]

\* A date only comes to a node that waits for it or for a later one.
DateIsFirst ==
    \A n \in Nodes : \A i \in 1..Len(inbox[n]) :
        inbox[n][i].type = "date" =>
            /\ i = 1 /\ Waits(n)
            /\ inbox[n][i].until <= Top(n).until /\ inbox[n][i].until <= MaxDate

Passing == AllAreCounted /\ SameDate /\ SentNow /\ IdleIsLast /\ HubKnows /\ DateIsFirst
DatesInv == MexTypes /\ WaitIsLast /\ NeverTooLate /\ Passing


LEMMA Bounds == /\ {MaxDate, MaxSends, MaxRequests} \subseteq Nat /\ Forever = MaxDate + 1
                /\ NoReq \in Requests /\ NotIdle = -1 /\ Nodes # {} /\ "none" \notin Nodes
  BY MexBounds DEF Forever, Requests, NotIdle

Pushed(f, s) == <<f>> \o s

LEMMA PushedOn ==
  ASSUME NEW S, NEW s \in Seq(S), NEW f \in S
  PROVE  /\ Pushed(f, s) \in Seq(S) /\ Pushed(f, s) # << >>
         /\ Len(Pushed(f, s)) = Len(s) + 1
         /\ Pushed(f, s)[1] = f /\ Head(Pushed(f, s)) = f
         /\ \A i \in 2..Len(s) + 1 : Pushed(f, s)[i] = s[i - 1]
  BY DEF Pushed

LEMMA Appended ==
  ASSUME NEW S, NEW s \in Seq(S), NEW f \in S
  PROVE  /\ Append(s, f) \in Seq(S) /\ Append(s, f) # << >>
         /\ Len(Append(s, f)) = Len(s) + 1
         /\ Append(s, f)[Len(s) + 1] = f
         /\ \A i \in 1..Len(s) : Append(s, f)[i] = s[i]
  OBVIOUS

LEMMA Tailed ==
  ASSUME NEW S, NEW s \in Seq(S), s # << >>
  PROVE  /\ Tail(s) \in Seq(S) /\ Len(Tail(s)) = Len(s) - 1 /\ Len(s) \in Nat \ {0}
         /\ Head(s) \in S /\ s[1] = Head(s)
         /\ \A i \in 1..Len(s) - 1 : Tail(s)[i] = s[i + 1]
         /\ Tail(s) # << >> => Len(s) >= 2 /\ Tail(s)[1] = s[2]
  OBVIOUS

LEMMA Nothing ==
  ASSUME MexTypes, Passing, NEW n \in Nodes, ~Waits(n)
  PROVE  /\ NextDate(n) = date[n] /\ ~DateIsNext(n) /\ hubIdle[n] = NotIdle
         /\ \A i \in 1..Len(inbox[n]) : inbox[n][i].type # "date"
PROOF
  <1>1. \A i \in 1..Len(inbox[n]) : inbox[n][i].type # "date"
    BY DEF Passing, DateIsFirst
  <1>2. inbox[n] \in Seq(Messages)
    BY DEF MexTypes
  <1>3. ~DateIsNext(n)
    BY <1>1, <1>2 DEF DateIsNext
  <1>4. hubIdle[n] = NotIdle
    BY DEF Passing, HubKnows
  <1> QED BY <1>1, <1>3, <1>4 DEF NextDate

\* What a call, or a return, leaves of the program of a node.
LEMMA StackChanges ==
  ASSUME DatesInv, NEW n \in Nodes, ~Waits(n),
         stack' \in [Nodes -> Seq(Frames)], \A m \in Nodes \ {n} : stack'[m] = stack[m],
         UNCHANGED <<date, seq, inbox, outbox, Hub>>
  PROVE  Passing'
PROOF
  <1> USE Bounds
  <1>1. NextDate(n) = date[n] /\ ~DateIsNext(n) /\ hubIdle[n] = NotIdle
        /\ \A i \in 1..Len(inbox[n]) : inbox[n][i].type # "date"
    BY Nothing DEF DatesInv
  <1>2. \A m \in Nodes : NextDate(m)' = NextDate(m) /\ DateIsNext(m)' = DateIsNext(m)
    BY DEF NextDate, DateIsNext
  <1>3. \A m \in Nodes \ {n} : Waits(m)' = Waits(m) /\ Top(m)' = Top(m)
    BY DEF Waits, In, Top, Busy
  <1>4. AllAreCounted' /\ SameDate'
    BY <1>2, Zenon DEF DatesInv, Passing, AllAreCounted, SameDate, Hub
  <1>5. SentNow'
    BY <1>2 DEF DatesInv, Passing, SentNow
  <1>6. IdleIsLast'
    <2> SUFFICES ASSUME NEW m \in Nodes, NEW i \in 1..Len(outbox[m]), outbox[m][i].type = "idle"
                 PROVE  /\ outbox[m][i].seq <= seq[m]
                        /\ outbox[m][i].seq = seq[m] =>
                             /\ i = Len(outbox[m]) /\ Waits(m)'
                             /\ Top(m)'.until = outbox[m][i].until
      BY DEF IdleIsLast
    <2>1. /\ outbox[m][i].seq <= seq[m]
          /\ outbox[m][i].seq = seq[m] =>
               /\ i = Len(outbox[m]) /\ Waits(m)
               /\ Top(m).until = outbox[m][i].until
      BY DEF DatesInv, Passing, IdleIsLast
    <2>2. outbox[m][i].seq = seq[m] => m \in Nodes \ {n}
      BY <2>1
    <2> QED BY ONLY <2>1, <2>2, <1>3
  <1>7. HubKnows'
    <2> SUFFICES ASSUME NEW m \in Nodes, hubIdle[m] # NotIdle
                 PROVE  /\ inbox[m] = << >> /\ outbox[m] = << >>
                        /\ Waits(m)' /\ Top(m)'.until = hubIdle[m]
      BY DEF HubKnows, Hub
    <2>1. m \in Nodes \ {n}
      BY <1>1
    <2>2. inbox[m] = << >> /\ outbox[m] = << >> /\ Waits(m) /\ Top(m).until = hubIdle[m]
      BY DEF DatesInv, Passing, HubKnows
    <2> QED BY ONLY <2>1, <2>2, <1>3
  <1>8. DateIsFirst'
    BY <1>1, <1>3 DEF DatesInv, Passing, DateIsFirst
  <1> QED BY <1>4, <1>5, <1>6, <1>7, <1>8 DEF Passing

LEMMA Writes ==
  ASSUME DatesInv, NEW n \in Nodes, ~Waits(n), NEW msg \in Messages,
         msg.seq = seq[n], msg.at = date[n],
         msg.type = "idle" => Waits(n)' /\ Top(n)'.until = msg.until,
         stack' \in [Nodes -> Seq(Frames)], \A m \in Nodes \ {n} : stack'[m] = stack[m],
         outbox' = [outbox EXCEPT ![n] = Append(@, msg)],
         UNCHANGED <<date, seq, inbox, Hub>>
  PROVE  Passing' /\ outbox' \in [Nodes -> Seq(Messages)]
PROOF
  <1> USE Bounds
  <1>0. MexTypes
    BY DEF DatesInv
  <1>1. NextDate(n) = date[n] /\ ~DateIsNext(n) /\ hubIdle[n] = NotIdle
        /\ \A i \in 1..Len(inbox[n]) : inbox[n][i].type # "date"
    BY Nothing DEF DatesInv
  <1>2. \A m \in Nodes : NextDate(m)' = NextDate(m) /\ DateIsNext(m)' = DateIsNext(m)
    BY DEF NextDate, DateIsNext
  <1>3. \A m \in Nodes \ {n} : Waits(m)' = Waits(m) /\ Top(m)' = Top(m)
    BY DEF Waits, In, Top, Busy
  <1>4. AllAreCounted' /\ SameDate'
    BY <1>2, Zenon DEF DatesInv, Passing, AllAreCounted, SameDate, Hub
  <1>o. outbox[n] \in Seq(Messages) /\ seq[n] \in Nat
    BY <1>0 DEF MexTypes
  <1>a. /\ outbox'[n] \in Seq(Messages) /\ outbox'[n] # << >>
        /\ Len(outbox'[n]) = Len(outbox[n]) + 1
        /\ outbox'[n][Len(outbox[n]) + 1] = msg
        /\ \A i \in 1..Len(outbox[n]) : outbox'[n][i] = outbox[n][i]
    <2>1. outbox'[n] = Append(outbox[n], msg)
      BY <1>0 DEF MexTypes
    <2> HIDE <1>0
    <2> QED BY <1>o, <2>1, Appended
  <1>b. \A m \in Nodes \ {n} : outbox'[m] = outbox[m]
    BY <1>0 DEF MexTypes
  <1>c. outbox' \in [Nodes -> Seq(Messages)]
    BY <1>0, <1>a, <1>b DEF MexTypes
  <1>5. SentNow'
    <2> SUFFICES ASSUME NEW m \in Nodes
                 PROVE  /\ \A i \in 1..Len(outbox'[m]) :
                            outbox'[m][i].type # "idle" => outbox'[m][i].at = NextDate(m)
                        /\ \A i \in 1..Len(inbox[m]) :
                            inbox[m][i].type # "date" => inbox[m][i].at = NextDate(m)
      BY <1>2 DEF SentNow
    <2>1. CASE m # n
      BY <2>1, <1>b DEF DatesInv, Passing, SentNow
    <2>2. CASE m = n
      <3>1. \A i \in 1..Len(outbox'[n]) : i \in 1..Len(outbox[n]) \/ i = Len(outbox[n]) + 1
        BY <1>a, <1>o
      <3>2. \A i \in 1..Len(outbox[n]) :
              outbox[n][i].type # "idle" => outbox[n][i].at = NextDate(n)
        BY DEF DatesInv, Passing, SentNow
      <3>3. \A i \in 1..Len(inbox[n]) :
              inbox[n][i].type # "date" => inbox[n][i].at = NextDate(n)
        BY DEF DatesInv, Passing, SentNow
      <3>4. \A i \in 1..Len(outbox'[n]) :
              outbox'[n][i].type # "idle" => outbox'[n][i].at = NextDate(n)
        BY <3>1, <3>2, <1>a, <1>1
      <3> QED BY <2>2, <3>3, <3>4
    <2> QED BY <2>1, <2>2
  <1>6. IdleIsLast'
    <2> SUFFICES ASSUME NEW m \in Nodes, NEW i \in 1..Len(outbox'[m]), outbox'[m][i].type = "idle"
                 PROVE  /\ outbox'[m][i].seq <= seq'[m]
                        /\ outbox'[m][i].seq = seq'[m] =>
                             /\ i = Len(outbox'[m]) /\ Waits(m)'
                             /\ Top(m)'.until = outbox'[m][i].until
      BY Zenon DEF IdleIsLast
    <2>1. CASE m # n
      BY <2>1, <1>b, <1>3 DEF DatesInv, Passing, IdleIsLast
    <2>2. CASE m = n
      <3>1. i \in 1..Len(outbox[n]) \/ i = Len(outbox[n]) + 1
        BY <1>a, <1>o, <2>2
      <3> QED BY <3>1, <2>2, <1>a, <1>o DEF DatesInv, Passing, IdleIsLast
    <2> QED BY <2>1, <2>2
  <1>7. HubKnows'
    BY <1>1, <1>3, <1>b DEF DatesInv, Passing, HubKnows, Hub
  <1>8. DateIsFirst'
    BY <1>1, <1>3 DEF DatesInv, Passing, DateIsFirst
  <1> QED BY <1>4, <1>5, <1>6, <1>7, <1>8, <1>c DEF Passing

LEMMA Reads ==
  ASSUME DatesInv, NEW n \in Nodes, inbox[n] # << >>,
         inbox' = [inbox EXCEPT ![n] = Tail(@)], seq' = [seq EXCEPT ![n] = @ + 1],
         date' = IF DateIsNext(n) THEN [date EXCEPT ![n] = inbox[n][1].until] ELSE date,
         stack' \in [Nodes -> Seq(Frames)], \A m \in Nodes \ {n} : stack'[m] = stack[m],
         UNCHANGED <<outbox, Hub>>
  PROVE  Passing' /\ inbox' \in [Nodes -> Seq(Messages)] /\ seq' \in [Nodes -> Nat]
PROOF
  <1> USE Bounds
  <1>0. MexTypes
    BY DEF DatesInv
  <1>o. inbox[n] \in Seq(Messages) /\ seq[n] \in Nat
    BY <1>0 DEF MexTypes
  <1>a. /\ inbox'[n] \in Seq(Messages) /\ Len(inbox'[n]) = Len(inbox[n]) - 1
        /\ Len(inbox[n]) \in Nat \ {0}
        /\ \A i \in 1..Len(inbox'[n]) : inbox'[n][i] = inbox[n][i + 1]
        /\ inbox'[n] # << >> => Len(inbox[n]) >= 2 /\ inbox'[n][1] = inbox[n][2]
    <2>1. inbox'[n] = Tail(inbox[n])
      BY <1>0 DEF MexTypes
    <2>2. inbox[n] # << >>
      OBVIOUS
    <2> QED BY ONLY <1>o, <2>1, <2>2, Tailed
  <1>b. \A m \in Nodes \ {n} : inbox'[m] = inbox[m] /\ seq'[m] = seq[m] /\ date'[m] = date[m]
    <2>1. \A m \in Nodes \ {n} : inbox'[m] = inbox[m] /\ seq'[m] = seq[m]
      BY <1>0 DEF MexTypes
    <2>2. \A m \in Nodes \ {n} : date'[m] = date[m]
      BY <1>0, Zenon DEF MexTypes
    <2> QED BY <2>1, <2>2
  <1>s. seq'[n] = seq[n] + 1 /\ seq' \in [Nodes -> Nat]
    <2>1. seq \in [Nodes -> Nat] /\ n \in Nodes /\ seq' = [seq EXCEPT ![n] = @ + 1]
      BY <1>0 DEF MexTypes
    <2> QED BY ONLY <2>1
  <1>c. inbox' \in [Nodes -> Seq(Messages)]
    BY <1>0, <1>a, <1>b DEF MexTypes
  <1>d. \A i \in 1..Len(inbox'[n]) : inbox'[n][i].type # "date"
    <2> SUFFICES ASSUME NEW i \in 1..Len(inbox'[n]), inbox'[n][i].type = "date" PROVE FALSE
      OBVIOUS
    <2>1. i + 1 \in 1..Len(inbox[n]) /\ inbox'[n][i] = inbox[n][i + 1] /\ i \in Nat \ {0}
      BY <1>a
    <2>2. i + 1 = 1
      BY <2>1 DEF DatesInv, Passing, DateIsFirst
    <2> QED BY <2>1, <2>2
  <1>e. ~DateIsNext(n)'
    BY <1>a, <1>d DEF DateIsNext
  <1>f. date'[n] = NextDate(n)
    <2>1. CASE DateIsNext(n)
      BY <1>0, <2>1 DEF NextDate, MexTypes
    <2>2. CASE ~DateIsNext(n)
      BY <1>0, <2>2 DEF NextDate, MexTypes
    <2> QED BY <2>1, <2>2
  <1>2. \A m \in Nodes : NextDate(m)' = NextDate(m)
    <2>1. NextDate(n)' = NextDate(n)
      BY <1>e, <1>f DEF NextDate
    <2>2. \A m \in Nodes \ {n} : DateIsNext(m)' = DateIsNext(m)
      BY <1>b, Zenon DEF DateIsNext
    <2>3. \A m \in Nodes \ {n} : NextDate(m)' = NextDate(m)
      <3> SUFFICES ASSUME NEW m \in Nodes \ {n} PROVE NextDate(m)' = NextDate(m)
        OBVIOUS
      <3>1. inbox'[m] = inbox[m] /\ date'[m] = date[m] /\ DateIsNext(m)' = DateIsNext(m)
        BY <1>b, <2>2
      <3>2. CASE DateIsNext(m)
        BY <3>1, <3>2 DEF NextDate
      <3>3. CASE ~DateIsNext(m)
        BY <3>1, <3>3 DEF NextDate
      <3> QED BY <3>2, <3>3
    <2> QED BY <2>1, <2>3
  <1>3. \A m \in Nodes \ {n} : Waits(m)' = Waits(m) /\ Top(m)' = Top(m)
    BY DEF Waits, In, Top, Busy
  <1>4. AllAreCounted'
    <2> SUFFICES ASSUME NEW m \in Nodes PROVE seq'[m] + Len(inbox'[m]) = hubSeq[m]
      BY DEF AllAreCounted, Hub
    <2>1. seq[m] + Len(inbox[m]) = hubSeq[m]
      BY DEF DatesInv, Passing, AllAreCounted
    <2>2. CASE m # n
      BY <2>1, <2>2, <1>b
    <2>3. CASE m = n
      <3>1. Len(inbox'[n]) = Len(inbox[n]) - 1 /\ Len(inbox[n]) \in Nat /\ seq[n] \in Nat
            /\ seq'[n] = seq[n] + 1
        BY <1>a, <1>s, <1>o
      <3>2. \A a, b \in Nat : (a + 1) + (b - 1) = a + b
        OBVIOUS
      <3> QED BY ONLY <2>1, <2>3, <3>1, <3>2, Zenon
    <2> QED BY <2>2, <2>3
  <1>4a. SameDate'
    BY <1>2, Zenon DEF DatesInv, Passing, SameDate
  <1>5. SentNow'
    <2> SUFFICES ASSUME NEW m \in Nodes
                 PROVE  /\ \A i \in 1..Len(outbox[m]) :
                            outbox[m][i].type # "idle" => outbox[m][i].at = NextDate(m)
                        /\ \A i \in 1..Len(inbox'[m]) :
                            inbox'[m][i].type # "date" => inbox'[m][i].at = NextDate(m)
      BY <1>2 DEF SentNow
    <2>1. CASE m # n
      BY <2>1, <1>b DEF DatesInv, Passing, SentNow
    <2>2. CASE m = n
      <3>1. \A i \in 1..Len(inbox'[n]) : i + 1 \in 1..Len(inbox[n])
        BY <1>a, <1>o
      <3>2. \A i \in 1..Len(outbox[n]) :
              outbox[n][i].type # "idle" => outbox[n][i].at = NextDate(n)
        BY DEF DatesInv, Passing, SentNow
      <3>3. \A i \in 1..Len(inbox[n]) :
              inbox[n][i].type # "date" => inbox[n][i].at = NextDate(n)
        BY DEF DatesInv, Passing, SentNow
      <3>4. \A i \in 1..Len(inbox'[n]) :
              inbox'[n][i].type # "date" => inbox'[n][i].at = NextDate(n)
        BY ONLY <3>1, <3>3, <1>a
      <3> QED BY <2>2, <3>2, <3>4
    <2> QED BY <2>1, <2>2
  <1>6. IdleIsLast'
    <2> SUFFICES ASSUME NEW m \in Nodes, NEW i \in 1..Len(outbox[m]), outbox[m][i].type = "idle"
                 PROVE  /\ outbox[m][i].seq <= seq'[m]
                        /\ outbox[m][i].seq = seq'[m] =>
                             /\ i = Len(outbox[m]) /\ Waits(m)'
                             /\ Top(m)'.until = outbox[m][i].until
      BY DEF IdleIsLast
    <2>1. CASE m # n
      BY <2>1, <1>b, <1>3 DEF DatesInv, Passing, IdleIsLast
    <2>2. CASE m = n
      <3>1. outbox[n] \in Seq(Messages)
        BY <1>0 DEF MexTypes
      <3>2. outbox[n][i].seq \in Nat
        <4>1. outbox[n][i] \in Messages
          BY <3>1, <2>2
        <4> QED BY <4>1 DEF Messages
      <3>3. outbox[n][i].seq <= seq[n]
        BY <2>2 DEF DatesInv, Passing, IdleIsLast
      <3>4. outbox[n][i].seq <= seq'[n] /\ outbox[n][i].seq # seq'[n]
        BY ONLY <3>2, <3>3, <1>s, <1>o
      <3> QED BY <3>4, <2>2
    <2> QED BY <2>1, <2>2
  <1>7. HubKnows'
    <2> SUFFICES ASSUME NEW m \in Nodes, hubIdle[m] # NotIdle
                 PROVE  /\ inbox'[m] = << >> /\ outbox[m] = << >>
                        /\ Waits(m)' /\ Top(m)'.until = hubIdle[m]
      BY DEF HubKnows, Hub
    <2>1. inbox[m] = << >> /\ outbox[m] = << >> /\ Waits(m) /\ Top(m).until = hubIdle[m]
      BY DEF DatesInv, Passing, HubKnows
    <2>2. m \in Nodes \ {n}
      BY <2>1
    <2> QED BY ONLY <2>1, <2>2, <1>3, <1>b
  <1>8. DateIsFirst'
    BY <1>b, <1>d, <1>3 DEF DatesInv, Passing, DateIsFirst
  <1> QED BY <1>4, <1>4a, <1>5, <1>6, <1>7, <1>8, <1>c, <1>s DEF Passing
LEMMA HubReadsIdle ==
  ASSUME DatesInv, NEW n \in Nodes, HubIdle(n)
  PROVE  DatesInv'
PROOF
  <1> USE Bounds
  <1>0. MexTypes /\ outbox[n] # << >>
    BY DEF DatesInv, HubIdle, HubReads
  <1>o. outbox[n] \in Seq(Messages) /\ inbox[n] \in Seq(Messages) /\ seq[n] \in Nat
        /\ hubSeq[n] \in Nat
    BY <1>0 DEF MexTypes
  <1>u. UNCHANGED <<date, req, stack, seq, sends, requests, inbox, hubSeq>>
    BY DEF HubIdle, node
  <1>a. /\ outbox'[n] \in Seq(Messages) /\ Len(outbox'[n]) = Len(outbox[n]) - 1
        /\ Len(outbox[n]) \in Nat \ {0}
        /\ Head(outbox[n]) \in Messages /\ outbox[n][1] = Head(outbox[n])
        /\ \A i \in 1..Len(outbox'[n]) : outbox'[n][i] = outbox[n][i + 1]
    <2>1. outbox'[n] = Tail(outbox[n])
      BY <1>0 DEF MexTypes, HubIdle, HubReads
    <2> QED BY ONLY <1>0, <1>o, <2>1, Tailed
  <1>b. \A m \in Nodes \ {n} : outbox'[m] = outbox[m] /\ hubIdle'[m] = hubIdle[m]
    BY <1>0 DEF MexTypes, HubIdle, HubReads
  <1>c. outbox' \in [Nodes -> Seq(Messages)]
    BY <1>0, <1>a, <1>b DEF MexTypes, HubIdle, HubReads
  <1>m. Head(outbox[n]).type = "idle" /\ Head(outbox[n]).seq \in Nat
        /\ Head(outbox[n]).until \in 0..Forever
    BY <1>a DEF Messages, HubIdle, HubReads
  <1>h. hubIdle'[n] = IF Head(outbox[n]).seq = hubSeq[n] THEN Head(outbox[n]).until ELSE hubIdle[n]
    BY <1>0 DEF HubIdle, MexTypes
  <1>i. hubIdle' \in [Nodes -> NotIdle..Forever]
    <2>1. Head(outbox[n]).until \in NotIdle..Forever
      BY <1>m
    <2>2. hubIdle \in [Nodes -> NotIdle..Forever]
      BY <1>0 DEF MexTypes
    <2> QED BY ONLY <2>1, <2>2, HubIdle(n) DEF HubIdle
  <1>1. MexTypes'
    BY <1>0, <1>u, <1>c, <1>i DEF MexTypes
  <1>2. \A m \in Nodes : NextDate(m)' = NextDate(m) /\ Waits(m)' = Waits(m) /\ Top(m)' = Top(m)
    BY <1>u DEF NextDate, DateIsNext, Waits, In, Top, Busy
  <1>3. WaitIsLast' /\ NeverTooLate'
    BY <1>u DEF DatesInv, WaitIsLast, NeverTooLate
  <1>4. AllAreCounted' /\ SameDate'
    BY <1>2, <1>u, Zenon DEF DatesInv, Passing, AllAreCounted, SameDate
  <1>5. SentNow'
    <2> SUFFICES ASSUME NEW m \in Nodes
                 PROVE  /\ \A i \in 1..Len(outbox'[m]) :
                            outbox'[m][i].type # "idle" => outbox'[m][i].at = NextDate(m)
                        /\ \A i \in 1..Len(inbox[m]) :
                            inbox[m][i].type # "date" => inbox[m][i].at = NextDate(m)
      BY <1>2, <1>u DEF SentNow
    <2>1. \A i \in 1..Len(outbox'[n]) : i + 1 \in 1..Len(outbox[n])
      BY <1>a
    <2>2. \A k \in Nodes : \A i \in 1..Len(outbox[k]) :
            outbox[k][i].type # "idle" => outbox[k][i].at = NextDate(k)
      BY DEF DatesInv, Passing, SentNow
    <2>3. \A i \in 1..Len(inbox[m]) : inbox[m][i].type # "date" => inbox[m][i].at = NextDate(m)
      BY DEF DatesInv, Passing, SentNow
    <2>6. \A i \in 1..Len(outbox'[n]) :
            outbox'[n][i].type # "idle" => outbox'[n][i].at = NextDate(n)
      BY <2>1, <2>2, <1>a
    <2>4. CASE m = n
      BY <2>6, <2>3, <2>4
    <2>5. CASE m # n
      BY <2>2, <2>3, <2>5, <1>b
    <2> QED BY <2>4, <2>5
  <1>6. IdleIsLast'
    <2> SUFFICES ASSUME NEW m \in Nodes, NEW i \in 1..Len(outbox'[m]), outbox'[m][i].type = "idle"
                 PROVE  /\ outbox'[m][i].seq <= seq[m]
                        /\ outbox'[m][i].seq = seq[m] =>
                             /\ i = Len(outbox'[m]) /\ Waits(m)
                             /\ Top(m).until = outbox'[m][i].until
      BY <1>u, <1>2 DEF IdleIsLast
    <2>1. CASE m # n
      BY <2>1, <1>b DEF DatesInv, Passing, IdleIsLast
    <2>2. CASE m = n
      <3>1. i + 1 \in 1..Len(outbox[n]) /\ outbox[n][i + 1] = outbox'[n][i] /\ i \in Nat
        <4>1. i \in 1..Len(outbox'[n])
          BY <2>2
        <4> QED BY ONLY <4>1, <1>a
      <3>2. /\ outbox[n][i + 1].seq <= seq[n]
            /\ outbox[n][i + 1].seq = seq[n] =>
                 /\ i + 1 = Len(outbox[n]) /\ Waits(n)
                 /\ Top(n).until = outbox[n][i + 1].until
        BY <3>1, <2>2 DEF DatesInv, Passing, IdleIsLast
      <3>3. i + 1 = Len(outbox[n]) => i = Len(outbox'[n])
        BY <3>1, <1>a
      <3> QED BY <3>1, <3>2, <3>3, <2>2
    <2> QED BY <2>1, <2>2
  <1>7. HubKnows'
    <2> SUFFICES ASSUME NEW m \in Nodes, hubIdle'[m] # NotIdle
                 PROVE  /\ inbox[m] = << >> /\ outbox'[m] = << >>
                        /\ Waits(m) /\ Top(m).until = hubIdle'[m]
      BY <1>u, <1>2 DEF HubKnows
    <2>1. CASE m # n
      BY <2>1, <1>b DEF DatesInv, Passing, HubKnows
    <2>2. CASE m = n
      <3>1. hubIdle[n] = NotIdle
        BY <1>0 DEF DatesInv, Passing, HubKnows
      <3>2. Head(outbox[n]).seq = hubSeq[n] /\ hubIdle'[n] = Head(outbox[n]).until
        BY <3>1, <2>2, <1>h
      <3>3. /\ Head(outbox[n]).seq <= seq[n]
            /\ Head(outbox[n]).seq = seq[n] =>
                 /\ 1 = Len(outbox[n]) /\ Waits(n)
                 /\ Top(n).until = Head(outbox[n]).until
        <4>1. 1 \in 1..Len(outbox[n])
          BY <1>a
        <4> QED BY <4>1, <1>a, <1>m DEF DatesInv, Passing, IdleIsLast
      <3>4. seq[n] + Len(inbox[n]) = hubSeq[n]
        BY DEF DatesInv, Passing, AllAreCounted
      <3>5. Len(inbox[n]) = 0 /\ Head(outbox[n]).seq = seq[n]
        <4>1. Len(inbox[n]) \in Nat
          BY <1>o
        <4> QED BY <4>1, <3>2, <3>3, <3>4, <1>o, <1>m
      <3>6. Len(outbox'[n]) = 0
        BY <3>3, <3>5, <1>a
      <3>7. inbox[n] = << >> /\ outbox'[n] = << >>
        BY <3>5, <3>6, <1>a, <1>o
      <3> QED BY <3>7, <3>2, <3>3, <3>5, <2>2
    <2> QED BY <2>1, <2>2
  <1>8. DateIsFirst'
    BY <1>2, <1>u DEF DatesInv, Passing, DateIsFirst
  <1> QED BY <1>1, <1>3, <1>4, <1>5, <1>6, <1>7, <1>8 DEF DatesInv, Passing

\* What the hub sends to some nodes is in their inbox, after what was there.
LEMMA Sent ==
  ASSUME MexTypes, NEW to, NEW msg \in Messages, HubSends(to, msg)
  PROVE  /\ inbox' \in [Nodes -> Seq(Messages)] /\ hubSeq' \in [Nodes -> Nat]
         /\ hubIdle' \in [Nodes -> NotIdle..Forever]
         /\ \A m \in Nodes :
              /\ Len(inbox[m]) \in Nat
              /\ \A i \in 1..Len(inbox[m]) : inbox'[m][i] = inbox[m][i]
              /\ m \in to => /\ Len(inbox'[m]) = Len(inbox[m]) + 1
                             /\ inbox'[m][Len(inbox[m]) + 1] = msg
                             /\ inbox'[m] # << >> /\ hubIdle'[m] = NotIdle
                             /\ hubSeq'[m] = hubSeq[m] + 1
              /\ m \notin to => /\ inbox'[m] = inbox[m] /\ hubIdle'[m] = hubIdle[m]
                                /\ hubSeq'[m] = hubSeq[m]
PROOF
  <1> USE Bounds
  <1>1. \A m \in Nodes : inbox[m] \in Seq(Messages) /\ hubSeq[m] \in Nat /\ hubIdle[m] \in NotIdle..Forever
    BY DEF MexTypes
  <1>2. ASSUME NEW m \in Nodes
        PROVE  /\ inbox'[m] \in Seq(Messages) /\ hubSeq'[m] \in Nat
               /\ hubIdle'[m] \in NotIdle..Forever
               /\ Len(inbox[m]) \in Nat
               /\ \A i \in 1..Len(inbox[m]) : inbox'[m][i] = inbox[m][i]
               /\ m \in to => /\ Len(inbox'[m]) = Len(inbox[m]) + 1
                              /\ inbox'[m][Len(inbox[m]) + 1] = msg
                              /\ inbox'[m] # << >> /\ hubIdle'[m] = NotIdle
                              /\ hubSeq'[m] = hubSeq[m] + 1
               /\ m \notin to => /\ inbox'[m] = inbox[m] /\ hubIdle'[m] = hubIdle[m]
                                 /\ hubSeq'[m] = hubSeq[m]
    <2>1. CASE m \in to
      <3>1. inbox'[m] = Append(inbox[m], msg) /\ hubIdle'[m] = NotIdle /\ hubSeq'[m] = hubSeq[m] + 1
        BY <2>1 DEF HubSends
      <3>2. NotIdle \in NotIdle..Forever
        OBVIOUS
      <3>3. /\ Append(inbox[m], msg) \in Seq(Messages) /\ Append(inbox[m], msg) # << >>
            /\ Len(Append(inbox[m], msg)) = Len(inbox[m]) + 1
            /\ Append(inbox[m], msg)[Len(inbox[m]) + 1] = msg
            /\ \A i \in 1..Len(inbox[m]) : Append(inbox[m], msg)[i] = inbox[m][i]
        BY ONLY <1>1, Appended, msg \in Messages, m \in Nodes
      <3>4. Len(inbox[m]) \in Nat
        BY <1>1
      <3>5. hubSeq[m] + 1 \in Nat
        BY <1>1
      <3> HIDE DEF HubSends
      <3> QED BY <3>1, <3>2, <3>3, <3>4, <3>5, <2>1
    <2>2. CASE m \notin to
      <3>1. inbox'[m] = inbox[m] /\ hubIdle'[m] = hubIdle[m] /\ hubSeq'[m] = hubSeq[m]
        BY <2>2 DEF HubSends
      <3> QED BY <3>1, <2>2, <1>1
    <2> QED BY <2>1, <2>2
  <1>3. /\ inbox' = [m \in Nodes |-> inbox'[m]] /\ hubSeq' = [m \in Nodes |-> hubSeq'[m]]
        /\ hubIdle' = [m \in Nodes |-> hubIdle'[m]]
    BY DEF HubSends
  <1>4. /\ inbox' \in [Nodes -> Seq(Messages)] /\ hubSeq' \in [Nodes -> Nat]
        /\ hubIdle' \in [Nodes -> NotIdle..Forever]
    BY <1>2, <1>3
  <1> QED BY <1>2, <1>4

\* What the hub reads is the head of what a node wrote.
LEMMA Read ==
  ASSUME MexTypes, NEW n \in Nodes, outbox[n] # << >>,
         outbox' = [outbox EXCEPT ![n] = Tail(@)]
  PROVE  /\ outbox' \in [Nodes -> Seq(Messages)]
         /\ \A m \in Nodes \ {n} : outbox'[m] = outbox[m]
         /\ Len(outbox'[n]) = Len(outbox[n]) - 1 /\ Len(outbox[n]) \in Nat \ {0}
         /\ Head(outbox[n]) \in Messages /\ outbox[n][1] = Head(outbox[n])
         /\ \A i \in 1..Len(outbox'[n]) :
              i + 1 \in 1..Len(outbox[n]) /\ outbox'[n][i] = outbox[n][i + 1]
PROOF
  <1>1. outbox[n] \in Seq(Messages)
    BY DEF MexTypes
  <1>2. outbox'[n] = Tail(outbox[n])
    BY DEF MexTypes
  <1>3. /\ outbox'[n] \in Seq(Messages) /\ Len(outbox'[n]) = Len(outbox[n]) - 1
        /\ Len(outbox[n]) \in Nat \ {0}
        /\ Head(outbox[n]) \in Messages /\ outbox[n][1] = Head(outbox[n])
        /\ \A i \in 1..Len(outbox'[n]) : outbox'[n][i] = outbox[n][i + 1]
    <2>1. outbox[n] # << >>
      OBVIOUS
    <2> QED BY ONLY <1>1, <1>2, <2>1, Tailed
  <1>4. \A m \in Nodes \ {n} : outbox'[m] = outbox[m]
    BY DEF MexTypes
  <1>5. outbox' \in [Nodes -> Seq(Messages)]
    BY <1>3, <1>4 DEF MexTypes
  <1>6. \A i \in 1..Len(outbox'[n]) : i + 1 \in 1..Len(outbox[n])
    BY <1>3
  <1> QED BY <1>3, <1>4, <1>5, <1>6

LEMMA Forwards ==
  ASSUME DatesInv, NEW n \in Nodes, outbox[n] # << >>,
         Head(outbox[n]).type \in {"msg", "req", "rsp"},
         outbox' = [outbox EXCEPT ![n] = Tail(@)],
         NEW to, HubSends(to, Head(outbox[n])), UNCHANGED node
  PROVE  DatesInv'
PROOF
  <1> USE Bounds
  <1>0. MexTypes
    BY DEF DatesInv
  <1>u. UNCHANGED <<date, req, stack, seq, sends, requests>>
    BY DEF node
  <1>r. /\ outbox' \in [Nodes -> Seq(Messages)]
        /\ \A m \in Nodes \ {n} : outbox'[m] = outbox[m]
        /\ Len(outbox'[n]) = Len(outbox[n]) - 1 /\ Len(outbox[n]) \in Nat \ {0}
        /\ Head(outbox[n]) \in Messages /\ outbox[n][1] = Head(outbox[n])
        /\ \A i \in 1..Len(outbox'[n]) :
             i + 1 \in 1..Len(outbox[n]) /\ outbox'[n][i] = outbox[n][i + 1]
    BY <1>0, Read
  <1> DEFINE msg == Head(outbox[n])
  <1>g. msg \in Messages /\ msg.type # "date" /\ msg.type # "idle"
    BY <1>r
  <1>s. /\ inbox' \in [Nodes -> Seq(Messages)] /\ hubSeq' \in [Nodes -> Nat]
        /\ hubIdle' \in [Nodes -> NotIdle..Forever]
        /\ \A m \in Nodes :
             /\ Len(inbox[m]) \in Nat
             /\ \A i \in 1..Len(inbox[m]) : inbox'[m][i] = inbox[m][i]
             /\ m \in to => /\ Len(inbox'[m]) = Len(inbox[m]) + 1
                            /\ inbox'[m][Len(inbox[m]) + 1] = msg
                            /\ inbox'[m] # << >> /\ hubIdle'[m] = NotIdle
                            /\ hubSeq'[m] = hubSeq[m] + 1
             /\ m \notin to => /\ inbox'[m] = inbox[m] /\ hubIdle'[m] = hubIdle[m]
                               /\ hubSeq'[m] = hubSeq[m]
    BY <1>0, <1>g, Sent
  <1> HIDE DEF msg
  <1>i. ASSUME NEW m \in Nodes, NEW i \in 1..Len(inbox'[m])
        PROVE  \/ i \in 1..Len(inbox[m]) /\ inbox'[m][i] = inbox[m][i]
               \/ inbox'[m][i] = msg
    <2>1. CASE m \in to
      <3>1. i \in 1..Len(inbox[m]) \/ i = Len(inbox[m]) + 1
        <4>1. Len(inbox[m]) \in Nat /\ Len(inbox'[m]) = Len(inbox[m]) + 1 /\ i \in 1..Len(inbox'[m])
          BY <2>1, <1>s
        <4> QED BY ONLY <4>1
      <3> QED BY <3>1, <2>1, <1>s
    <2>2. CASE m \notin to
      BY <2>2, <1>s
    <2> QED BY <2>1, <2>2
  <1>1. MexTypes'
    BY <1>0, <1>u, <1>r, <1>s DEF MexTypes
  <1>2. \A m \in Nodes : Waits(m)' = Waits(m) /\ Top(m)' = Top(m)
    BY <1>u DEF Waits, In, Top, Busy
  <1>3. WaitIsLast' /\ NeverTooLate'
    BY <1>u DEF DatesInv, WaitIsLast, NeverTooLate
  <1>n. ASSUME NEW m \in Nodes PROVE NextDate(m)' = NextDate(m)
    <2>1. inbox[m] \in Seq(Messages) /\ inbox'[m] \in Seq(Messages)
      BY <1>0, <1>s DEF MexTypes
    <2>2. CASE inbox[m] = << >>
      <3>1. inbox'[m] # << >> => inbox'[m][1] = msg
        <4>1. CASE m \in to
          <5>1. Len(inbox[m]) = 0
            BY ONLY <2>2
          <5>2. inbox'[m][Len(inbox[m]) + 1] = msg
            BY <1>s, <4>1
          <5> QED BY ONLY <5>1, <5>2
        <4>2. CASE m \notin to
          BY <1>s, <2>2, <4>2
        <4> QED BY <4>1, <4>2
      <3> QED BY <3>1, <2>2, <1>g, <1>u DEF NextDate, DateIsNext
    <2>3. CASE inbox[m] # << >>
      <3>1. 1 \in 1..Len(inbox[m])
        BY <2>1, <2>3
      <3>2. inbox'[m] # << >> /\ inbox'[m][1] = inbox[m][1]
        BY <3>1, <1>s, <2>3
      <3> QED BY <3>2, <2>3, <1>u DEF NextDate, DateIsNext
    <2> QED BY <2>2, <2>3
  <1>4. SameDate'
    BY <1>n, Zenon DEF DatesInv, Passing, SameDate
  <1>c. AllAreCounted'
    <2> SUFFICES ASSUME NEW m \in Nodes PROVE seq'[m] + Len(inbox'[m]) = hubSeq'[m]
      BY DEF AllAreCounted
    <2>1. seq[m] + Len(inbox[m]) = hubSeq[m] /\ seq'[m] = seq[m]
      BY <1>u DEF DatesInv, Passing, AllAreCounted
    <2>2. seq[m] \in Nat /\ Len(inbox[m]) \in Nat
      BY <1>0, <1>s DEF MexTypes
    <2>3. CASE m \in to
      <3>1. Len(inbox'[m]) = Len(inbox[m]) + 1 /\ hubSeq'[m] = hubSeq[m] + 1
        BY <2>3, <1>s
      <3>2. \A a, b \in Nat : a + (b + 1) = (a + b) + 1
        OBVIOUS
      <3> QED BY ONLY <3>1, <3>2, <2>1, <2>2, Zenon
    <2>4. CASE m \notin to
      <3>1. inbox'[m] = inbox[m] /\ hubSeq'[m] = hubSeq[m]
        BY <2>4, <1>s
      <3> QED BY ONLY <3>1, <2>1
    <2> QED BY <2>3, <2>4
  <1>d. msg.at = NextDate(n)
    <2>1. 1 \in 1..Len(outbox[n])
      BY <1>r
    <2> QED BY <2>1, <1>r, <1>g DEF DatesInv, Passing, SentNow, msg
  <1>5. SentNow'
    <2> SUFFICES ASSUME NEW m \in Nodes
                 PROVE  /\ \A i \in 1..Len(outbox'[m]) :
                            outbox'[m][i].type # "idle" => outbox'[m][i].at = NextDate(m)
                        /\ \A i \in 1..Len(inbox'[m]) :
                            inbox'[m][i].type # "date" => inbox'[m][i].at = NextDate(m)
      BY <1>n DEF SentNow
    <2>1. \A k \in Nodes : \A i \in 1..Len(outbox[k]) :
            outbox[k][i].type # "idle" => outbox[k][i].at = NextDate(k)
      BY DEF DatesInv, Passing, SentNow
    <2>2. \A i \in 1..Len(inbox[m]) : inbox[m][i].type # "date" => inbox[m][i].at = NextDate(m)
      BY DEF DatesInv, Passing, SentNow
    <2>3. NextDate(m) = NextDate(n)
      BY DEF DatesInv, Passing, SameDate
    <2>4. \A i \in 1..Len(inbox'[m]) :
            inbox'[m][i].type # "date" => inbox'[m][i].at = NextDate(m)
      BY <1>i, <2>2, <2>3, <1>d
    <2>5. \A i \in 1..Len(outbox'[n]) :
            outbox'[n][i].type # "idle" => outbox'[n][i].at = NextDate(n)
      <3>1. \A i \in 1..Len(outbox'[n]) :
              i + 1 \in 1..Len(outbox[n]) /\ outbox'[n][i] = outbox[n][i + 1]
        BY <1>r
      <3> QED BY ONLY <3>1, <2>1, n \in Nodes
    <2>6. CASE m = n
      BY <2>4, <2>5, <2>6
    <2>7. CASE m # n
      BY <2>1, <2>4, <2>7, <1>r
    <2> QED BY <2>6, <2>7
  <1>6. IdleIsLast'
    <2> SUFFICES ASSUME NEW m \in Nodes, NEW i \in 1..Len(outbox'[m]), outbox'[m][i].type = "idle"
                 PROVE  /\ outbox'[m][i].seq <= seq'[m]
                        /\ outbox'[m][i].seq = seq'[m] =>
                             /\ i = Len(outbox'[m]) /\ Waits(m)'
                             /\ Top(m)'.until = outbox'[m][i].until
      BY Zenon DEF IdleIsLast
    <2>0. seq' = seq /\ Waits(m)' = Waits(m) /\ Top(m)' = Top(m)
      BY <1>u, <1>2
    <2>1. CASE m # n
      BY <2>0, <2>1, <1>r DEF DatesInv, Passing, IdleIsLast
    <2>2. CASE m = n
      <3>1. i + 1 \in 1..Len(outbox[n]) /\ outbox[n][i + 1] = outbox'[n][i] /\ i \in Nat
        <4>1. i \in 1..Len(outbox'[n])
          BY <2>2
        <4> QED BY <4>1, <1>r
      <3>2. /\ outbox[n][i + 1].seq <= seq[n]
            /\ outbox[n][i + 1].seq = seq[n] =>
                 /\ i + 1 = Len(outbox[n]) /\ Waits(n)
                 /\ Top(n).until = outbox[n][i + 1].until
        BY <3>1, <2>2 DEF DatesInv, Passing, IdleIsLast
      <3>3. i + 1 = Len(outbox[n]) => i = Len(outbox'[n])
        <4>1. Len(outbox'[n]) = Len(outbox[n]) - 1 /\ Len(outbox[n]) \in Nat
          BY <1>r
        <4> QED BY ONLY <4>1, <3>1
      <3> QED BY <3>1, <3>2, <3>3, <2>0, <2>2
    <2> QED BY <2>1, <2>2
  <1>7. HubKnows'
    <2> SUFFICES ASSUME NEW m \in Nodes, hubIdle'[m] # NotIdle
                 PROVE  /\ inbox'[m] = << >> /\ outbox'[m] = << >>
                        /\ Waits(m) /\ Top(m).until = hubIdle'[m]
      BY <1>2 DEF HubKnows
    <2>1. m \notin to /\ inbox'[m] = inbox[m] /\ hubIdle'[m] = hubIdle[m]
      BY <1>s
    <2>2. m # n
      BY <2>1 DEF DatesInv, Passing, HubKnows
    <2> QED BY <2>1, <2>2, <1>r DEF DatesInv, Passing, HubKnows
  <1>8. DateIsFirst'
    <2> SUFFICES ASSUME NEW m \in Nodes, NEW i \in 1..Len(inbox'[m]), inbox'[m][i].type = "date"
                 PROVE  /\ i = 1 /\ Waits(m) /\ inbox'[m][i].until <= Top(m).until
                        /\ inbox'[m][i].until <= MaxDate
      BY <1>2 DEF DateIsFirst
    <2>1. i \in 1..Len(inbox[m]) /\ inbox'[m][i] = inbox[m][i]
      BY <1>i, <1>g
    <2> QED BY <2>1 DEF DatesInv, Passing, DateIsFirst
  <1> QED BY <1>1, <1>3, <1>4, <1>c, <1>5, <1>6, <1>7, <1>8 DEF DatesInv, Passing

LEMMA DateIsSent ==
  ASSUME DatesInv, HubDate
  PROVE  DatesInv'
PROOF
  <1> USE Bounds
  <1>0. MexTypes
    BY DEF DatesInv
  <1>1. PICK d \in 1..MaxDate : /\ \A n \in Nodes : hubIdle[n] >= d
                                /\ HubSends(Nodes, Msg("date", d, NoReq, 0, d))
    BY DEF HubDate
  <1>u. UNCHANGED <<date, req, stack, seq, sends, requests, outbox>>
    BY DEF HubDate, node
  <1>k. \A n \in Nodes : /\ inbox[n] = << >> /\ outbox[n] = << >> /\ hubIdle[n] # NotIdle
                         /\ Waits(n) /\ Top(n).until = hubIdle[n]
    BY DEF HubDate, DatesInv, Passing, HubKnows
  <1> DEFINE msg == Msg("date", d, NoReq, 0, d)
  <1>g. msg \in Messages /\ msg.type = "date" /\ msg.until = d
    <2>1. d \in 0..Forever /\ d \in 0..MaxDate /\ 0 \in Nat
      OBVIOUS
    <2> QED BY <2>1 DEF Msg, Messages
  <1>s. /\ inbox' \in [Nodes -> Seq(Messages)] /\ hubSeq' \in [Nodes -> Nat]
        /\ hubIdle' \in [Nodes -> NotIdle..Forever]
        /\ \A m \in Nodes :
             /\ Len(inbox'[m]) = Len(inbox[m]) + 1
             /\ inbox'[m][Len(inbox[m]) + 1] = msg
             /\ inbox'[m] # << >> /\ hubIdle'[m] = NotIdle
             /\ hubSeq'[m] = hubSeq[m] + 1
    <2>1. HubSends(Nodes, msg)
      BY <1>1
    <2> HIDE DEF msg
    <2> QED BY <2>1, <1>0, <1>g, Sent
  <1> HIDE DEF msg
  <1>m. \A m \in Nodes : Len(inbox[m]) = 0 /\ Len(inbox'[m]) = 1 /\ inbox'[m][1] = msg
    <2> TAKE m \in Nodes
    <2>1. Len(inbox[m]) = 0
      BY <1>k
    <2>2. Len(inbox'[m]) = Len(inbox[m]) + 1 /\ inbox'[m][Len(inbox[m]) + 1] = msg
      BY <1>s
    <2> QED BY ONLY <2>1, <2>2
  <1>2. \A m \in Nodes : Waits(m)' = Waits(m) /\ Top(m)' = Top(m)
    BY <1>u DEF Waits, In, Top, Busy
  <1>3. MexTypes'
    BY <1>0, <1>u, <1>s DEF MexTypes
  <1>4. WaitIsLast' /\ NeverTooLate'
    BY <1>u DEF DatesInv, WaitIsLast, NeverTooLate
  <1>5. AllAreCounted'
    <2> SUFFICES ASSUME NEW m \in Nodes PROVE seq'[m] + Len(inbox'[m]) = hubSeq'[m]
      BY DEF AllAreCounted
    <2>1. seq[m] + Len(inbox[m]) = hubSeq[m] /\ seq'[m] = seq[m]
      BY <1>u DEF DatesInv, Passing, AllAreCounted
    <2>2. seq[m] \in Nat
      BY <1>0 DEF MexTypes
    <2>3. Len(inbox[m]) = 0 /\ Len(inbox'[m]) = 1 /\ hubSeq'[m] = hubSeq[m] + 1
      BY <1>s, <1>m
    <2> QED BY ONLY <2>1, <2>2, <2>3
  <1>6. \A m \in Nodes : NextDate(m)' = d
    BY <1>s, <1>m, <1>g DEF NextDate, DateIsNext
  <1>7. SameDate'
    BY <1>6, Zenon DEF SameDate
  <1>8. SentNow'
    BY <1>u, <1>k, <1>m, <1>g DEF SentNow
  <1>9. IdleIsLast'
    BY <1>u, <1>k DEF IdleIsLast
  <1>10. HubKnows'
    BY <1>s DEF HubKnows
  <1>11. DateIsFirst'
    <2> SUFFICES ASSUME NEW m \in Nodes, NEW i \in 1..Len(inbox'[m])
                 PROVE  /\ i = 1 /\ Waits(m) /\ inbox'[m][i].until <= Top(m).until
                        /\ inbox'[m][i].until <= MaxDate
      BY <1>2 DEF DateIsFirst
    <2>1. i = 1
      <3>1. Len(inbox'[m]) = 1 /\ i \in 1..Len(inbox'[m])
        BY <1>m
      <3> QED BY ONLY <3>1
    <2>2. d <= Top(m).until
      <3>1. hubIdle[m] \in NotIdle..Forever
        BY <1>0 DEF MexTypes
      <3> QED BY <3>1, <1>1, <1>k
    <2> QED BY <2>1, <2>2, <1>m, <1>g, <1>k
  <1> QED BY <1>3, <1>4, <1>5, <1>7, <1>8, <1>9, <1>10, <1>11 DEF DatesInv, Passing

LEMMA SetFirst ==
  ASSUME NEW S, NEW s \in Seq(S), s # << >>, NEW g \in S
  PROVE  LET t == [s EXCEPT ![1] = g]
         IN  /\ t \in Seq(S) /\ t # << >> /\ Len(t) = Len(s) /\ Len(s) \in Nat \ {0}
             /\ t[1] = g /\ Head(t) = g
             /\ \A i \in 2..Len(s) : t[i] = s[i]
PROOF
  <1> DEFINE t == [s EXCEPT ![1] = g]
  <1>1. t \in Seq(S) /\ Len(t) = Len(s) /\ Len(s) \in Nat \ {0}
    OBVIOUS
  <1>2. t[1] = g /\ \A i \in 2..Len(s) : t[i] = s[i]
    OBVIOUS
  <1> HIDE DEF t
  <1>3. t # << >> /\ Head(t) = g
    BY <1>1, <1>2
  <1> QED BY <1>1, <1>2, <1>3 DEF t

Pushed2(h, g, s) == <<h, g>> \o Tail(s)

LEMMA PushedOnRest ==
  ASSUME NEW S, NEW s \in Seq(S), s # << >>, NEW h \in S, NEW g \in S
  PROVE  /\ Pushed2(h, g, s) \in Seq(S) /\ Pushed2(h, g, s) # << >>
         /\ Len(Pushed2(h, g, s)) = Len(s) + 1 /\ Len(s) \in Nat \ {0}
         /\ Pushed2(h, g, s)[1] = h /\ Head(Pushed2(h, g, s)) = h
         /\ Pushed2(h, g, s)[2] = g
         /\ \A i \in 3..Len(s) + 1 : Pushed2(h, g, s)[i] = s[i - 1]
  BY DEF Pushed2

\* What a step of a node may make of its calls: the program's wait stays the last
\* one, and is not after its date.
InTime(s, d) ==
    \A i \in 1..Len(s) : s[i].kind = "wait" => i = Len(s) /\ d <= s[i].until

LEMMA InTimeIs ==
  ASSUME DatesInv, NEW n \in Nodes
  PROVE  InTime(stack[n], date[n]) /\ stack[n] \in Seq(Frames) /\ date[n] \in 0..MaxDate
  BY DEF DatesInv, WaitIsLast, NeverTooLate, InTime, MexTypes

LEMMA StackStep ==
  ASSUME DatesInv, NEW n \in Nodes, NEW s \in Seq(Frames),
         stack' = [stack EXCEPT ![n] = s], InTime(s, date'[n]),
         \A m \in Nodes \ {n} : date'[m] = date[m]
  PROVE  /\ stack' \in [Nodes -> Seq(Frames)] /\ stack'[n] = s
         /\ \A m \in Nodes \ {n} : stack'[m] = stack[m]
         /\ WaitIsLast' /\ NeverTooLate'
PROOF
  <1>1. stack \in [Nodes -> Seq(Frames)]
    BY DEF DatesInv, MexTypes
  <1>2. /\ stack' \in [Nodes -> Seq(Frames)] /\ stack'[n] = s
        /\ \A m \in Nodes \ {n} : stack'[m] = stack[m]
    BY <1>1
  <1>3. WaitIsLast'
    BY <1>2 DEF DatesInv, WaitIsLast, InTime
  <1>4. NeverTooLate'
    BY <1>2 DEF DatesInv, NeverTooLate, InTime
  <1> QED BY <1>2, <1>3, <1>4

\* A call, a return, a change of the innermost call, a handler.
LEMMA CallInTime ==
  ASSUME NEW s \in Seq(Frames), NEW d \in Nat, InTime(s, d), NEW f \in Frames,
         f.kind = "wait" => s = << >> /\ d <= f.until
  PROVE  Pushed(f, s) \in Seq(Frames) /\ InTime(Pushed(f, s), d)
PROOF
  <1>1. /\ Pushed(f, s) \in Seq(Frames) /\ Len(Pushed(f, s)) = Len(s) + 1
        /\ Len(s) \in Nat /\ Pushed(f, s)[1] = f
        /\ \A i \in 2..Len(s) + 1 : Pushed(f, s)[i] = s[i - 1]
    BY PushedOn, LenProperties
  <1>2. ASSUME NEW i \in 1..Len(Pushed(f, s)), Pushed(f, s)[i].kind = "wait"
        PROVE  i = Len(Pushed(f, s)) /\ d <= Pushed(f, s)[i].until
    <2>1. CASE i = 1
      BY <2>1, <1>1, <1>2
    <2>2. CASE i # 1
      <3>1. i - 1 \in 1..Len(s) /\ Pushed(f, s)[i] = s[i - 1] /\ i \in Nat
        BY <2>2, <1>1
      <3> QED BY <3>1, <1>1, <1>2 DEF InTime
    <2> QED BY <2>1, <2>2
  <1> QED BY <1>1, <1>2 DEF InTime

LEMMA ReturnInTime ==
  ASSUME NEW s \in Seq(Frames), NEW d \in Nat, InTime(s, d), s # << >>
  PROVE  Tail(s) \in Seq(Frames) /\ InTime(Tail(s), d)
PROOF
  <1>1. /\ Tail(s) \in Seq(Frames) /\ Len(Tail(s)) = Len(s) - 1 /\ Len(s) \in Nat \ {0}
        /\ \A i \in 1..Len(s) - 1 : Tail(s)[i] = s[i + 1]
    BY Tailed
  <1>2. ASSUME NEW i \in 1..Len(Tail(s)), Tail(s)[i].kind = "wait"
        PROVE  i = Len(Tail(s)) /\ d <= Tail(s)[i].until
    <2>1. i + 1 \in 1..Len(s) /\ Tail(s)[i] = s[i + 1] /\ i \in Nat
      BY <1>1
    <2>2. i + 1 = Len(s) /\ d <= s[i + 1].until
      BY <2>1, <1>2 DEF InTime
    <2>3. i = Len(Tail(s))
      BY <2>1, <2>2, <1>1
    <2> QED BY <2>1, <2>2, <2>3
  <1> QED BY <1>1, <1>2 DEF InTime

LEMMA TopInTime ==
  ASSUME NEW s \in Seq(Frames), NEW d \in Nat, NEW e \in Nat, InTime(s, d), s # << >>,
         NEW g \in Frames, g.kind = s[1].kind, g.until = s[1].until,
         e # d => s[1].kind = "wait" /\ e <= s[1].until
  PROVE  [s EXCEPT ![1] = g] \in Seq(Frames) /\ InTime([s EXCEPT ![1] = g], e)
PROOF
  <1> DEFINE t == [s EXCEPT ![1] = g]
  <1>1. /\ t \in Seq(Frames) /\ Len(t) = Len(s) /\ Len(s) \in Nat \ {0}
        /\ t[1] = g /\ \A i \in 2..Len(s) : t[i] = s[i]
    BY SetFirst
  <1> HIDE DEF t
  <1>2. ASSUME NEW i \in 1..Len(t), t[i].kind = "wait"
        PROVE  i = Len(t) /\ e <= t[i].until
    <2>1. i \in 1..Len(s) /\ s[i].kind = "wait" /\ s[i].until = t[i].until
      <3>1. i = 1 \/ i \in 2..Len(s)
        BY <1>1
      <3> QED BY <3>1, <1>1, <1>2
    <2>2. i = Len(s) /\ d <= s[i].until
      BY <2>1 DEF InTime
    <2>3. CASE e = d
      BY <2>1, <2>2, <2>3, <1>1
    <2>4. CASE e # d
      <3>1. 1 \in 1..Len(s)
        BY <1>1
      <3>2. 1 = Len(s)
        BY <3>1, <2>4 DEF InTime
      <3> QED BY <3>2, <2>1, <2>2, <2>4, <1>1
    <2> QED BY <2>3, <2>4
  <1> QED BY <1>1, <1>2 DEF InTime, t

LEMMA HandlerInTime ==
  ASSUME NEW s \in Seq(Frames), NEW d \in Nat, InTime(s, d), s # << >>,
         NEW h \in Frames, h.kind # "wait",
         NEW g \in Frames, g.kind = s[1].kind, g.until = s[1].until
  PROVE  Pushed2(h, g, s) \in Seq(Frames) /\ InTime(Pushed2(h, g, s), d)
PROOF
  <1> DEFINE t == Pushed2(h, g, s)
  <1>1. /\ t \in Seq(Frames) /\ Len(t) = Len(s) + 1 /\ Len(s) \in Nat \ {0}
        /\ t[1] = h /\ t[2] = g /\ \A i \in 3..Len(s) + 1 : t[i] = s[i - 1]
    BY PushedOnRest
  <1> HIDE DEF t
  <1>2. ASSUME NEW i \in 1..Len(t), t[i].kind = "wait"
        PROVE  i = Len(t) /\ d <= t[i].until
    <2>1. i = 1 \/ i = 2 \/ i \in 3..Len(s) + 1
      BY <1>1
    <2>2. i \in Nat /\ i - 1 \in 1..Len(s) /\ s[i - 1].kind = "wait" /\ s[i - 1].until = t[i].until
      <3>1. CASE i = 1
        BY <3>1, <1>1, <1>2
      <3>2. CASE i = 2
        BY <3>2, <1>1, <1>2
      <3>3. CASE i \in 3..Len(s) + 1
        BY <3>3, <1>1, <1>2
      <3> QED BY <2>1, <3>1, <3>2, <3>3
    <2> QED BY <2>2, <1>1 DEF InTime
  <1> QED BY <1>1, <1>2 DEF InTime, t

LEMMA NodeKeepsDates ==
  ASSUME DatesInv, NEW n \in Nodes, NodeStep(n)
  PROVE  DatesInv'
PROOF
  <1> USE Bounds
  <1>0. MexTypes
    BY DEF DatesInv
  <1>t. /\ InTime(stack[n], date[n]) /\ stack[n] \in Seq(Frames) /\ date[n] \in 0..MaxDate
        /\ date[n] \in Nat /\ seq[n] \in Nat /\ req[n] \in Requests
    BY <1>0, InTimeIs DEF MexTypes
  <1>n. \A k \in {"wait", "request", "handler"} :
          In(n, k) => /\ stack[n] # << >> /\ Top(n) \in Frames /\ Top(n) = stack[n][1]
                      /\ Top(n).kind = k /\ Len(stack[n]) \in Nat \ {0}
    BY <1>t, Tailed DEF In, Busy, Top
  <1>f. \A r \in Requests : /\ Frame("request", 0, r) \in Frames
                            /\ Frame("handler", 0, r) \in Frames
    BY DEF Frame, Frames, Kinds
  <1>m. \A type \in {"idle", "msg", "req", "rsp"}, until \in 0..Forever, r \in Requests :
          Msg(type, until, r, seq[n], date[n]) \in Messages
    BY <1>t DEF Msg, Messages
  <1>1. ASSUME NEW until \in 1..Forever, Wait(n, until)
        PROVE  DatesInv'
    <2> DEFINE f == Frame("wait", until, NoReq)
    <2>1. f \in Frames /\ f.kind = "wait" /\ f.until = until
      BY DEF Frame, Frames, Kinds
    <2>2. stack[n] = << >> /\ date[n] <= f.until
      BY <1>1, <2>1, <1>t DEF Wait, Busy
    <2>3. stack' = [stack EXCEPT ![n] = Pushed(f, stack[n])]
      BY <1>1 DEF Wait, Push, Pushed
    <2>4. UNCHANGED <<date, req, seq, sends, requests, inbox, outbox, Hub>>
      BY <1>1 DEF Wait
    <2> HIDE DEF f
    <2>5. Pushed(f, stack[n]) \in Seq(Frames) /\ InTime(Pushed(f, stack[n]), date[n])
      BY <2>1, <2>2, <1>t, CallInTime
    <2>6. /\ stack' \in [Nodes -> Seq(Frames)]
          /\ \A m \in Nodes \ {n} : stack'[m] = stack[m]
          /\ WaitIsLast' /\ NeverTooLate'
      BY <2>3, <2>4, <2>5, StackStep
    <2>7. ~Waits(n)
      BY <2>2 DEF Waits, In, Busy
    <2>8. Passing'
      BY <2>4, <2>6, <2>7, StackChanges
    <2> QED BY <1>0, <2>4, <2>6, <2>8 DEF DatesInv, MexTypes, Hub
  <1>2. CASE WaitIdle(n)
    <2> DEFINE g == [Top(n) EXCEPT !.flag = TRUE]
               msg == Msg("idle", Top(n).until, NoReq, seq[n], date[n])
    <2>1. /\ stack[n] # << >> /\ Top(n) \in Frames /\ Top(n) = stack[n][1]
          /\ Top(n).kind = "wait" /\ ~Top(n).flag
      BY <1>2, <1>n DEF WaitIdle
    <2>2. g \in Frames /\ g.kind = "wait" /\ g.flag /\ g.until = Top(n).until
      BY <2>1 DEF Frames
    <2>3. stack' = [stack EXCEPT ![n] = [stack[n] EXCEPT ![1] = g]]
      BY <1>2, <2>1 DEF WaitIdle, SetFlag
    <2>4. msg \in Messages /\ msg.seq = seq[n] /\ msg.at = date[n] /\ msg.until = Top(n).until
      <3>1. Top(n).until \in 0..Forever
        BY <2>1 DEF Frames
      <3> QED BY <3>1, <1>m DEF Msg
    <2>5. outbox' = [outbox EXCEPT ![n] = Append(@, msg)]
      BY <1>2 DEF WaitIdle, Write
    <2>6. UNCHANGED <<date, req, seq, sends, requests, inbox, Hub>>
      BY <1>2 DEF WaitIdle
    <2> HIDE DEF g, msg
    <2>7. [stack[n] EXCEPT ![1] = g] \in Seq(Frames) /\ InTime([stack[n] EXCEPT ![1] = g], date[n])
      BY <2>1, <2>2, <1>t, TopInTime
    <2>8. /\ stack' \in [Nodes -> Seq(Frames)] /\ stack'[n] = [stack[n] EXCEPT ![1] = g]
          /\ \A m \in Nodes \ {n} : stack'[m] = stack[m]
          /\ WaitIsLast' /\ NeverTooLate'
      BY <2>3, <2>6, <2>7, StackStep
    <2>9. Waits(n)' /\ Top(n)' = g
      <3>1. Head(stack'[n]) = g /\ stack'[n] # << >>
        BY <2>1, <2>2, <2>8, <1>t, SetFirst
      <3> QED BY <3>1, <2>2 DEF Waits, In, Busy, Top
    <2>10. ~Waits(n)
      BY <2>1 DEF Waits
    <2>11. Passing' /\ outbox' \in [Nodes -> Seq(Messages)]
      BY <2>2, <2>4, <2>5, <2>6, <2>8, <2>9, <2>10, Writes
    <2> QED BY <1>0, <2>6, <2>8, <2>11 DEF DatesInv, MexTypes, Hub
  <1>3. CASE WaitEnd(n)
    <2>1. stack[n] # << >> /\ ~Waits(n)
      BY <1>3, <1>n DEF WaitEnd, Waits
    <2>2. stack' = [stack EXCEPT ![n] = Tail(stack[n])]
      BY <1>3 DEF WaitEnd, Return
    <2>3. UNCHANGED <<date, req, seq, sends, requests, inbox, outbox, Hub>>
      BY <1>3 DEF WaitEnd
    <2>4. Tail(stack[n]) \in Seq(Frames) /\ InTime(Tail(stack[n]), date[n])
      BY <2>1, <1>t, ReturnInTime
    <2>5. /\ stack' \in [Nodes -> Seq(Frames)]
          /\ \A m \in Nodes \ {n} : stack'[m] = stack[m]
          /\ WaitIsLast' /\ NeverTooLate'
      BY <2>2, <2>3, <2>4, StackStep
    <2>6. Passing'
      BY <2>1, <2>3, <2>5, StackChanges
    <2> QED BY <1>0, <2>3, <2>5, <2>6 DEF DatesInv, MexTypes, Hub
  <1>c. MayCall(n) => ~Waits(n)
    BY DEF MayCall, Waits, In
  <1>4. CASE send(n)
    <2> DEFINE msg == Msg("msg", 0, NoReq, seq[n], date[n])
    <2>1. msg \in Messages /\ msg.seq = seq[n] /\ msg.at = date[n] /\ msg.type # "idle"
      BY <1>m DEF Msg
    <2>2. outbox' = [outbox EXCEPT ![n] = Append(@, msg)] /\ ~Waits(n)
      BY <1>4, <1>c DEF send, Write
    <2>3. UNCHANGED <<date, req, stack, seq, requests, inbox, Hub>>
      BY <1>4 DEF send
    <2>4. sends' \in [Nodes -> 0..MaxSends]
      <3>1. sends \in [Nodes -> 0..MaxSends] /\ sends[n] < MaxSends
            /\ sends' = [sends EXCEPT ![n] = @ + 1]
        BY <1>0, <1>4 DEF send, MexTypes
      <3>2. sends[n] + 1 \in 0..MaxSends
        BY <3>1
      <3> QED BY <3>1, <3>2
    <2> HIDE DEF msg
    <2>5. stack' \in [Nodes -> Seq(Frames)] /\ \A m \in Nodes \ {n} : stack'[m] = stack[m]
      BY <1>0, <2>3 DEF MexTypes
    <2>6. WaitIsLast' /\ NeverTooLate'
      BY <2>3 DEF DatesInv, WaitIsLast, NeverTooLate
    <2>7. Passing' /\ outbox' \in [Nodes -> Seq(Messages)]
      BY <2>1, <2>2, <2>3, <2>5, Writes
    <2> QED BY <1>0, <2>3, <2>4, <2>6, <2>7 DEF DatesInv, MexTypes, Hub
  <1>5. ASSUME NEW to \in Nodes, request(n, to)
        PROVE  DatesInv'
    <2> DEFINE r == [from |-> n, n |-> requests[n] + 1, to |-> to]
               f == Frame("request", 0, r)
               msg == Msg("req", 0, r, seq[n], date[n])
    <2>0. /\ requests \in [Nodes -> 0..MaxRequests] /\ requests[n] < MaxRequests
          /\ requests' = [requests EXCEPT ![n] = @ + 1]
      BY <1>0, <1>5 DEF request, MexTypes
    <2>1. requests[n] + 1 \in 1..MaxRequests /\ requests' \in [Nodes -> 0..MaxRequests]
      <3>1. requests[n] + 1 \in 1..MaxRequests /\ requests[n] + 1 \in 0..MaxRequests
        BY <2>0
      <3> QED BY <3>1, <2>0
    <2>2. r \in Requests
      BY <2>1 DEF Requests
    <2>3. f \in Frames /\ f.kind # "wait"
      BY <2>2, <1>f DEF Frame
    <2>4. msg \in Messages /\ msg.seq = seq[n] /\ msg.at = date[n] /\ msg.type # "idle"
      BY <2>2, <1>m DEF Msg
    <2>5. outbox' = [outbox EXCEPT ![n] = Append(@, msg)] /\ ~Waits(n)
      BY <1>5, <1>c DEF request, Write
    <2>6. stack' = [stack EXCEPT ![n] = Pushed(f, stack[n])]
      BY <1>5 DEF request, Push, Pushed
    <2>7. UNCHANGED <<date, req, seq, sends, inbox, Hub>>
      BY <1>5 DEF request
    <2> HIDE DEF f, msg
    <2>8. Pushed(f, stack[n]) \in Seq(Frames) /\ InTime(Pushed(f, stack[n]), date[n])
      BY <2>3, <1>t, CallInTime
    <2>9. /\ stack' \in [Nodes -> Seq(Frames)]
          /\ \A m \in Nodes \ {n} : stack'[m] = stack[m]
          /\ WaitIsLast' /\ NeverTooLate'
      BY <2>6, <2>7, <2>8, StackStep
    <2>10. Passing' /\ outbox' \in [Nodes -> Seq(Messages)]
      BY <2>4, <2>5, <2>7, <2>9, Writes
    <2> QED BY <1>0, <2>1, <2>7, <2>9, <2>10 DEF DatesInv, MexTypes, Hub
  <1>6. CASE response(n)
    <2> DEFINE g == [Top(n) EXCEPT !.flag = TRUE]
               msg == Msg("rsp", 0, req[n], seq[n], date[n])
    <2>1. /\ stack[n] # << >> /\ Top(n) \in Frames /\ Top(n) = stack[n][1]
          /\ Top(n).kind = "handler" /\ ~Waits(n)
      BY <1>6, <1>n DEF response, Waits
    <2>2. g \in Frames /\ g.kind = Top(n).kind /\ g.until = Top(n).until
      BY <2>1 DEF Frames
    <2>3. stack' = [stack EXCEPT ![n] = [stack[n] EXCEPT ![1] = g]]
      BY <1>6, <2>1 DEF response, SetFlag
    <2>4. msg \in Messages /\ msg.seq = seq[n] /\ msg.at = date[n] /\ msg.type # "idle"
      BY <1>m, <1>t DEF Msg
    <2>5. outbox' = [outbox EXCEPT ![n] = Append(@, msg)]
      BY <1>6 DEF response, Write
    <2>6. UNCHANGED <<date, seq, sends, requests, inbox, Hub>>
      BY <1>6 DEF response
    <2>7. req' \in [Nodes -> Requests]
      BY <1>0, <1>6 DEF response, MexTypes
    <2> HIDE DEF g, msg
    <2>8. [stack[n] EXCEPT ![1] = g] \in Seq(Frames) /\ InTime([stack[n] EXCEPT ![1] = g], date[n])
      BY <2>1, <2>2, <1>t, TopInTime
    <2>9. /\ stack' \in [Nodes -> Seq(Frames)]
          /\ \A m \in Nodes \ {n} : stack'[m] = stack[m]
          /\ WaitIsLast' /\ NeverTooLate'
      BY <2>3, <2>6, <2>8, StackStep
    <2>10. Passing' /\ outbox' \in [Nodes -> Seq(Messages)]
      BY <2>1, <2>4, <2>5, <2>6, <2>9, Writes
    <2> QED BY <1>0, <2>6, <2>7, <2>9, <2>10 DEF DatesInv, MexTypes, Hub
  <1>7. CASE HandlerEnd(n)
    <2>1. stack[n] # << >> /\ ~Waits(n)
      BY <1>7, <1>n DEF HandlerEnd, Waits
    <2>2. stack' = [stack EXCEPT ![n] = Tail(stack[n])]
      BY <1>7 DEF HandlerEnd, Return
    <2>3. UNCHANGED <<date, seq, sends, requests, inbox, outbox, Hub>>
      BY <1>7 DEF HandlerEnd
    <2>4. Tail(stack[n]) \in Seq(Frames) /\ InTime(Tail(stack[n]), date[n])
      BY <2>1, <1>t, ReturnInTime
    <2>5. /\ stack' \in [Nodes -> Seq(Frames)]
          /\ \A m \in Nodes \ {n} : stack'[m] = stack[m]
          /\ WaitIsLast' /\ NeverTooLate'
      BY <2>2, <2>3, <2>4, StackStep
    <2>6. Passing'
      BY <2>1, <2>3, <2>5, StackChanges
    <2>7. req' \in [Nodes -> Requests]
      <3>1. req \in [Nodes -> Requests]
        BY <1>0 DEF MexTypes
      <3>2. CASE Top(n).req = NoReq
        BY <3>1, <3>2, <1>7 DEF HandlerEnd
      <3>3. CASE Top(n).req # NoReq
        BY <3>1, <3>3, <1>7 DEF HandlerEnd
      <3> QED BY <3>2, <3>3
    <2> QED BY <1>0, <2>3, <2>5, <2>6, <2>7 DEF DatesInv, MexTypes, Hub
  <1>r. ASSUME NEW type, Recv(n, type)
        PROVE  /\ stack[n] # << >> /\ Top(n) \in Frames /\ Top(n) = stack[n][1]
               /\ Restarted(n) \in Frames /\ Restarted(n).kind = Top(n).kind
               /\ Restarted(n).until = Top(n).until /\ Restarted(n).req = Top(n).req
               /\ inbox[n] # << >> /\ inbox[n][1] \in Messages
               /\ inbox[n][1] = Head(inbox[n]) /\ inbox[n][1].type = type
               /\ DateIsNext(n) <=> type = "date"
               /\ 1 \in 1..Len(inbox[n])
               /\ inbox' = [inbox EXCEPT ![n] = Tail(@)] /\ seq' = [seq EXCEPT ![n] = @ + 1]
    <2>1. stack[n] # << >> /\ Top(n) \in Frames /\ Top(n) = stack[n][1]
      BY <1>r, <1>n DEF Recv
    <2>2. /\ Restarted(n) \in Frames /\ Restarted(n).kind = Top(n).kind
          /\ Restarted(n).until = Top(n).until /\ Restarted(n).req = Top(n).req
      BY <2>1 DEF Restarted, Frames
    <2>3. inbox[n] # << >> /\ Head(inbox[n]).type = type
          /\ inbox' = [inbox EXCEPT ![n] = Tail(@)] /\ seq' = [seq EXCEPT ![n] = @ + 1]
      BY <1>r DEF Recv
    <2>4. inbox[n] \in Seq(Messages)
      BY <1>0 DEF MexTypes
    <2>5. inbox[n][1] \in Messages /\ inbox[n][1] = Head(inbox[n]) /\ 1 \in 1..Len(inbox[n])
      BY <2>3, <2>4, Tailed
    <2>6. DateIsNext(n) <=> type = "date"
      BY <2>3, <2>5, Zenon DEF DateIsNext
    <2> QED BY <2>1, <2>2, <2>3, <2>5, <2>6
  <1>8. CASE handle_date(n)
    <2> DEFINE s == [stack[n] EXCEPT ![1] = Restarted(n)]
               d == inbox[n][1].until
    <2>1. /\ stack[n] # << >> /\ Top(n) = stack[n][1]
          /\ Restarted(n) \in Frames /\ Restarted(n).kind = Top(n).kind
          /\ Restarted(n).until = Top(n).until
          /\ inbox[n] # << >> /\ inbox[n][1] \in Messages /\ inbox[n][1] = Head(inbox[n])
          /\ DateIsNext(n) /\ 1 \in 1..Len(inbox[n]) /\ inbox[n][1].type = "date"
          /\ inbox' = [inbox EXCEPT ![n] = Tail(@)] /\ seq' = [seq EXCEPT ![n] = @ + 1]
      BY <1>8, <1>r DEF handle_date
    <2>2. /\ stack' = [stack EXCEPT ![n] = s] /\ date' = [date EXCEPT ![n] = d]
          /\ UNCHANGED <<req, sends, requests, outbox, Hub>>
      BY <1>8, <2>1 DEF handle_date
    <2>3. Waits(n) /\ d <= Top(n).until /\ d <= MaxDate
      BY <2>1 DEF DatesInv, Passing, DateIsFirst
    <2>4. d \in Nat /\ Top(n).kind = "wait"
      BY <2>1, <2>3 DEF Messages, Waits, In
    <2>5. s \in Seq(Frames) /\ InTime(s, d)
      BY <2>1, <2>3, <2>4, <1>t, TopInTime
    <2>6. date'[n] = d /\ \A m \in Nodes \ {n} : date'[m] = date[m]
      BY <1>0, <2>2 DEF MexTypes
    <2>7. date' \in [Nodes -> 0..MaxDate]
      <3>1. d \in 0..MaxDate
        BY <2>3, <2>4
      <3> QED BY <3>1, <1>0, <2>2 DEF MexTypes
    <2> HIDE DEF s, d
    <2>8. /\ stack' \in [Nodes -> Seq(Frames)]
          /\ \A m \in Nodes \ {n} : stack'[m] = stack[m]
          /\ WaitIsLast' /\ NeverTooLate'
      BY <2>2, <2>5, <2>6, StackStep
    <2>9. Passing' /\ inbox' \in [Nodes -> Seq(Messages)] /\ seq' \in [Nodes -> Nat]
      BY <2>1, <2>2, <2>8, Reads DEF d
    <2> QED BY <1>0, <2>2, <2>7, <2>8, <2>9 DEF DatesInv, MexTypes, Hub
  <1>h. ASSUME NEW r \in Requests, ~DateIsNext(n), stack[n] # << >>, Top(n) = stack[n][1],
               Restarted(n) \in Frames, Restarted(n).kind = Top(n).kind,
               Restarted(n).until = Top(n).until,
               inbox[n] # << >>, inbox' = [inbox EXCEPT ![n] = Tail(@)],
               seq' = [seq EXCEPT ![n] = @ + 1],
               stack' = [stack EXCEPT ![n] = <<Frame("handler", 0, r), Restarted(n)>> \o Tail(@)],
               req' \in [Nodes -> Requests],
               UNCHANGED <<date, sends, requests, outbox, Hub>>
        PROVE  DatesInv'
    <2> DEFINE f == Frame("handler", 0, r)
    <2>1. f \in Frames /\ f.kind # "wait"
      BY <1>f DEF Frame
    <2>2. stack' = [stack EXCEPT ![n] = Pushed2(f, Restarted(n), stack[n])]
      BY <1>h DEF Pushed2
    <2> HIDE DEF f
    <2>3. /\ Pushed2(f, Restarted(n), stack[n]) \in Seq(Frames)
          /\ InTime(Pushed2(f, Restarted(n), stack[n]), date[n])
      BY <2>1, <1>h, <1>t, HandlerInTime
    <2>4. date'[n] = date[n] /\ \A m \in Nodes \ {n} : date'[m] = date[m]
      BY <1>h
    <2>5. /\ stack' \in [Nodes -> Seq(Frames)]
          /\ \A m \in Nodes \ {n} : stack'[m] = stack[m]
          /\ WaitIsLast' /\ NeverTooLate'
      BY <2>2, <2>3, <2>4, StackStep
    <2>6. date' = IF DateIsNext(n) THEN [date EXCEPT ![n] = inbox[n][1].until] ELSE date
      BY <1>h
    <2>7. Passing' /\ inbox' \in [Nodes -> Seq(Messages)] /\ seq' \in [Nodes -> Nat]
      BY <2>5, <2>6, <1>h, Reads
    <2> QED BY <1>0, <1>h, <2>5, <2>7 DEF DatesInv, MexTypes, Hub
  <1>9. CASE handle_req(n)
    <2>1. Recv(n, "req")
      BY <1>9 DEF handle_req
    <2>2. ~DateIsNext(n)
      BY <2>1, <1>r
    <2>3. Head(inbox[n]).req \in Requests
      BY <2>1, <1>r DEF Messages
    <2>4. req' = [req EXCEPT ![n] = Head(inbox[n]).req]
      BY <1>9 DEF handle_req
    <2>5. req' \in [Nodes -> Requests] /\ req'[n] \in Requests
      BY <1>0, <2>3, <2>4 DEF MexTypes
    <2>6. /\ stack' = [stack EXCEPT ![n] = <<Frame("handler", 0, req'[n]), Restarted(n)>> \o Tail(@)]
          /\ UNCHANGED <<date, sends, requests, outbox, Hub>>
      BY <1>9 DEF handle_req
    <2> QED BY <2>1, <2>2, <2>5, <2>6, <1>r, <1>h
  <1>10. CASE HandleMsg(n)
    <2>1. Recv(n, "msg")
      BY <1>10 DEF HandleMsg
    <2>2. ~DateIsNext(n)
      BY <2>1, <1>r
    <2>3. /\ stack' = [stack EXCEPT ![n] = <<Frame("handler", 0, NoReq), Restarted(n)>> \o Tail(@)]
          /\ UNCHANGED <<date, req, sends, requests, outbox, Hub>>
      BY <1>10 DEF HandleMsg
    <2>4. req' \in [Nodes -> Requests]
      BY <1>0, <2>3 DEF MexTypes
    <2> QED BY <2>1, <2>2, <2>3, <2>4, <1>r, <1>h
  <1>11. CASE RecvRsp(n)
    <2>1. Recv(n, "rsp") /\ UNCHANGED <<date, req, sends, requests, outbox, Hub>>
      BY <1>11 DEF RecvRsp
    <2>2. ~DateIsNext(n)
      BY <2>1, <1>r
    <2>3. /\ stack[n] # << >> /\ Top(n) = stack[n][1]
          /\ Restarted(n) \in Frames /\ Restarted(n).kind = Top(n).kind
          /\ Restarted(n).until = Top(n).until
          /\ inbox[n] # << >>
          /\ inbox' = [inbox EXCEPT ![n] = Tail(@)] /\ seq' = [seq EXCEPT ![n] = @ + 1]
      BY <2>1, <1>r
    <2>4. \E s \in Seq(Frames) : InTime(s, date[n]) /\ stack' = [stack EXCEPT ![n] = s]
      <3>1. CASE In(n, "request")
        <4>1. stack' = [stack EXCEPT ![n] = Tail(stack[n])]
          BY <1>11, <3>1 DEF RecvRsp, Return
        <4>2. Tail(stack[n]) \in Seq(Frames) /\ InTime(Tail(stack[n]), date[n])
          BY <2>3, <1>t, ReturnInTime
        <4> QED BY <4>1, <4>2
      <3>2. CASE ~In(n, "request")
        <4>1. stack' = [stack EXCEPT ![n] = [stack[n] EXCEPT ![1] = Restarted(n)]]
          BY <1>11, <3>2 DEF RecvRsp
        <4>2. /\ [stack[n] EXCEPT ![1] = Restarted(n)] \in Seq(Frames)
              /\ InTime([stack[n] EXCEPT ![1] = Restarted(n)], date[n])
          BY <2>3, <1>t, TopInTime
        <4> QED BY <4>1, <4>2
      <3> QED BY <3>1, <3>2
    <2>5. date'[n] = date[n] /\ \A m \in Nodes \ {n} : date'[m] = date[m]
      BY <2>1
    <2>6. /\ stack' \in [Nodes -> Seq(Frames)]
          /\ \A m \in Nodes \ {n} : stack'[m] = stack[m]
          /\ WaitIsLast' /\ NeverTooLate'
      BY <2>4, <2>5, StackStep
    <2>7. date' = IF DateIsNext(n) THEN [date EXCEPT ![n] = inbox[n][1].until] ELSE date
      BY <2>1, <2>2
    <2>8. Passing' /\ inbox' \in [Nodes -> Seq(Messages)] /\ seq' \in [Nodes -> Nat]
      BY <2>1, <2>3, <2>6, <2>7, Reads
    <2> QED BY <1>0, <2>1, <2>6, <2>8 DEF DatesInv, MexTypes, Hub
  <1> QED
    BY <1>1, <1>2, <1>3, <1>4, <1>5, <1>6, <1>7, <1>8, <1>9, <1>10, <1>11 DEF NodeStep

LEMMA DatesStep ==
  DatesInv /\ [MexNext]_mexVars => DatesInv'
PROOF
  <1> SUFFICES ASSUME DatesInv, [MexNext]_mexVars PROVE DatesInv'
    OBVIOUS
  <1>1. CASE \E n \in Nodes : NodeStep(n)
    BY <1>1, NodeKeepsDates
  <1>2. CASE HubDate
    BY <1>2, DateIsSent
  <1>3. CASE \E n \in Nodes : HubIdle(n)
    BY <1>3, HubReadsIdle
  <1>4. ASSUME NEW n \in Nodes, HubForwards(n) PROVE DatesInv'
    <2>1. \E to : /\ outbox[n] # << >> /\ Head(outbox[n]).type \in {"msg", "req", "rsp"}
                  /\ outbox' = [outbox EXCEPT ![n] = Tail(@)]
                  /\ HubSends(to, Head(outbox[n])) /\ UNCHANGED node
      BY <1>4 DEF HubForwards, HubReads
    <2> QED BY <2>1, Forwards
  <1>5. CASE UNCHANGED mexVars
    <2>1. UNCHANGED <<date, req, stack, seq, sends, requests, inbox, outbox, hubSeq, hubIdle>>
      BY <1>5 DEF mexVars, node
    <2>2. \A n \in Nodes : /\ Waits(n)' = Waits(n) /\ Top(n)' = Top(n)
                           /\ NextDate(n)' = NextDate(n)
      BY <2>1 DEF Waits, In, Busy, Top, NextDate, DateIsNext
    <2>3. MexTypes' /\ WaitIsLast' /\ NeverTooLate'
      BY <2>1 DEF DatesInv, MexTypes, WaitIsLast, NeverTooLate
    <2>4. AllAreCounted' /\ SameDate' /\ SentNow'
      BY <2>1, <2>2 DEF DatesInv, Passing, AllAreCounted, SameDate, SentNow
    <2>5. IdleIsLast' /\ HubKnows' /\ DateIsFirst'
      BY <2>1, <2>2 DEF DatesInv, Passing, IdleIsLast, HubKnows, DateIsFirst
    <2> QED BY <2>3, <2>4, <2>5 DEF DatesInv, Passing
  <1> QED
    BY <1>1, <1>2, <1>3, <1>4, <1>5 DEF MexNext, HubStep

LEMMA DatesInit == MexInit => DatesInv
PROOF
  <1> SUFFICES ASSUME MexInit PROVE DatesInv
    OBVIOUS
  <1> USE Bounds
  <1>1. MexTypes
    BY DEF MexInit, MexTypes
  <1>2. \A n \in Nodes : /\ date[n] = 0 /\ stack[n] = << >> /\ inbox[n] = << >>
                         /\ outbox[n] = << >> /\ seq[n] = 1 /\ hubSeq[n] = 1
                         /\ hubIdle[n] = NotIdle
    BY DEF MexInit
  <1>3. WaitIsLast /\ NeverTooLate
    BY <1>2 DEF WaitIsLast, NeverTooLate
  <1>4. Passing
    <2>1. \A n \in Nodes : NextDate(n) = 0
      BY <1>2 DEF NextDate, DateIsNext
    <2> QED BY <1>2, <2>1 DEF Passing, AllAreCounted, SameDate, SentNow, IdleIsLast, HubKnows,
                              DateIsFirst
  <1> QED BY <1>1, <1>3, <1>4 DEF DatesInv

\* Dates of programs and messages agree, whatever handlers do.
THEOREM DatesInvariant == MexSpec => []DatesInv
  BY DatesInit, DatesStep, PTL DEF MexSpec

LEMMA DatesAreRight == DatesInv => MexTypeOK /\ NeverTooLate /\ HandledAtItsDate
PROOF
  <1> SUFFICES ASSUME DatesInv PROVE MexTypeOK /\ HandledAtItsDate
    BY DEF DatesInv
  <1>1. MexTypeOK
    <2>1. MexTypes /\ AllAreCounted
      BY DEF DatesInv, Passing
    <2>2. ASSUME NEW n \in Nodes, NEW i \in 1..Len(stack[n])
          PROVE  stack[n][i].kind \in {"wait", "request", "handler"}
      <3>1. stack[n] \in Seq(Frames)
        BY <2>1 DEF MexTypes
      <3>2. stack[n][i] \in Frames
        BY <3>1
      <3> QED BY <3>2 DEF Frames, Kinds
    <2> QED BY <2>1, <2>2 DEF MexTypes, AllAreCounted, MexTypeOK
  <1>2. HandledAtItsDate
    <2> SUFFICES ASSUME NEW n \in Nodes, inbox[n] # << >>, Head(inbox[n]).type # "date"
                 PROVE  Head(inbox[n]).at = date[n]
      BY DEF HandledAtItsDate
    <2>1. inbox[n] \in Seq(Messages)
      BY DEF DatesInv, MexTypes
    <2>2. inbox[n][1] = Head(inbox[n]) /\ 1 \in 1..Len(inbox[n])
      BY <2>1, Tailed
    <2>3. NextDate(n) = date[n]
      BY <2>2 DEF NextDate, DateIsNext
    <2> QED BY <2>2, <2>3 DEF DatesInv, Passing, SentNow
  <1> QED BY <1>1, <1>2

\* wait never passes its date and a message is handled at the date it was sent at,
\* also when handlers make requests (mex_node.host.cc:66, 151).
THEOREM DatesHold == MexSpec => [](MexTypeOK /\ NeverTooLate /\ HandledAtItsDate)
  BY DatesInvariant, DatesAreRight, PTL

--------------------------------------------------------------------------------
(* Requests, when handlers make none. *)

\* The calls of node n: a handler runs in a wait or a request of the program, which
\* runs in nothing; req_ is the request that was not answered yet.
FrameIsRight(n, f) ==
    /\ f.kind = "request" => f.req \in Asked /\ f.req.from = n
    /\ f.kind = "handler" => f.req = NoReq \/ (f.req \in Asked /\ f.req.from # n)
CallsAreRight(n, s, q) ==
    /\ Len(s) <= 2
    /\ \A i \in 1..Len(s) : /\ s[i].kind = "handler" <=> (i = 1 /\ Len(s) = 2)
                            /\ FrameIsRight(n, s[i])
    /\ s # << >> /\ s[1].kind = "handler" /\ ~s[1].flag /\ s[1].req # NoReq => q = s[1].req

\* Who writes and reads requests and responses.
OutIsRight(n, m) ==
    /\ m.type = "req" => m.req \in Asked /\ m.req.from = n
    /\ m.type = "rsp" => m.req \in Asked /\ m.req.to = n
InIsRight(n, m) ==
    /\ m.type = "req" => m.req \in Asked /\ m.req.from # n
    /\ m.type = "rsp" => m.req \in Asked /\ m.req.from = n

Addressed ==
    \A n \in Nodes :
        /\ CallsAreRight(n, stack[n], req[n])
        /\ \A i \in 1..Len(outbox[n]) : OutIsRight(n, outbox[n][i])
        /\ \A i \in 1..Len(inbox[n]) : InIsRight(n, inbox[n][i])

Carries(s, type, r) == \E i \in 1..Len(s) : s[i].type = type /\ s[i].req = r
CarriesOne(s, type, r) ==
    \A i, j \in 1..Len(s) :
        /\ s[i].type = type /\ s[i].req = r
        /\ s[j].type = type /\ s[j].req = r
        => i = j

Handles(s, r) == s # << >> /\ s[1].kind = "handler" /\ ~s[1].flag /\ s[1].req = r
Asks(s, r) == s # << >> /\ s[Len(s)].kind = "request" /\ s[Len(s)].req = r

\* Where a request is: on its way to the hub, to the node asked, in its handler;
\* and its response.
Leaves(r) == Carries(outbox[r.from], "req", r)
Arrives(r) == Carries(inbox[r.to], "req", r)
Handled(r) == Handles(stack[r.to], r)
Answered(r) == Carries(outbox[r.to], "rsp", r)
Returns(r) == Carries(inbox[r.from], "rsp", r)
Asking(r) == Asks(stack[r.from], r)

\* It is in one place at most, and in none when its node does not wait for it.
Single(r) ==
    /\ CarriesOne(outbox[r.from], "req", r) /\ CarriesOne(inbox[r.to], "req", r)
    /\ CarriesOne(outbox[r.to], "rsp", r) /\ CarriesOne(inbox[r.from], "rsp", r)
OnePlace(r) ==
    /\ Leaves(r) => ~Arrives(r) /\ ~Handled(r) /\ ~Answered(r) /\ ~Returns(r)
    /\ Arrives(r) => ~Handled(r) /\ ~Answered(r) /\ ~Returns(r)
    /\ Handled(r) => ~Answered(r) /\ ~Returns(r)
    /\ Answered(r) => ~Returns(r)
    /\ Leaves(r) \/ Arrives(r) \/ Handled(r) \/ Answered(r) \/ Returns(r) => Asking(r)

RequestsInv == Addressed /\ \A r \in Asked : Single(r) /\ OnePlace(r)

LEMMA AskedAreRequests == Asked \subseteq Requests /\ NoReq \notin Asked
  BY Bounds DEF Asked, Requests, NoReq

LEMMA CarriesAppend ==
  ASSUME NEW s \in Seq(Messages), NEW m \in Messages, NEW type, NEW r
  PROVE  /\ Carries(Append(s, m), type, r) => Carries(s, type, r) \/ (m.type = type /\ m.req = r)
         /\ /\ CarriesOne(s, type, r)
            /\ m.type = type /\ m.req = r => ~Carries(s, type, r)
            => CarriesOne(Append(s, m), type, r)
PROOF
  <1> DEFINE t == Append(s, m)
  <1>1. /\ Len(t) = Len(s) + 1 /\ Len(s) \in Nat /\ t[Len(s) + 1] = m
        /\ \A i \in 1..Len(s) : t[i] = s[i]
    BY Appended, LenProperties
  <1> HIDE DEF t
  <1>2. ASSUME NEW i \in 1..Len(t)
        PROVE  (i \in 1..Len(s) /\ t[i] = s[i]) \/ (i = Len(s) + 1 /\ t[i] = m)
    <2>1. i \in 1..Len(s) \/ i = Len(s) + 1
      BY <1>1
    <2> QED BY <2>1, <1>1
  <1>3. Carries(t, type, r) => Carries(s, type, r) \/ (m.type = type /\ m.req = r)
    BY <1>2 DEF Carries
  <1>4. ASSUME CarriesOne(s, type, r), m.type = type /\ m.req = r => ~Carries(s, type, r)
        PROVE  CarriesOne(t, type, r)
    <2> SUFFICES ASSUME NEW i \in 1..Len(t), NEW j \in 1..Len(t),
                        t[i].type = type, t[i].req = r, t[j].type = type, t[j].req = r
                 PROVE  i = j
      BY DEF CarriesOne
    <2>1. (i \in 1..Len(s) /\ t[i] = s[i]) \/ (i = Len(s) + 1 /\ t[i] = m)
      BY <1>2
    <2>2. (j \in 1..Len(s) /\ t[j] = s[j]) \/ (j = Len(s) + 1 /\ t[j] = m)
      BY <1>2
    <2> QED BY <1>4, <2>1, <2>2 DEF CarriesOne, Carries
  <1> QED BY <1>3, <1>4 DEF t

LEMMA CarriesTail ==
  ASSUME NEW s \in Seq(Messages), s # << >>, NEW type, NEW r
  PROVE  /\ Carries(Tail(s), type, r) => Carries(s, type, r)
         /\ CarriesOne(s, type, r) => CarriesOne(Tail(s), type, r)
         /\ Head(s).type = type /\ Head(s).req = r =>
              /\ Carries(s, type, r)
              /\ CarriesOne(s, type, r) => ~Carries(Tail(s), type, r)
PROOF
  <1> DEFINE t == Tail(s)
  <1>1. /\ Len(t) = Len(s) - 1 /\ Len(s) \in Nat \ {0} /\ s[1] = Head(s)
        /\ \A i \in 1..Len(s) - 1 : t[i] = s[i + 1]
    BY Tailed
  <1> HIDE DEF t
  <1>2. ASSUME NEW i \in 1..Len(t)
        PROVE  i + 1 \in 1..Len(s) /\ t[i] = s[i + 1] /\ i \in Nat \ {0}
    BY <1>1
  <1>3. Carries(t, type, r) => Carries(s, type, r)
    BY <1>2 DEF Carries
  <1>4. ASSUME CarriesOne(s, type, r) PROVE CarriesOne(t, type, r)
    <2> SUFFICES ASSUME NEW i \in 1..Len(t), NEW j \in 1..Len(t),
                        t[i].type = type, t[i].req = r, t[j].type = type, t[j].req = r
                 PROVE  i = j
      BY DEF CarriesOne
    <2>1. i + 1 \in 1..Len(s) /\ t[i] = s[i + 1] /\ i \in Nat \ {0}
      BY <1>2
    <2>2. j + 1 \in 1..Len(s) /\ t[j] = s[j + 1] /\ j \in Nat \ {0}
      BY <1>2
    <2>3. i + 1 = j + 1
      BY <1>4, <2>1, <2>2 DEF CarriesOne
    <2> QED BY <2>1, <2>2, <2>3
  <1>5. ASSUME Head(s).type = type, Head(s).req = r
        PROVE  Carries(s, type, r) /\ (CarriesOne(s, type, r) => ~Carries(t, type, r))
    <2>1. 1 \in 1..Len(s) /\ s[1].type = type /\ s[1].req = r
      BY <1>1, <1>5
    <2>2. Carries(s, type, r)
      BY <2>1 DEF Carries
    <2>3. ASSUME CarriesOne(s, type, r), NEW i \in 1..Len(t), t[i].type = type, t[i].req = r
          PROVE  FALSE
      <3>1. i + 1 \in 1..Len(s) /\ t[i] = s[i + 1] /\ i \in Nat \ {0}
        BY <1>2
      <3>2. i + 1 = 1
        BY <2>1, <2>3, <3>1 DEF CarriesOne
      <3> QED BY <3>1, <3>2
    <2> QED BY <2>2, <2>3 DEF Carries
  <1> QED BY <1>3, <1>4, <1>5 DEF t

--------------------------------------------------------------------------------
\* Calls of a node after a call of the program, a return, another state of the
\* innermost call, a handler.

LEMMA ProgramCalls ==
  ASSUME NEW n \in Nodes, NEW f \in Frames, f.kind # "handler", FrameIsRight(n, f), NEW q
  PROVE  /\ CallsAreRight(n, Pushed(f, << >>), q)
         /\ \A r : /\ ~Handles(Pushed(f, << >>), r)
                   /\ Asks(Pushed(f, << >>), r) <=> f.kind = "request" /\ f.req = r
PROOF
  <1> DEFINE t == Pushed(f, << >>)
  <1>1. Len(t) = 1 /\ t[1] = f /\ t # << >>
    BY DEF Pushed
  <1> HIDE DEF t
  <1>2. CallsAreRight(n, t, q)
    BY <1>1 DEF CallsAreRight
  <1> QED BY <1>1, <1>2 DEF Handles, Asks, t

LEMMA CallsReturned ==
  ASSUME NEW n \in Nodes, NEW s \in Seq(Frames), s # << >>, NEW p, NEW q, CallsAreRight(n, s, p)
  PROVE  /\ CallsAreRight(n, Tail(s), q)
         /\ \A r : ~Handles(Tail(s), r)
         /\ s[1].kind = "handler" => \A r : Asks(s, r) => Asks(Tail(s), r)
         /\ s[1].kind # "handler" => Len(s) = 1
PROOF
  <1> DEFINE t == Tail(s)
  <1>1. /\ Len(t) = Len(s) - 1 /\ Len(s) \in Nat \ {0} /\ t \in Seq(Frames)
        /\ \A i \in 1..Len(s) - 1 : t[i] = s[i + 1]
    BY Tailed
  <1> HIDE DEF t
  <1>2. /\ Len(s) <= 2
        /\ \A i \in 1..Len(s) : /\ s[i].kind = "handler" <=> (i = 1 /\ Len(s) = 2)
                                /\ FrameIsRight(n, s[i])
    BY DEF CallsAreRight
  <1>3. CASE Len(s) = 1
    <2>1. Len(t) = 0 /\ t = << >>
      BY <1>1, <1>3
    <2>2. 1 \in 1..Len(s) /\ s[1].kind # "handler"
      BY <1>2, <1>3
    <2>3. CallsAreRight(n, t, q)
      BY <2>1 DEF CallsAreRight
    <2>4. \A r : ~Handles(t, r)
      BY <2>1 DEF Handles
    <2> QED BY <2>2, <2>3, <2>4, <1>3 DEF t
  <1>4. CASE Len(s) = 2
    <2>1. Len(t) = 1 /\ t # << >> /\ t[1] = s[2] /\ 2 \in 1..Len(s) /\ 1 \in 1..Len(s)
      <3>1. \A k \in Nat : k = 2 => 1 \in 1..k - 1 /\ 1 \in 1..k /\ 2 \in 1..k /\ k - 1 = 1
        OBVIOUS
      <3>2. \A i \in 1..Len(s) - 1 : i = 1 => t[i] = s[2]
        BY <1>1
      <3>3. Len(t) = 1
        BY <1>1, <1>4
      <3>4. t # << >>
        BY <3>3, <1>1, EmptySeq
      <3>5. t[1] = s[2]
        BY ONLY <3>1, <3>2, <1>4, Zenon
      <3>6. 2 \in 1..Len(s) /\ 1 \in 1..Len(s)
        BY ONLY <3>1, <1>4, Zenon
      <3> QED BY <3>3, <3>4, <3>5, <3>6
    <2>2. s[2].kind # "handler" /\ FrameIsRight(n, s[2]) /\ s[1].kind = "handler"
      BY <2>1, <1>2, <1>4
    <2>3. CallsAreRight(n, t, q)
      BY <2>1, <2>2 DEF CallsAreRight
    <2> QED BY <2>1, <2>2, <2>3, <1>4 DEF Handles, Asks, t
  <1> QED BY <1>1, <1>2, <1>3, <1>4

LEMMA CallsContinued ==
  ASSUME NEW n \in Nodes, NEW s \in Seq(Frames), s # << >>, NEW p, NEW q, CallsAreRight(n, s, p),
         NEW g \in Frames, g.kind = s[1].kind, g.req = s[1].req,
         g.kind = "handler" => g.flag
  PROVE  LET t == [s EXCEPT ![1] = g]
         IN  /\ CallsAreRight(n, t, q)
             /\ \A r : ~Handles(t, r) /\ (Asks(s, r) => Asks(t, r))
PROOF
  <1> DEFINE t == [s EXCEPT ![1] = g]
  <1>1. /\ t \in Seq(Frames) /\ t # << >> /\ Len(t) = Len(s) /\ Len(s) \in Nat \ {0}
        /\ t[1] = g /\ \A i \in 2..Len(s) : t[i] = s[i]
    BY SetFirst
  <1> HIDE DEF t
  <1>2. \A i \in 1..Len(t) : t[i].kind = s[i].kind /\ t[i].req = s[i].req
    <2> TAKE i \in 1..Len(t)
    <2>1. i = 1 \/ i \in 2..Len(s)
      BY <1>1
    <2> QED BY <2>1, <1>1
  <1>3. CallsAreRight(n, t, q)
    <2>1. Len(t) <= 2 /\ \A i \in 1..Len(t) : t[i].kind = "handler" <=> (i = 1 /\ Len(t) = 2)
      BY <1>1, <1>2 DEF CallsAreRight
    <2>2. \A i \in 1..Len(t) : FrameIsRight(n, t[i])
      BY <1>1, <1>2 DEF CallsAreRight, FrameIsRight
    <2> QED BY <2>1, <2>2, <1>1 DEF CallsAreRight
  <1>4. \A r : ~Handles(t, r)
    BY <1>1 DEF Handles
  <1>5. \A r : Asks(s, r) => Asks(t, r)
    <2>1. Len(s) \in 1..Len(t)
      BY <1>1
    <2> QED BY <2>1, <1>1, <1>2 DEF Asks
  <1> QED BY <1>3, <1>4, <1>5 DEF t

LEMMA HandlerCalled ==
  ASSUME NEW n \in Nodes, NEW s \in Seq(Frames), s # << >>, NEW p, NEW q, CallsAreRight(n, s, p),
         s[1].kind # "handler",
         NEW g \in Frames, g.kind = s[1].kind, g.req = s[1].req,
         NEW h \in Frames, h.kind = "handler", FrameIsRight(n, h), h.req # NoReq => q = h.req
  PROVE  LET t == Pushed2(h, g, s)
         IN  /\ CallsAreRight(n, t, q)
             /\ \A r : (Handles(t, r) => r = h.req) /\ (Asks(s, r) => Asks(t, r))
PROOF
  <1> DEFINE t == Pushed2(h, g, s)
  <1>1. /\ t \in Seq(Frames) /\ t # << >> /\ Len(t) = Len(s) + 1 /\ Len(s) \in Nat \ {0}
        /\ t[1] = h /\ t[2] = g
    BY PushedOnRest
  <1> HIDE DEF t
  <1>2. Len(s) = 1
    <2>1. 1 \in 1..Len(s) /\ Len(s) <= 2
      BY <1>1 DEF CallsAreRight
    <2>2. Len(s) # 2
      BY <2>1 DEF CallsAreRight
    <2>3. Len(s) \in Nat \ {0}
      BY <1>1
    <2>4. \A k \in Nat \ {0} : k <= 2 /\ k # 2 => k = 1
      OBVIOUS
    <2> QED BY ONLY <2>1, <2>2, <2>3, <2>4, Zenon
  <1>3. FrameIsRight(n, s[1])
    BY <1>2 DEF CallsAreRight
  <1>4. FrameIsRight(n, g)
    BY <1>3 DEF FrameIsRight
  <1>5. Len(t) = 2 /\ \A i \in 1..Len(t) : i = 1 \/ i = 2
    BY <1>1, <1>2
  <1>6. CallsAreRight(n, t, q)
    BY <1>1, <1>4, <1>5 DEF CallsAreRight
  <1>7. \A r : (Handles(t, r) => r = h.req) /\ (Asks(s, r) => Asks(t, r))
    BY <1>1, <1>2, <1>5 DEF Handles, Asks
  <1> QED BY <1>6, <1>7 DEF t

--------------------------------------------------------------------------------
\* What a message written, read or sent changes of where requests are.

AllOut == \A k \in Nodes : \A i \in 1..Len(outbox[k]) : OutIsRight(k, outbox[k][i])
AllIn == \A k \in Nodes : \A i \in 1..Len(inbox[k]) : InIsRight(k, inbox[k][i])
AllCalls == \A k \in Nodes : CallsAreRight(k, stack[k], req[k])
AskedOnce(r) == CarriesOne(outbox[r.from], "req", r)
ArrivesOnce(r) == CarriesOne(inbox[r.to], "req", r)
AnsweredOnce(r) == CarriesOne(outbox[r.to], "rsp", r)
ReturnsOnce(r) == CarriesOne(inbox[r.from], "rsp", r)

LEMMA Parts ==
  /\ RequestsInv <=> /\ AllOut /\ AllIn /\ AllCalls
                     /\ \A r \in Asked : OnePlace(r) /\ AskedOnce(r) /\ ArrivesOnce(r)
                                         /\ AnsweredOnce(r) /\ ReturnsOnce(r)
  BY DEF RequestsInv, Addressed, AllOut, AllIn, AllCalls, Single, AskedOnce, ArrivesOnce,
         AnsweredOnce, ReturnsOnce

LEMMA Ends == \A r \in Asked : r.from \in Nodes /\ r.to \in Nodes /\ r.from # r.to
  BY DEF Asked

LEMMA Wrote ==
  ASSUME MexTypes, AllOut, NEW n \in Nodes, NEW msg \in Messages, OutIsRight(n, msg),
         outbox' = [outbox EXCEPT ![n] = Append(@, msg)]
  PROVE  /\ AllOut'
         /\ \A r \in Asked :
              /\ Leaves(r)' => Leaves(r) \/ (msg.type = "req" /\ msg.req = r)
              /\ Answered(r)' => Answered(r) \/ (msg.type = "rsp" /\ msg.req = r)
              /\ /\ AskedOnce(r) /\ (msg.type = "req" /\ msg.req = r => ~Leaves(r))
                 => AskedOnce(r)'
              /\ /\ AnsweredOnce(r) /\ (msg.type = "rsp" /\ msg.req = r => ~Answered(r))
                 => AnsweredOnce(r)'
PROOF
  <1>1. outbox[n] \in Seq(Messages) /\ outbox'[n] = Append(outbox[n], msg)
        /\ \A k \in Nodes \ {n} : outbox'[k] = outbox[k]
    BY DEF MexTypes
  <1>2. \A k \in Nodes : \A type, r :
          /\ Carries(outbox'[k], type, r) =>
               Carries(outbox[k], type, r) \/ (msg.type = type /\ msg.req = r)
          /\ /\ CarriesOne(outbox[k], type, r)
             /\ msg.type = type /\ msg.req = r => ~Carries(outbox[k], type, r)
             => CarriesOne(outbox'[k], type, r)
    <2> TAKE k \in Nodes
    <2> TAKE type, r
    <2>1. CASE k = n
      BY <1>1, <2>1, CarriesAppend
    <2>2. CASE k # n
      BY <1>1, <2>2
    <2> QED BY <2>1, <2>2
  <1>3. AllOut'
    <2> SUFFICES ASSUME NEW k \in Nodes, NEW i \in 1..Len(outbox'[k])
                 PROVE  OutIsRight(k, outbox'[k][i])
      BY DEF AllOut, OutIsRight
    <2>1. CASE k # n
      BY <1>1, <2>1 DEF AllOut
    <2>2. CASE k = n
      <3>1. /\ Len(outbox'[n]) = Len(outbox[n]) + 1 /\ Len(outbox[n]) \in Nat
            /\ outbox'[n][Len(outbox[n]) + 1] = msg
            /\ \A j \in 1..Len(outbox[n]) : outbox'[n][j] = outbox[n][j]
        BY <1>1, Appended, LenProperties
      <3>2. i \in 1..Len(outbox[n]) \/ i = Len(outbox[n]) + 1
        BY <2>2, <3>1
      <3> QED BY <2>2, <3>1, <3>2 DEF AllOut
    <2> QED BY <2>1, <2>2
  <1>4. \A r \in Asked : r.from \in Nodes /\ r.to \in Nodes
    BY Ends
  <1> QED BY <1>2, <1>3, <1>4 DEF Leaves, Answered, AskedOnce, AnsweredOnce

LEMMA ReadByHub ==
  ASSUME MexTypes, AllOut, NEW n \in Nodes, outbox[n] # << >>,
         outbox' = [outbox EXCEPT ![n] = Tail(@)]
  PROVE  /\ AllOut' /\ OutIsRight(n, Head(outbox[n])) /\ Head(outbox[n]) \in Messages
         /\ \A r \in Asked :
              /\ Leaves(r)' => Leaves(r)
              /\ Answered(r)' => Answered(r)
              /\ AskedOnce(r) => AskedOnce(r)'
              /\ AnsweredOnce(r) => AnsweredOnce(r)'
              /\ r.from = n /\ Head(outbox[n]).type = "req" /\ Head(outbox[n]).req = r =>
                   Leaves(r) /\ (AskedOnce(r) => ~Leaves(r)')
              /\ r.to = n /\ Head(outbox[n]).type = "rsp" /\ Head(outbox[n]).req = r =>
                   Answered(r) /\ (AnsweredOnce(r) => ~Answered(r)')
PROOF
  <1>1. outbox[n] \in Seq(Messages) /\ outbox'[n] = Tail(outbox[n])
        /\ \A k \in Nodes \ {n} : outbox'[k] = outbox[k]
    BY DEF MexTypes
  <1>2. \A k \in Nodes : \A type, r :
          /\ Carries(outbox'[k], type, r) => Carries(outbox[k], type, r)
          /\ CarriesOne(outbox[k], type, r) => CarriesOne(outbox'[k], type, r)
    <2> TAKE k \in Nodes
    <2> TAKE type, r
    <2>1. CASE k = n
      BY <1>1, <2>1, CarriesTail
    <2>2. CASE k # n
      BY <1>1, <2>2
    <2> QED BY <2>1, <2>2
  <1>3. \A type, r :
          Head(outbox[n]).type = type /\ Head(outbox[n]).req = r =>
            /\ Carries(outbox[n], type, r)
            /\ CarriesOne(outbox[n], type, r) => ~Carries(outbox'[n], type, r)
    BY <1>1, CarriesTail
  <1>4. /\ Len(outbox'[n]) = Len(outbox[n]) - 1 /\ Len(outbox[n]) \in Nat \ {0}
        /\ Head(outbox[n]) \in Messages /\ outbox[n][1] = Head(outbox[n])
        /\ \A i \in 1..Len(outbox'[n]) :
             i + 1 \in 1..Len(outbox[n]) /\ outbox'[n][i] = outbox[n][i + 1]
    BY Read
  <1>5. AllOut'
    <2> SUFFICES ASSUME NEW k \in Nodes, NEW i \in 1..Len(outbox'[k])
                 PROVE  OutIsRight(k, outbox'[k][i])
      BY DEF AllOut, OutIsRight
    <2>1. CASE k # n
      BY <1>1, <2>1 DEF AllOut
    <2>2. CASE k = n
      BY <2>2, <1>4 DEF AllOut
    <2> QED BY <2>1, <2>2
  <1>6. OutIsRight(n, Head(outbox[n]))
    <2>1. 1 \in 1..Len(outbox[n])
      BY <1>4
    <2> QED BY <2>1, <1>4 DEF AllOut
  <1>7. \A r \in Asked : r.from \in Nodes /\ r.to \in Nodes
    BY Ends
  <1>8. \A r \in Asked : /\ Leaves(r)' => Leaves(r)
                         /\ Answered(r)' => Answered(r)
                         /\ AskedOnce(r) => AskedOnce(r)'
                         /\ AnsweredOnce(r) => AnsweredOnce(r)'
    BY <1>2, <1>7 DEF Leaves, Answered, AskedOnce, AnsweredOnce
  <1>9. \A r \in Asked :
          /\ r.from = n /\ Head(outbox[n]).type = "req" /\ Head(outbox[n]).req = r =>
               Leaves(r) /\ (AskedOnce(r) => ~Leaves(r)')
          /\ r.to = n /\ Head(outbox[n]).type = "rsp" /\ Head(outbox[n]).req = r =>
               Answered(r) /\ (AnsweredOnce(r) => ~Answered(r)')
    BY <1>3 DEF Leaves, Answered, AskedOnce, AnsweredOnce
  <1> QED BY <1>4, <1>5, <1>6, <1>8, <1>9

LEMMA ReadByNode ==
  ASSUME MexTypes, AllIn, NEW n \in Nodes, inbox[n] # << >>,
         inbox' = [inbox EXCEPT ![n] = Tail(@)]
  PROVE  /\ AllIn' /\ InIsRight(n, Head(inbox[n]))
         /\ \A r \in Asked :
              /\ Arrives(r)' => Arrives(r)
              /\ Returns(r)' => Returns(r)
              /\ ArrivesOnce(r) => ArrivesOnce(r)'
              /\ ReturnsOnce(r) => ReturnsOnce(r)'
              /\ r.to = n /\ Head(inbox[n]).type = "req" /\ Head(inbox[n]).req = r =>
                   Arrives(r) /\ (ArrivesOnce(r) => ~Arrives(r)')
              /\ r.from = n /\ Head(inbox[n]).type = "rsp" /\ Head(inbox[n]).req = r =>
                   Returns(r) /\ (ReturnsOnce(r) => ~Returns(r)')
PROOF
  <1>1. inbox[n] \in Seq(Messages) /\ inbox'[n] = Tail(inbox[n])
        /\ \A k \in Nodes \ {n} : inbox'[k] = inbox[k]
    BY DEF MexTypes
  <1>2. \A k \in Nodes : \A type, r :
          /\ Carries(inbox'[k], type, r) => Carries(inbox[k], type, r)
          /\ CarriesOne(inbox[k], type, r) => CarriesOne(inbox'[k], type, r)
    <2> TAKE k \in Nodes
    <2> TAKE type, r
    <2>1. CASE k = n
      BY <1>1, <2>1, CarriesTail
    <2>2. CASE k # n
      BY <1>1, <2>2
    <2> QED BY <2>1, <2>2
  <1>3. \A type, r :
          Head(inbox[n]).type = type /\ Head(inbox[n]).req = r =>
            /\ Carries(inbox[n], type, r)
            /\ CarriesOne(inbox[n], type, r) => ~Carries(inbox'[n], type, r)
    BY <1>1, CarriesTail
  <1>4. /\ Len(inbox'[n]) = Len(inbox[n]) - 1 /\ Len(inbox[n]) \in Nat \ {0}
        /\ inbox[n][1] = Head(inbox[n])
        /\ \A i \in 1..Len(inbox[n]) - 1 : inbox'[n][i] = inbox[n][i + 1]
    <2>1. inbox[n] # << >>
      OBVIOUS
    <2> QED BY ONLY <1>1, <2>1, Tailed
  <1>5. AllIn'
    <2> SUFFICES ASSUME NEW k \in Nodes, NEW i \in 1..Len(inbox'[k])
                 PROVE  InIsRight(k, inbox'[k][i])
      BY DEF AllIn, InIsRight
    <2>1. CASE k # n
      BY <1>1, <2>1 DEF AllIn
    <2>2. CASE k = n
      <3>1. i \in 1..Len(inbox'[n])
        BY <2>2
      <3>2. i + 1 \in 1..Len(inbox[n]) /\ inbox'[n][i] = inbox[n][i + 1]
        BY <3>1, <1>4
      <3> QED BY <2>2, <3>2 DEF AllIn
    <2> QED BY <2>1, <2>2
  <1>6. InIsRight(n, Head(inbox[n]))
    <2>1. 1 \in 1..Len(inbox[n])
      BY <1>4
    <2> QED BY <2>1, <1>4 DEF AllIn
  <1>7. \A r \in Asked : r.from \in Nodes /\ r.to \in Nodes
    BY Ends
  <1>8. \A r \in Asked : /\ Arrives(r)' => Arrives(r)
                         /\ Returns(r)' => Returns(r)
                         /\ ArrivesOnce(r) => ArrivesOnce(r)'
                         /\ ReturnsOnce(r) => ReturnsOnce(r)'
    BY <1>2, <1>7 DEF Arrives, Returns, ArrivesOnce, ReturnsOnce
  <1>9. \A r \in Asked :
          /\ r.to = n /\ Head(inbox[n]).type = "req" /\ Head(inbox[n]).req = r =>
               Arrives(r) /\ (ArrivesOnce(r) => ~Arrives(r)')
          /\ r.from = n /\ Head(inbox[n]).type = "rsp" /\ Head(inbox[n]).req = r =>
               Returns(r) /\ (ReturnsOnce(r) => ~Returns(r)')
    BY <1>3 DEF Arrives, Returns, ArrivesOnce, ReturnsOnce
  <1> QED BY <1>5, <1>6, <1>8, <1>9

LEMMA SentByHub ==
  ASSUME MexTypes, AllIn, NEW to, NEW msg \in Messages, HubSends(to, msg),
         \A k \in Nodes : k \in to => InIsRight(k, msg)
  PROVE  /\ AllIn'
         /\ \A r \in Asked :
              /\ Arrives(r)' => Arrives(r) \/ (msg.type = "req" /\ msg.req = r)
              /\ Returns(r)' => Returns(r) \/ (msg.type = "rsp" /\ msg.req = r)
              /\ /\ ArrivesOnce(r) /\ (msg.type = "req" /\ msg.req = r => ~Arrives(r))
                 => ArrivesOnce(r)'
              /\ /\ ReturnsOnce(r) /\ (msg.type = "rsp" /\ msg.req = r => ~Returns(r))
                 => ReturnsOnce(r)'
PROOF
  <1>1. \A k \in Nodes : /\ inbox[k] \in Seq(Messages)
                         /\ k \in to => inbox'[k] = Append(inbox[k], msg)
                         /\ k \notin to => inbox'[k] = inbox[k]
    BY DEF MexTypes, HubSends
  <1>2. \A k \in Nodes : \A type, r :
          /\ Carries(inbox'[k], type, r) =>
               Carries(inbox[k], type, r) \/ (msg.type = type /\ msg.req = r)
          /\ /\ CarriesOne(inbox[k], type, r)
             /\ msg.type = type /\ msg.req = r => ~Carries(inbox[k], type, r)
             => CarriesOne(inbox'[k], type, r)
    <2> TAKE k \in Nodes
    <2> TAKE type, r
    <2>1. CASE k \in to
      <3>1. inbox[k] \in Seq(Messages) /\ inbox'[k] = Append(inbox[k], msg) /\ msg \in Messages
        BY <1>1, <2>1
      <3> QED BY ONLY <3>1, CarriesAppend
    <2>2. CASE k \notin to
      BY <1>1, <2>2
    <2> QED BY <2>1, <2>2
  <1>3. AllIn'
    <2> SUFFICES ASSUME NEW k \in Nodes, NEW i \in 1..Len(inbox'[k])
                 PROVE  InIsRight(k, inbox'[k][i])
      BY DEF AllIn, InIsRight
    <2>1. CASE k \notin to
      BY <1>1, <2>1 DEF AllIn
    <2>2. CASE k \in to
      <3>1. /\ Len(inbox'[k]) = Len(inbox[k]) + 1 /\ Len(inbox[k]) \in Nat
            /\ inbox'[k][Len(inbox[k]) + 1] = msg
            /\ \A j \in 1..Len(inbox[k]) : inbox'[k][j] = inbox[k][j]
        BY <1>1, <2>2, Appended, LenProperties
      <3>2. i \in 1..Len(inbox[k]) \/ i = Len(inbox[k]) + 1
        BY <3>1
      <3> QED BY <2>2, <3>1, <3>2 DEF AllIn
    <2> QED BY <2>1, <2>2
  <1>4. \A r \in Asked : r.from \in Nodes /\ r.to \in Nodes
    BY Ends
  <1> QED BY <1>2, <1>3, <1>4 DEF Arrives, Returns, ArrivesOnce, ReturnsOnce

LEMMA CallsMade ==
  ASSUME MexTypes, AllCalls, NEW n \in Nodes, NEW t, stack' = [stack EXCEPT ![n] = t],
         CallsAreRight(n, t, req'[n]), \A k \in Nodes \ {n} : req'[k] = req[k]
  PROVE  /\ AllCalls'
         /\ \A r \in Asked :
              /\ Handled(r)' => IF r.to = n THEN Handles(t, r) ELSE Handled(r)
              /\ r.from # n /\ Asking(r) => Asking(r)'
              /\ r.from = n /\ Asking(r) => Asks(stack[n], r)
              /\ r.from = n /\ Asks(t, r) => Asking(r)'
PROOF
  <1>1. stack'[n] = t /\ \A k \in Nodes \ {n} : stack'[k] = stack[k]
    BY DEF MexTypes
  <1>2. AllCalls'
    <2> SUFFICES ASSUME NEW k \in Nodes PROVE CallsAreRight(k, stack'[k], req'[k])
      BY DEF AllCalls, CallsAreRight, FrameIsRight
    <2>1. CASE k = n
      BY <1>1, <2>1
    <2>2. CASE k # n
      BY <1>1, <2>2 DEF AllCalls
    <2> QED BY <2>1, <2>2
  <1>3. ASSUME NEW r \in Asked
        PROVE  /\ Handled(r)' => IF r.to = n THEN Handles(t, r) ELSE Handled(r)
               /\ r.from # n /\ Asking(r) => Asking(r)'
               /\ r.from = n /\ Asking(r) => Asks(stack[n], r)
               /\ r.from = n /\ Asks(t, r) => Asking(r)'
    <2>1. r.from \in Nodes /\ r.to \in Nodes
      BY Ends
    <2>2. Handled(r)' <=> Handles(stack'[r.to], r)
      BY DEF Handled, Handles
    <2>3. Asking(r)' <=> Asks(stack'[r.from], r)
      BY DEF Asking, Asks
    <2>4. CASE r.to = n
      BY <1>1, <2>1, <2>2, <2>3, <2>4, Ends DEF Handled, Asking
    <2>5. CASE r.to # n
      <3>1. Handled(r)' => Handled(r)
        BY <1>1, <2>1, <2>2, <2>5 DEF Handled
      <3>2. CASE r.from = n
        BY <1>1, <2>3, <2>5, <3>1, <3>2 DEF Asking
      <3>3. CASE r.from # n
        BY <1>1, <2>1, <2>3, <2>5, <3>1, <3>3 DEF Asking
      <3> QED BY <3>2, <3>3
    <2> QED BY <2>4, <2>5
  <1> QED BY <1>2, <1>3

LEMMA NothingCalled ==
  ASSUME UNCHANGED <<stack, req>>
  PROVE  /\ AllCalls => AllCalls'
         /\ \A r \in Asked : (Handled(r)' => Handled(r)) /\ (Asking(r) => Asking(r)')
  BY DEF AllCalls, CallsAreRight, FrameIsRight, Handled, Handles, Asking, Asks

LEMMA NothingWritten ==
  ASSUME UNCHANGED outbox
  PROVE  /\ AllOut => AllOut'
         /\ \A r \in Asked : /\ (Leaves(r)' => Leaves(r)) /\ (Answered(r)' => Answered(r))
                             /\ AskedOnce(r) => AskedOnce(r)'
                             /\ AnsweredOnce(r) => AnsweredOnce(r)'
  BY DEF AllOut, OutIsRight, Leaves, Answered, Carries, AskedOnce, AnsweredOnce, CarriesOne

LEMMA NothingSent ==
  ASSUME UNCHANGED inbox
  PROVE  /\ AllIn => AllIn'
         /\ \A r \in Asked : /\ (Arrives(r)' => Arrives(r)) /\ (Returns(r)' => Returns(r))
                             /\ ArrivesOnce(r) => ArrivesOnce(r)'
                             /\ ReturnsOnce(r) => ReturnsOnce(r)'
  BY DEF AllIn, InIsRight, Arrives, Returns, Carries, ArrivesOnce, ReturnsOnce, CarriesOne

LEMMA RequestsInit == MexInit => RequestsInv
PROOF
  <1> SUFFICES ASSUME MexInit PROVE RequestsInv
    OBVIOUS
  <1>1. \A n \in Nodes : stack[n] = << >> /\ inbox[n] = << >> /\ outbox[n] = << >>
    BY DEF MexInit
  <1>2. Addressed
    BY <1>1 DEF Addressed, CallsAreRight
  <1>3. ASSUME NEW r \in Asked PROVE Single(r) /\ OnePlace(r)
    <2>1. r.from \in Nodes /\ r.to \in Nodes
      BY Ends
    <2>2. Single(r)
      BY <1>1, <2>1 DEF Single, CarriesOne
    <2>3. ~Leaves(r) /\ ~Arrives(r) /\ ~Answered(r) /\ ~Returns(r)
      BY <1>1, <2>1 DEF Leaves, Arrives, Answered, Returns, Carries
    <2>4. ~Handled(r)
      BY <1>1, <2>1 DEF Handled, Handles
    <2> QED BY <2>2, <2>3, <2>4 DEF OnePlace
  <1> QED BY <1>2, <1>3 DEF RequestsInv

LEMMA HubKeepsRequests ==
  ASSUME MexTypes, RequestsInv, HubStep
  PROVE  RequestsInv'
PROOF
  <1>0. /\ AllOut /\ AllIn /\ AllCalls
        /\ \A r \in Asked : OnePlace(r) /\ AskedOnce(r) /\ ArrivesOnce(r)
                            /\ AnsweredOnce(r) /\ ReturnsOnce(r)
    BY Parts
  <1>1. ASSUME /\ AllOut' /\ AllIn' /\ AllCalls'
               /\ \A r \in Asked : OnePlace(r)' /\ AskedOnce(r)' /\ ArrivesOnce(r)'
                                   /\ AnsweredOnce(r)' /\ ReturnsOnce(r)'
        PROVE  RequestsInv'
    <2>1. (RequestsInv <=> /\ AllOut /\ AllIn /\ AllCalls
                     /\ \A r \in Asked : OnePlace(r) /\ AskedOnce(r) /\ ArrivesOnce(r)
                                         /\ AnsweredOnce(r) /\ ReturnsOnce(r))'
      BY Parts, PTL
    <2> QED BY <1>1, <2>1
  <1>2. CASE HubDate
    <2>1. UNCHANGED <<stack, req>> /\ UNCHANGED outbox
      BY <1>2 DEF HubDate, node
    <2>2. PICK d \in 1..MaxDate : HubSends(Nodes, Msg("date", d, NoReq, 0, d))
      BY <1>2 DEF HubDate
    <2> DEFINE msg == Msg("date", d, NoReq, 0, d)
    <2>3. msg \in Messages /\ msg.type = "date"
      <3>1. d \in 0..Forever /\ d \in 0..MaxDate /\ 0 \in Nat /\ NoReq \in Requests
        BY Bounds
      <3> QED BY <3>1 DEF Msg, Messages
    <2>4. HubSends(Nodes, msg)
      BY <2>2
    <2> HIDE DEF msg
    <2>5. \A k \in Nodes : InIsRight(k, msg)
      BY <2>3 DEF InIsRight
    <2>6. /\ AllIn'
          /\ \A r \in Asked :
               /\ Arrives(r)' => Arrives(r)
               /\ Returns(r)' => Returns(r)
               /\ ArrivesOnce(r) => ArrivesOnce(r)'
               /\ ReturnsOnce(r) => ReturnsOnce(r)'
      BY <1>0, <2>3, <2>4, <2>5, SentByHub
    <2> QED BY <1>0, <1>1, <2>1, <2>6, NothingCalled, NothingWritten DEF OnePlace
  <1>3. ASSUME NEW n \in Nodes, HubIdle(n) PROVE RequestsInv'
    <2>1. UNCHANGED <<stack, req>> /\ UNCHANGED inbox /\ outbox[n] # << >>
          /\ outbox' = [outbox EXCEPT ![n] = Tail(@)]
      BY <1>3 DEF HubIdle, HubReads, node
    <2>2. /\ AllOut'
          /\ \A r \in Asked : /\ Leaves(r)' => Leaves(r)
                              /\ Answered(r)' => Answered(r)
                              /\ AskedOnce(r) => AskedOnce(r)'
                              /\ AnsweredOnce(r) => AnsweredOnce(r)'
      BY <1>0, <2>1, ReadByHub
    <2> QED BY <1>0, <1>1, <2>1, <2>2, NothingCalled, NothingSent DEF OnePlace
  <1>4. ASSUME NEW n \in Nodes, HubForwards(n) PROVE RequestsInv'
    <2> DEFINE msg == Head(outbox[n])
    <2>1. UNCHANGED <<stack, req>> /\ outbox[n] # << >>
          /\ outbox' = [outbox EXCEPT ![n] = Tail(@)]
      BY <1>4 DEF HubForwards, HubReads, node
    <2>2. /\ AllOut' /\ OutIsRight(n, msg) /\ msg \in Messages
          /\ \A r \in Asked :
               /\ Leaves(r)' => Leaves(r)
               /\ Answered(r)' => Answered(r)
               /\ AskedOnce(r) => AskedOnce(r)'
               /\ AnsweredOnce(r) => AnsweredOnce(r)'
               /\ r.from = n /\ msg.type = "req" /\ msg.req = r =>
                    Leaves(r) /\ (AskedOnce(r) => ~Leaves(r)')
               /\ r.to = n /\ msg.type = "rsp" /\ msg.req = r =>
                    Answered(r) /\ (AnsweredOnce(r) => ~Answered(r)')
      BY <1>0, <2>1, ReadByHub
    <2>3. \E to : HubSends(to, msg) /\ \A k \in Nodes : k \in to => InIsRight(k, msg)
      <3>1. CASE msg.type = "msg"
        <4>1. HubSends(Nodes \ {n}, msg)
          BY <1>4, <3>1 DEF HubForwards, HubReads
        <4> QED BY <4>1, <3>1 DEF InIsRight
      <3>2. CASE msg.type = "req"
        <4>1. HubSends(Nodes \ {n}, msg)
          BY <1>4, <3>2 DEF HubForwards, HubReads
        <4>2. \A k \in Nodes \ {n} : InIsRight(k, msg)
          BY <2>2, <3>2 DEF InIsRight, OutIsRight
        <4> QED BY <4>1, <4>2
      <3>3. CASE msg.type = "rsp"
        <4>1. HubSends(Nodes \cap {msg.req.from}, msg)
          BY <1>4, <3>3 DEF HubForwards, HubReads
        <4>2. \A k \in Nodes \cap {msg.req.from} : InIsRight(k, msg)
          BY <2>2, <3>3 DEF InIsRight, OutIsRight
        <4> QED BY <4>1, <4>2
      <3>4. msg.type \in {"msg", "req", "rsp"}
        BY <1>4 DEF HubForwards, HubReads
      <3> QED BY <3>1, <3>2, <3>3, <3>4
    <2> HIDE DEF msg
    <2>4. /\ AllIn'
          /\ \A r \in Asked :
               /\ Arrives(r)' => Arrives(r) \/ (msg.type = "req" /\ msg.req = r)
               /\ Returns(r)' => Returns(r) \/ (msg.type = "rsp" /\ msg.req = r)
               /\ /\ ArrivesOnce(r) /\ (msg.type = "req" /\ msg.req = r => ~Arrives(r))
                  => ArrivesOnce(r)'
               /\ /\ ReturnsOnce(r) /\ (msg.type = "rsp" /\ msg.req = r => ~Returns(r))
                  => ReturnsOnce(r)'
      BY <1>0, <2>2, <2>3, SentByHub
    <2>5. ASSUME NEW r \in Asked
          PROVE  OnePlace(r)' /\ AskedOnce(r)' /\ ArrivesOnce(r)' /\ AnsweredOnce(r)'
                 /\ ReturnsOnce(r)'
      <3>1. (Handled(r)' => Handled(r)) /\ (Asking(r) => Asking(r)')
        BY <2>1, NothingCalled
      <3>2. msg.type = "req" /\ msg.req = r => r.from = n
        BY <2>2 DEF OutIsRight
      <3>3. msg.type = "rsp" /\ msg.req = r => r.to = n
        BY <2>2 DEF OutIsRight
      <3>4. OnePlace(r) /\ AskedOnce(r) /\ ArrivesOnce(r) /\ AnsweredOnce(r) /\ ReturnsOnce(r)
        BY <1>0
      <3>5. CASE msg.type = "req" /\ msg.req = r
        BY <2>2, <2>4, <3>1, <3>2, <3>4, <3>5 DEF OnePlace
      <3>6. CASE msg.type = "rsp" /\ msg.req = r
        BY <2>2, <2>4, <3>1, <3>3, <3>4, <3>6 DEF OnePlace
      <3>7. CASE ~(msg.req = r /\ msg.type \in {"req", "rsp"})
        BY <2>2, <2>4, <3>1, <3>4, <3>7 DEF OnePlace
      <3> QED BY <3>5, <3>6, <3>7
    <2>6. AllCalls'
      BY <1>0, <2>1, NothingCalled
    <2> QED BY <1>1, <2>2, <2>4, <2>5, <2>6
  <1> QED BY <1>2, <1>3, <1>4 DEF HubStep

LEMMA NodeKeepsRequests ==
  ASSUME MexTypes, RequestsInv, ~NestedRequests, NEW n \in Nodes, NodeStep(n)
  PROVE  RequestsInv'
PROOF
  <1> USE Bounds
  <1>0. /\ AllOut /\ AllIn /\ AllCalls
        /\ \A r \in Asked : OnePlace(r) /\ AskedOnce(r) /\ ArrivesOnce(r)
                            /\ AnsweredOnce(r) /\ ReturnsOnce(r)
    BY Parts
  <1>p. ASSUME /\ AllOut' /\ AllIn' /\ AllCalls'
               /\ \A r \in Asked : OnePlace(r)' /\ AskedOnce(r)' /\ ArrivesOnce(r)'
                                   /\ AnsweredOnce(r)' /\ ReturnsOnce(r)'
        PROVE  RequestsInv'
    <2>1. (RequestsInv <=> /\ AllOut /\ AllIn /\ AllCalls
                     /\ \A r \in Asked : OnePlace(r) /\ AskedOnce(r) /\ ArrivesOnce(r)
                                         /\ AnsweredOnce(r) /\ ReturnsOnce(r))'
      BY Parts, PTL
    <2> QED BY <1>p, <2>1
  <1>s. stack[n] \in Seq(Frames) /\ CallsAreRight(n, stack[n], req[n])
    BY <1>0 DEF MexTypes, AllCalls
  <1>t. stack[n] # << >> => /\ Top(n) \in Frames /\ Top(n) = stack[n][1]
                            /\ Len(stack[n]) \in Nat \ {0} /\ 1 \in 1..Len(stack[n])
                            /\ FrameIsRight(n, Top(n))
                            /\ Top(n).kind # "handler" => Len(stack[n]) = 1
    <2> HAVE stack[n] # << >>
    <2>1. /\ Top(n) \in Frames /\ Top(n) = stack[n][1] /\ Len(stack[n]) \in Nat \ {0}
          /\ 1 \in 1..Len(stack[n])
      BY <1>s, Tailed DEF Top
    <2>2. FrameIsRight(n, Top(n))
      BY <1>s, <2>1 DEF CallsAreRight
    <2>3. stack[n][1].kind # "handler" => Len(stack[n]) = 1
      BY <1>s, CallsReturned
    <2> QED BY <2>1, <2>2, <2>3
  \* A program that asks nothing has no request anywhere.
  <1>n. ASSUME NEW r \in Asked, r.from = n, ~Asks(stack[n], r)
        PROVE  ~Leaves(r) /\ ~Arrives(r) /\ ~Handled(r) /\ ~Answered(r) /\ ~Returns(r)
    <2>1. ~Asking(r)
      BY <1>n DEF Asking
    <2> QED BY <1>0, <2>1 DEF OnePlace
  <1>1. ASSUME NEW until \in 1..Forever, Wait(n, until) PROVE RequestsInv'
    <2> DEFINE f == Frame("wait", until, NoReq)
    <2>1. stack[n] = << >> /\ stack' = [stack EXCEPT ![n] = Pushed(f, << >>)]
          /\ UNCHANGED inbox /\ UNCHANGED outbox /\ UNCHANGED req
      <3>1. stack[n] = << >>
        BY <1>1 DEF Wait, Busy
      <3>2. stack' = [stack EXCEPT ![n] = Pushed(f, stack[n])]
        BY <1>1 DEF Wait, Push, Pushed
      <3>3. UNCHANGED inbox /\ UNCHANGED outbox /\ UNCHANGED req
        BY <1>1 DEF Wait
      <3> HIDE DEF f
      <3> QED BY <3>1, <3>2, <3>3
    <2>2. f \in Frames /\ f.kind = "wait" /\ FrameIsRight(n, f)
      BY DEF Frame, Frames, Kinds, FrameIsRight
    <2> HIDE DEF f
    <2>3. /\ CallsAreRight(n, Pushed(f, << >>), req'[n])
          /\ \A r : ~Handles(Pushed(f, << >>), r)
      BY <2>2, ProgramCalls
    <2>4. /\ AllCalls'
          /\ \A r \in Asked :
               /\ Handled(r)' => IF r.to = n THEN Handles(Pushed(f, << >>), r) ELSE Handled(r)
               /\ r.from # n /\ Asking(r) => Asking(r)'
      BY <1>0, <2>1, <2>3, CallsMade
    <2>5. \A r \in Asked : r.from = n => ~Asks(stack[n], r)
      BY <2>1 DEF Asks
    <2>6. ASSUME NEW r \in Asked PROVE OnePlace(r)'
      <3>1. Handled(r)' => Handled(r)
        BY <2>3, <2>4
      <3>2. /\ Leaves(r)' => Leaves(r)
            /\ Arrives(r)' => Arrives(r)
            /\ Answered(r)' => Answered(r)
            /\ Returns(r)' => Returns(r)
        BY <2>1, NothingWritten, NothingSent
      <3>3. OnePlace(r)
        BY <1>0
      <3>4. CASE r.from = n
        BY <1>n, <2>5, <3>1, <3>2, <3>4 DEF OnePlace
      <3>5. CASE r.from # n
        BY <2>4, <3>1, <3>2, <3>3, <3>5 DEF OnePlace
      <3> QED BY <3>4, <3>5
    <2> QED BY <1>0, <1>p, <2>1, <2>4, <2>6, NothingWritten, NothingSent
  \* A step that neither reads, nor asks, nor answers.
  <1>k. ASSUME AllOut', AllIn', AllCalls',
               \A r \in Asked :
                 /\ Leaves(r)' => Leaves(r)
                 /\ Arrives(r)' => Arrives(r)
                 /\ Answered(r)' => Answered(r)
                 /\ Returns(r)' => Returns(r)
                 /\ Handled(r)' => Handled(r)
                 /\ Asking(r) => Asking(r)'
                 /\ AskedOnce(r) => AskedOnce(r)'
                 /\ ArrivesOnce(r) => ArrivesOnce(r)'
                 /\ AnsweredOnce(r) => AnsweredOnce(r)'
                 /\ ReturnsOnce(r) => ReturnsOnce(r)'
        PROVE  RequestsInv'
    <2>1. \A r \in Asked : OnePlace(r)'
      BY <1>0, <1>k DEF OnePlace
    <2> QED BY <1>0, <1>k, <1>p, <2>1
  <1>2. CASE WaitIdle(n)
    <2> DEFINE g == [Top(n) EXCEPT !.flag = TRUE]
               msg == Msg("idle", Top(n).until, NoReq, seq[n], date[n])
    <2>1. stack[n] # << >> /\ Top(n).kind = "wait"
      BY <1>2 DEF WaitIdle, In, Busy
    <2>2. g \in Frames /\ g.kind = "wait" /\ g.req = Top(n).req
      BY <1>t, <2>1 DEF Frames
    <2>3. stack' = [stack EXCEPT ![n] = [stack[n] EXCEPT ![1] = g]]
      BY <1>2, <1>t, <2>1 DEF WaitIdle, SetFlag
    <2>4. msg \in Messages /\ msg.type = "idle"
      <3>1. Top(n).until \in 0..Forever /\ seq[n] \in Nat /\ date[n] \in 0..MaxDate
        BY <1>t, <2>1 DEF Frames, MexTypes
      <3> QED BY <3>1 DEF Msg, Messages
    <2>5. outbox' = [outbox EXCEPT ![n] = Append(@, msg)] /\ UNCHANGED inbox /\ UNCHANGED req
      BY <1>2 DEF WaitIdle, Write
    <2> HIDE DEF g, msg
    <2>6. /\ CallsAreRight(n, [stack[n] EXCEPT ![1] = g], req'[n])
          /\ \A r : ~Handles([stack[n] EXCEPT ![1] = g], r)
                    /\ (Asks(stack[n], r) => Asks([stack[n] EXCEPT ![1] = g], r))
      BY <1>s, <1>t, <2>1, <2>2, CallsContinued
    <2>7. /\ AllCalls'
          /\ \A r \in Asked : (Handled(r)' => Handled(r)) /\ (Asking(r) => Asking(r)')
      BY <1>0, <2>3, <2>5, <2>6, CallsMade
    <2>8. /\ AllOut'
          /\ \A r \in Asked :
               /\ Leaves(r)' => Leaves(r)
               /\ Answered(r)' => Answered(r)
               /\ AskedOnce(r) => AskedOnce(r)'
               /\ AnsweredOnce(r) => AnsweredOnce(r)'
      <3>1. OutIsRight(n, msg)
        BY <2>4 DEF OutIsRight
      <3> QED BY <1>0, <2>4, <2>5, <3>1, Wrote
    <2> QED BY <1>0, <1>k, <2>5, <2>7, <2>8, NothingSent
  <1>3. CASE WaitEnd(n)
    <2>1. stack[n] # << >> /\ Top(n).kind = "wait"
      BY <1>3 DEF WaitEnd, In, Busy
    <2>2. stack' = [stack EXCEPT ![n] = Tail(stack[n])]
          /\ UNCHANGED inbox /\ UNCHANGED outbox /\ UNCHANGED req
      BY <1>3 DEF WaitEnd, Return
    <2>3. CallsAreRight(n, Tail(stack[n]), req'[n]) /\ \A r : ~Handles(Tail(stack[n]), r)
      BY <1>s, <2>1, CallsReturned
    <2>4. \A r : ~Asks(stack[n], r)
      BY <1>t, <2>1 DEF Asks
    <2>5. /\ AllCalls'
          /\ \A r \in Asked : (Handled(r)' => Handled(r)) /\ (Asking(r) => Asking(r)')
      BY <1>0, <2>2, <2>3, <2>4, CallsMade
    <2> QED BY <1>0, <1>k, <2>2, <2>5, NothingSent, NothingWritten
  <1>4. CASE send(n)
    <2> DEFINE msg == Msg("msg", 0, NoReq, seq[n], date[n])
    <2>1. msg \in Messages /\ msg.type = "msg"
      <3>1. seq[n] \in Nat /\ date[n] \in 0..MaxDate /\ 0 \in 0..Forever
        BY DEF MexTypes
      <3> QED BY <3>1 DEF Msg, Messages
    <2>2. outbox' = [outbox EXCEPT ![n] = Append(@, msg)]
          /\ UNCHANGED inbox /\ UNCHANGED <<stack, req>>
      BY <1>4 DEF send, Write
    <2> HIDE DEF msg
    <2>3. /\ AllOut'
          /\ \A r \in Asked :
               /\ Leaves(r)' => Leaves(r)
               /\ Answered(r)' => Answered(r)
               /\ AskedOnce(r) => AskedOnce(r)'
               /\ AnsweredOnce(r) => AnsweredOnce(r)'
      <3>1. OutIsRight(n, msg)
        BY <2>1 DEF OutIsRight
      <3> QED BY <1>0, <2>1, <2>2, <3>1, Wrote
    <2> QED BY <1>0, <1>k, <2>2, <2>3, NothingSent, NothingCalled
  <1>5. ASSUME NEW to \in Nodes, request(n, to) PROVE RequestsInv'
    <2> DEFINE asked == [from |-> n, n |-> requests[n] + 1, to |-> to]
    <2>1. stack[n] = << >>
      BY <1>5 DEF request, Busy
    <2>2. asked \in Asked /\ asked.from = n
      <3>1. requests[n] + 1 \in 1..MaxRequests
        <4>1. requests[n] \in 0..MaxRequests /\ requests[n] < MaxRequests
          BY <1>5 DEF request, MexTypes
        <4> QED BY <4>1
      <3>2. to # n
        BY <1>5 DEF request
      <3> QED BY <3>1, <3>2 DEF Asked
    <2>q. PICK q \in Asked : q = asked /\ q.from = n
      BY <2>2
    <2> DEFINE f == Frame("request", 0, q)
               msg == Msg("req", 0, q, seq[n], date[n])
    <2>3. outbox' = [outbox EXCEPT ![n] = Append(@, msg)]
          /\ UNCHANGED inbox /\ UNCHANGED req
      BY <1>5, <2>q DEF request, Write
    <2>4. stack' = [stack EXCEPT ![n] = Pushed(f, << >>)]
      <3>1. stack' = [stack EXCEPT ![n] = Pushed(f, stack[n])]
        BY <1>5, <2>q DEF request, Push, Pushed
      <3> HIDE DEF f
      <3> QED BY <3>1, <2>1
    <2>5. f \in Frames /\ f.kind = "request" /\ f.req = q /\ FrameIsRight(n, f)
      <3>1. q \in Requests /\ 0 \in 0..Forever
        BY AskedAreRequests
      <3> QED BY <2>q, <3>1 DEF Frame, Frames, Kinds, FrameIsRight
    <2>6. msg \in Messages /\ msg.type = "req" /\ msg.req = q
      <3>1. q \in Requests /\ seq[n] \in Nat /\ date[n] \in 0..MaxDate /\ 0 \in 0..Forever
        BY AskedAreRequests DEF MexTypes
      <3> QED BY <3>1 DEF Msg, Messages
    <2> HIDE DEF f, msg
    <2>7. /\ CallsAreRight(n, Pushed(f, << >>), req'[n])
          /\ \A r : ~Handles(Pushed(f, << >>), r)
          /\ Asks(Pushed(f, << >>), q)
      BY <2>5, ProgramCalls
    <2>8. /\ AllCalls'
          /\ \A r \in Asked : (Handled(r)' => Handled(r)) /\ (r.from # n /\ Asking(r) => Asking(r)')
          /\ Asking(q)'
      <3>1. /\ AllCalls'
            /\ \A r \in Asked :
                 /\ Handled(r)' => IF r.to = n THEN Handles(Pushed(f, << >>), r) ELSE Handled(r)
                 /\ r.from # n /\ Asking(r) => Asking(r)'
                 /\ r.from = n /\ Asks(Pushed(f, << >>), r) => Asking(r)'
        BY <1>0, <2>3, <2>4, <2>7, CallsMade
      <3> QED BY <3>1, <2>q, <2>7
    <2>9. \A r \in Asked : r.from = n => ~Asks(stack[n], r)
      BY <2>1 DEF Asks
    <2>10. ~Leaves(q)
      BY <1>n, <2>q, <2>9
    <2>11. /\ AllOut'
           /\ \A r \in Asked :
                /\ Leaves(r)' => Leaves(r) \/ q = r
                /\ Answered(r)' => Answered(r)
                /\ AskedOnce(r) => AskedOnce(r)'
                /\ AnsweredOnce(r) => AnsweredOnce(r)'
      <3>1. OutIsRight(n, msg)
        BY <2>q, <2>6 DEF OutIsRight
      <3> QED BY <1>0, <2>3, <2>6, <2>10, <3>1, Wrote
    <2>12. ASSUME NEW r \in Asked PROVE OnePlace(r)'
      <3>1. (Arrives(r)' => Arrives(r)) /\ (Returns(r)' => Returns(r))
        BY <2>3, NothingSent
      <3>2. OnePlace(r)
        BY <1>0
      <3>3. CASE r = q
        BY <1>n, <2>q, <2>8, <2>9, <2>11, <3>1, <3>3 DEF OnePlace
      <3>4. CASE r # q /\ r.from = n
        BY <1>n, <2>8, <2>9, <2>11, <3>1, <3>4 DEF OnePlace
      <3>5. CASE r # q /\ r.from # n
        BY <2>8, <2>11, <3>1, <3>2, <3>5 DEF OnePlace
      <3> QED BY <3>3, <3>4, <3>5
    <2> QED BY <1>0, <1>p, <2>3, <2>8, <2>11, <2>12, NothingSent
  <1>6. CASE response(n)
    <2> DEFINE g == [Top(n) EXCEPT !.flag = TRUE]
               q == Top(n).req
               msg == Msg("rsp", 0, req[n], seq[n], date[n])
    <2>1. stack[n] # << >> /\ Top(n).kind = "handler" /\ ~Top(n).flag /\ q.to = n
      BY <1>6 DEF response, In, Busy
    <2>2. q \in Asked
      <3>1. NoReq.to = "none"
        BY DEF NoReq
      <3> QED BY <1>t, <2>1, <3>1 DEF FrameIsRight
    <2>3. req[n] = q /\ Handled(q)
      <3>1. Handled(q)
        BY <1>t, <2>1 DEF Handled, Handles
      <3>2. q # NoReq
        BY <2>2, AskedAreRequests
      <3>3. req[n] = q
        BY <1>s, <1>t, <2>1, <3>2 DEF CallsAreRight
      <3> QED BY <3>1, <3>3
    <2>4. g \in Frames /\ g.kind = Top(n).kind /\ g.req = Top(n).req /\ g.flag
      BY <1>t, <2>1 DEF Frames
    <2>5. stack' = [stack EXCEPT ![n] = [stack[n] EXCEPT ![1] = g]]
      BY <1>6, <1>t, <2>1 DEF response, SetFlag
    <2>6. msg \in Messages /\ msg.type = "rsp" /\ msg.req = q
      <3>1. q \in Requests /\ seq[n] \in Nat /\ date[n] \in 0..MaxDate /\ 0 \in 0..Forever
        <4>1. q \in Requests
          BY <2>2, AskedAreRequests
        <4> HIDE DEF q
        <4> QED BY <4>1 DEF MexTypes
      <3> QED BY <2>3, <3>1 DEF Msg, Messages
    <2>7. /\ outbox' = [outbox EXCEPT ![n] = Append(@, msg)] /\ UNCHANGED inbox
          /\ \A k \in Nodes \ {n} : req'[k] = req[k]
      BY <1>6 DEF response, Write, MexTypes
    <2> HIDE DEF g, msg, q
    <2>8. /\ CallsAreRight(n, [stack[n] EXCEPT ![1] = g], req'[n])
          /\ \A r : ~Handles([stack[n] EXCEPT ![1] = g], r)
                    /\ (Asks(stack[n], r) => Asks([stack[n] EXCEPT ![1] = g], r))
      BY <1>s, <1>t, <2>1, <2>4, CallsContinued
    <2>9. /\ AllCalls'
          /\ \A r \in Asked : /\ Handled(r)' => Handled(r) /\ r.to # n
                              /\ Asking(r) => Asking(r)'
      BY <1>0, <2>5, <2>7, <2>8, CallsMade
    <2>10. ~Answered(q)
      BY <1>0, <2>2, <2>3 DEF OnePlace
    <2>11. /\ AllOut'
           /\ \A r \in Asked :
                /\ Leaves(r)' => Leaves(r)
                /\ Answered(r)' => Answered(r) \/ q = r
                /\ AskedOnce(r) => AskedOnce(r)'
                /\ AnsweredOnce(r) => AnsweredOnce(r)'
      <3>1. OutIsRight(n, msg)
        BY <2>1, <2>2, <2>6 DEF OutIsRight
      <3> QED BY <1>0, <2>6, <2>7, <2>10, <3>1, Wrote
    <2>12. ASSUME NEW r \in Asked PROVE OnePlace(r)'
      <3>1. (Arrives(r)' => Arrives(r)) /\ (Returns(r)' => Returns(r))
        BY <2>7, NothingSent
      <3>2. OnePlace(r)
        BY <1>0
      <3>3. CASE r = q
        BY <2>1, <2>3, <2>9, <2>11, <3>1, <3>2, <3>3 DEF OnePlace
      <3>4. CASE r # q
        BY <2>9, <2>11, <3>1, <3>2, <3>4 DEF OnePlace
      <3> QED BY <3>3, <3>4
    <2> QED BY <1>0, <1>p, <2>7, <2>9, <2>11, <2>12, NothingSent
  <1>7. CASE HandlerEnd(n)
    <2>1. stack[n] # << >> /\ Top(n).kind = "handler"
      BY <1>7 DEF HandlerEnd, In, Busy
    <2>2. /\ stack' = [stack EXCEPT ![n] = Tail(stack[n])]
          /\ UNCHANGED inbox /\ UNCHANGED outbox
      BY <1>7 DEF HandlerEnd, Return
    <2>3. \A k \in Nodes \ {n} : req'[k] = req[k]
      <3>1. req' = req \/ req' = [req EXCEPT ![n] = NoReq]
        BY <1>7 DEF HandlerEnd
      <3> QED BY <3>1 DEF MexTypes
    <2>4. /\ CallsAreRight(n, Tail(stack[n]), req'[n])
          /\ \A r : ~Handles(Tail(stack[n]), r) /\ (Asks(stack[n], r) => Asks(Tail(stack[n]), r))
      BY <1>s, <1>t, <2>1, CallsReturned
    <2>5. /\ AllCalls'
          /\ \A r \in Asked : (Handled(r)' => Handled(r)) /\ (Asking(r) => Asking(r)')
      BY <1>0, <2>2, <2>3, <2>4, CallsMade
    <2> QED BY <1>0, <1>k, <2>2, <2>5, NothingSent, NothingWritten
  <1>r. ASSUME NEW type, Recv(n, type)
        PROVE  /\ stack[n] # << >> /\ Top(n).kind # "handler"
               /\ Restarted(n) \in Frames /\ Restarted(n).kind = Top(n).kind
               /\ Restarted(n).req = Top(n).req
               /\ inbox[n] # << >> /\ Head(inbox[n]).type = type
               /\ Head(inbox[n]).req \in Requests
               /\ inbox' = [inbox EXCEPT ![n] = Tail(@)]
    <2>1. stack[n] # << >> /\ Top(n).kind # "handler"
      BY <1>r DEF Recv, In, Busy
    <2>2. Restarted(n) \in Frames /\ Restarted(n).kind = Top(n).kind /\ Restarted(n).req = Top(n).req
      BY <1>t, <2>1 DEF Restarted, Frames
    <2>3. inbox[n] # << >> /\ Head(inbox[n]).type = type /\ inbox' = [inbox EXCEPT ![n] = Tail(@)]
      BY <1>r DEF Recv
    <2>4. inbox[n] \in Seq(Messages)
      BY DEF MexTypes
    <2>5. Head(inbox[n]) \in Messages
      BY <2>3, <2>4, Tailed
    <2> QED BY <2>1, <2>2, <2>3, <2>5 DEF Messages
  <1>i. ASSUME inbox[n] # << >>, inbox' = [inbox EXCEPT ![n] = Tail(@)]
        PROVE  /\ AllIn' /\ InIsRight(n, Head(inbox[n]))
               /\ \A r \in Asked :
                    /\ Arrives(r)' => Arrives(r)
                    /\ Returns(r)' => Returns(r)
                    /\ ArrivesOnce(r) => ArrivesOnce(r)'
                    /\ ReturnsOnce(r) => ReturnsOnce(r)'
                    /\ r.to = n /\ Head(inbox[n]).type = "req" /\ Head(inbox[n]).req = r =>
                         Arrives(r) /\ (ArrivesOnce(r) => ~Arrives(r)')
                    /\ r.from = n /\ Head(inbox[n]).type = "rsp" /\ Head(inbox[n]).req = r =>
                         Returns(r) /\ (ReturnsOnce(r) => ~Returns(r)')
    BY <1>0, <1>i, ReadByNode
  \* A date, or a response the program does not wait for.
  <1>8. ASSUME NEW type, Recv(n, type), UNCHANGED outbox, UNCHANGED req,
               stack' = [stack EXCEPT ![n] = [stack[n] EXCEPT ![1] = Restarted(n)]]
        PROVE  RequestsInv'
    <2>1. /\ stack[n] # << >> /\ Top(n).kind # "handler" /\ Top(n) = stack[n][1]
          /\ Restarted(n) \in Frames /\ Restarted(n).kind = Top(n).kind
          /\ Restarted(n).req = Top(n).req
          /\ inbox[n] # << >> /\ inbox' = [inbox EXCEPT ![n] = Tail(@)]
      BY <1>8, <1>r, <1>t
    <2> DEFINE t == [stack[n] EXCEPT ![1] = Restarted(n)]
    <2>2. /\ CallsAreRight(n, t, req'[n])
          /\ \A r : ~Handles(t, r) /\ (Asks(stack[n], r) => Asks(t, r))
      BY <1>s, <2>1, CallsContinued
    <2>3. stack' = [stack EXCEPT ![n] = t]
      BY <1>8
    <2> HIDE DEF t
    <2>4. /\ AllCalls'
          /\ \A r \in Asked : (Handled(r)' => Handled(r)) /\ (Asking(r) => Asking(r)')
      BY <1>0, <1>8, <2>2, <2>3, CallsMade
    <2> QED BY <1>0, <1>8, <1>i, <1>k, <2>1, <2>4, NothingWritten
  <1>9. CASE handle_date(n)
    <2>1. /\ Recv(n, "date") /\ UNCHANGED outbox /\ UNCHANGED req
          /\ stack' = [stack EXCEPT ![n] = [stack[n] EXCEPT ![1] = Restarted(n)]]
      BY <1>9 DEF handle_date
    <2> QED BY <2>1, <1>8
  \* A handler is called.
  <1>h. ASSUME NEW type, Recv(n, type), NEW q \in Requests, UNCHANGED outbox,
               stack' = [stack EXCEPT ![n] = <<Frame("handler", 0, q), Restarted(n)>> \o Tail(@)],
               \A k \in Nodes \ {n} : req'[k] = req[k],
               q # NoReq => type = "req" /\ q = Head(inbox[n]).req /\ req'[n] = q
        PROVE  RequestsInv'
    <2> DEFINE h == Frame("handler", 0, q)
               t == Pushed2(h, Restarted(n), stack[n])
    <2>1. /\ stack[n] # << >> /\ Top(n).kind # "handler" /\ Top(n) = stack[n][1]
          /\ Restarted(n) \in Frames /\ Restarted(n).kind = Top(n).kind
          /\ Restarted(n).req = Top(n).req
          /\ inbox[n] # << >> /\ inbox' = [inbox EXCEPT ![n] = Tail(@)]
          /\ Head(inbox[n]).type = type
      BY <1>h, <1>r, <1>t
    <2>2. InIsRight(n, Head(inbox[n]))
      BY <1>i, <2>1
    <2>3. q # NoReq => q \in Asked /\ q.from # n
      BY <1>h, <2>1, <2>2 DEF InIsRight
    <2>4. h \in Frames /\ h.kind = "handler" /\ h.req = q /\ FrameIsRight(n, h)
      <3>1. 0 \in 0..Forever
        OBVIOUS
      <3> QED BY <2>3, <3>1 DEF Frame, Frames, Kinds, FrameIsRight
    <2>5. stack' = [stack EXCEPT ![n] = t]
      BY <1>h DEF Pushed2
    <2> HIDE DEF h
    <2>6. /\ CallsAreRight(n, t, req'[n])
          /\ \A r : (Handles(t, r) => r = h.req) /\ (Asks(stack[n], r) => Asks(t, r))
      <3>1. h.req # NoReq => req'[n] = h.req
        BY <1>h, <2>4
      <3>2. /\ stack[n][1].kind # "handler"
            /\ Restarted(n).kind = stack[n][1].kind /\ Restarted(n).req = stack[n][1].req
        BY <2>1
      <3> QED BY ONLY <1>s, <2>1, <2>4, <3>1, <3>2, n \in Nodes, HandlerCalled
    <2> HIDE DEF t
    <2>7. /\ AllCalls'
          /\ \A r \in Asked : /\ Handled(r)' => Handled(r) \/ (r = q /\ r.to = n)
                              /\ Asking(r) => Asking(r)'
      BY <1>0, <1>h, <2>4, <2>5, <2>6, CallsMade
    <2>8. ASSUME NEW r \in Asked PROVE OnePlace(r)'
      <3>1. (Leaves(r)' => Leaves(r)) /\ (Answered(r)' => Answered(r))
        BY <1>h, NothingWritten
      <3>2. /\ Arrives(r)' => Arrives(r)
            /\ Returns(r)' => Returns(r)
            /\ r.to = n /\ Head(inbox[n]).type = "req" /\ Head(inbox[n]).req = r =>
                 Arrives(r) /\ ~Arrives(r)'
        BY <1>0, <1>i, <2>1
      <3>3. OnePlace(r)
        BY <1>0
      <3>4. CASE r = q /\ r.to = n
        <4>1. q # NoReq
          BY <3>4, AskedAreRequests
        <4>2. Arrives(r) /\ ~Arrives(r)'
          BY <1>h, <2>1, <3>2, <3>4, <4>1
        <4> QED BY <2>7, <3>1, <3>2, <3>3, <4>2 DEF OnePlace
      <3>5. CASE ~(r = q /\ r.to = n)
        BY <2>7, <3>1, <3>2, <3>3, <3>5 DEF OnePlace
      <3> QED BY <3>4, <3>5
    <2> QED BY <1>0, <1>h, <1>i, <1>p, <2>1, <2>7, <2>8, NothingWritten
  <1>10. CASE handle_req(n)
    <2>1. Recv(n, "req") /\ UNCHANGED outbox
          /\ req' = [req EXCEPT ![n] = Head(inbox[n]).req]
          /\ stack' = [stack EXCEPT ![n] = <<Frame("handler", 0, req'[n]), Restarted(n)>> \o Tail(@)]
      BY <1>10 DEF handle_req
    <2>2. Head(inbox[n]).req \in Requests
      BY <1>r, <2>1
    <2>3. req'[n] = Head(inbox[n]).req /\ \A k \in Nodes \ {n} : req'[k] = req[k]
      BY <2>1 DEF MexTypes
    <2> QED BY <1>h, <2>1, <2>2, <2>3
  <1>11. CASE HandleMsg(n)
    <2>1. Recv(n, "msg") /\ UNCHANGED outbox /\ UNCHANGED req
          /\ stack' = [stack EXCEPT ![n] = <<Frame("handler", 0, NoReq), Restarted(n)>> \o Tail(@)]
      BY <1>11 DEF HandleMsg
    <2> QED BY <1>h, <2>1
  <1>12. CASE RecvRsp(n)
    <2>1. Recv(n, "rsp") /\ UNCHANGED outbox /\ UNCHANGED req
      BY <1>12 DEF RecvRsp
    <2>2. CASE ~In(n, "request")
      <3>1. stack' = [stack EXCEPT ![n] = [stack[n] EXCEPT ![1] = Restarted(n)]]
        BY <1>12, <2>2 DEF RecvRsp
      <3> QED BY <1>8, <2>1, <3>1
    <2>3. CASE In(n, "request")
      <3>1. /\ stack[n] # << >> /\ Top(n).kind = "request" /\ Top(n) = stack[n][1]
            /\ Len(stack[n]) = 1
            /\ inbox[n] # << >> /\ inbox' = [inbox EXCEPT ![n] = Tail(@)]
            /\ Head(inbox[n]).type = "rsp"
        BY <1>r, <1>t, <2>1, <2>3 DEF In
      <3>q. PICK q \in Asked : q = Head(inbox[n]).req /\ q.from = n
        <4>1. InIsRight(n, Head(inbox[n]))
          BY <1>i, <3>1
        <4> QED BY <3>1, <4>1 DEF InIsRight
      <3>2. Returns(q) /\ ~Returns(q)'
        BY <1>0, <1>i, <3>1, <3>q
      <3>3. stack' = [stack EXCEPT ![n] = Tail(stack[n])]
        BY <1>12, <2>3 DEF RecvRsp, Return
      <3>4. CallsAreRight(n, Tail(stack[n]), req'[n]) /\ \A r : ~Handles(Tail(stack[n]), r)
        BY <1>s, <3>1, CallsReturned
      <3>5. /\ AllCalls'
            /\ \A r \in Asked : (Handled(r)' => Handled(r)) /\ (r.from # n /\ Asking(r) => Asking(r)')
        BY <1>0, <2>1, <3>3, <3>4, CallsMade
      <3>6. Asks(stack[n], q)
        <4>1. Asking(q)
          BY <1>0, <3>2 DEF OnePlace
        <4> QED BY <3>q, <4>1 DEF Asking
      <3>7. \A r \in Asked : r # q => ~Asks(stack[n], r)
        BY <3>1, <3>6 DEF Asks
      <3>8. ASSUME NEW r \in Asked PROVE OnePlace(r)'
        <4>1. (Leaves(r)' => Leaves(r)) /\ (Answered(r)' => Answered(r))
          BY <2>1, NothingWritten
        <4>2. (Arrives(r)' => Arrives(r)) /\ (Returns(r)' => Returns(r))
          BY <1>i, <3>1
        <4>3. OnePlace(r)
          BY <1>0
        <4>4. CASE r = q
          BY <3>2, <3>5, <4>1, <4>2, <4>3, <4>4 DEF OnePlace
        <4>5. CASE r # q /\ r.from = n
          BY <1>n, <3>5, <3>7, <4>1, <4>2, <4>5 DEF OnePlace
        <4>6. CASE r # q /\ r.from # n
          BY <3>5, <4>1, <4>2, <4>3, <4>6 DEF OnePlace
        <4> QED BY <4>4, <4>5, <4>6
      <3> QED BY <1>0, <1>i, <1>p, <2>1, <3>1, <3>5, <3>8, NothingWritten
    <2> QED BY <2>2, <2>3
  <1> QED
    BY <1>1, <1>2, <1>3, <1>4, <1>5, <1>6, <1>7, <1>9, <1>10, <1>11, <1>12 DEF NodeStep

--------------------------------------------------------------------------------

\* A request and its response are in one place at a time, when handlers make no
\* request themselves.
THEOREM RequestsInvariant ==
  ASSUME ~NestedRequests
  PROVE  MexSpec => [](DatesInv /\ RequestsInv)
PROOF
  <1>1. DatesInv /\ RequestsInv /\ [MexNext]_mexVars => RequestsInv'
    <2> SUFFICES ASSUME DatesInv, RequestsInv, [MexNext]_mexVars PROVE RequestsInv'
      OBVIOUS
    <2>0. MexTypes
      BY DEF DatesInv
    <2>1. CASE HubStep
      BY <2>0, <2>1, HubKeepsRequests
    <2>2. CASE \E n \in Nodes : NodeStep(n)
      BY <2>0, <2>2, NodeKeepsRequests
    <2>3. CASE UNCHANGED mexVars
      <3>1. UNCHANGED <<stack, req>> /\ UNCHANGED outbox /\ UNCHANGED inbox
        BY <2>3 DEF mexVars, node
      <3>2. /\ AllOut /\ AllIn /\ AllCalls
            /\ \A r \in Asked : OnePlace(r) /\ AskedOnce(r) /\ ArrivesOnce(r)
                                /\ AnsweredOnce(r) /\ ReturnsOnce(r)
        BY Parts
      <3>3. /\ AllOut' /\ AllIn' /\ AllCalls'
            /\ \A r \in Asked : OnePlace(r)' /\ AskedOnce(r)' /\ ArrivesOnce(r)'
                                /\ AnsweredOnce(r)' /\ ReturnsOnce(r)'
        BY <3>1, <3>2, NothingCalled, NothingWritten, NothingSent DEF OnePlace
      <3>4. (RequestsInv <=> /\ AllOut /\ AllIn /\ AllCalls
                     /\ \A r \in Asked : OnePlace(r) /\ AskedOnce(r) /\ ArrivesOnce(r)
                                         /\ AnsweredOnce(r) /\ ReturnsOnce(r))'
        BY Parts, PTL
      <3> QED BY <3>3, <3>4
    <2> QED BY <2>1, <2>2, <2>3 DEF MexNext
  <1> QED
    BY <1>1, DatesInit, DatesStep, RequestsInit, PTL DEF MexSpec

\* Programs agree on dates, messages are handled at the date they were sent at, and
\* request returns the response to its request (mex_node.host.cc:66, 87, 151).
THEOREM ExchangeIsExact ==
  ASSUME ~NestedRequests
  PROVE  MexSpec => []MexIsExact
PROOF
  <1>1. DatesInv /\ RequestsInv => MexIsExact
    <2> SUFFICES ASSUME DatesInv, RequestsInv PROVE ResponseMatches
      BY DatesAreRight DEF MexIsExact
    <2> SUFFICES ASSUME NEW n \in Nodes, In(n, "request"), inbox[n] # << >>,
                        Head(inbox[n]).type = "rsp"
                 PROVE  Head(inbox[n]).req = Top(n).req
      BY DEF ResponseMatches
    <2> DEFINE r == Head(inbox[n]).req
    <2>1. inbox[n] \in Seq(Messages) /\ stack[n] \in Seq(Frames) /\ stack[n] # << >>
          /\ Top(n).kind = "request"
      BY DEF DatesInv, MexTypes, In, Busy
    <2>2. inbox[n][1] = Head(inbox[n]) /\ 1 \in 1..Len(inbox[n])
      BY <2>1, Tailed
    <2>3. r \in Asked /\ r.from = n
      BY <2>2 DEF RequestsInv, Addressed, InIsRight
    <2>4. Returns(r)
      BY <2>2, <2>3 DEF Returns, Carries
    <2>5. Asks(stack[n], r)
      BY <2>3, <2>4 DEF RequestsInv, OnePlace, Asking
    <2>6. CallsAreRight(n, stack[n], req[n]) /\ stack[n][1] = Top(n)
      BY <2>1, Tailed DEF RequestsInv, Addressed, Top
    <2>7. Len(stack[n]) = 1
      BY <2>1, <2>6, CallsReturned
    <2> QED BY <2>5, <2>6, <2>7 DEF Asks
  <1> QED BY <1>1, RequestsInvariant, PTL
================================================================================
