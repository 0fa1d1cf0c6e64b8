----------------------------- MODULE DbRpcProofs -----------------------------
(***************************************************************************)
(* Proofs about DbRpc, for any clients, connections, calls, retries and      *)
(* number of stops and deaths of the manager: one handler at a time, no      *)
(* permit lost, no answer read as another call's, no caller told an untruth. *)
(***************************************************************************)
EXTENDS DbRpc, FiniteSetTheorems, SequenceTheorems, TLAPS

Working == {"admitted", "locked", "done"}

(* What a server thread leaves on its connection at each of its steps. *)
ThreadsSound ==
  \A k \in Conns :
    /\ thread[k] \in Working <=> current[k] # None
    /\ IF thread[k] = "done" THEN answer[k] \in {"ok", "error", "refused"} ELSE answer[k] = None
    /\ thread[k] = "free" => ~ open[k]
    /\ thread[k] \in {"free", "dead"} => inbox[k] = <<>>
    /\ ~ open[k] => outbox[k] = <<>>

(* A connection carries one request at most: sent, worked on or answered. *)
CarriesOne ==
  \A k \in Conns :
    /\ inbox[k] = <<>> \/ \E r \in DOMAIN op : inbox[k] = <<r>>
    /\ current[k] \in DOMAIN op \cup {None}
    /\ outbox[k] = <<>> \/ \E m \in Reply : outbox[k] = <<m>> /\ m.to \in DOMAIN op
    /\ inbox[k] # <<>> => current[k] = None /\ outbox[k] = <<>>
    /\ current[k] # None => outbox[k] = <<>>

(* How far a client has come with its call, and what its connection carries. *)
ClientsSound ==
  \A c \in Clients :
    /\ \A n \in 1 .. calls[c] : <<c, n>> \in DOMAIN op
    /\ pc[c] # "idle" => calls[c] >= 1
    /\ pc[c] = "try" => attempt[c] <= Attempts(Call(c))
    /\ pc[c] = "waiting" => link[c] # None /\ attempt[c] < Attempts(Call(c))
    /\ link[c] # None =>
         /\ open[link[c]]
         /\ \A d \in Clients \ {c} : link[d] # link[c]
         /\ inbox[link[c]] # <<>> => pc[c] = "waiting" /\ inbox[link[c]] = <<Call(c)>>
         /\ current[link[c]] # None => pc[c] = "waiting" /\ current[link[c]] = Call(c)
         /\ outbox[link[c]] # <<>> => pc[c] = "waiting" /\ outbox[link[c]][1].to = Call(c)

DbKnown == \A i \in 1 .. Len(db) : db[i] \in DOMAIN op

Begun(r) == r[2] <= calls[r[1]]
Finished(r) == Begun(r) /\ (r[2] = calls[r[1]] => pc[r[1]] = "idle")

(* An answer is true from the moment the handler gives it until the caller has it. *)
Landed(r) == Reads(r) \/ Applied(r) # {}
ReplyTrue(reply) ==
  reply.id # None =>
    /\ reply.id = reply.to
    /\ reply.code \in {"ok", "error"}
    /\ reply.code = "ok" => Landed(reply.to)
AnswersTrue ==
  /\ \A k \in Conns :
       /\ thread[k] = "done" /\ answer[k] = "ok" => Landed(current[k])
       /\ outbox[k] # <<>> => ReplyTrue(outbox[k][1])
  /\ \A r \in DOMAIN op :
       /\ outcome[r] = "ok" => Landed(r)
       /\ Finished(r) => outcome[r] # "none"

(* How often a request may have been sent by now. *)
Sent(r) ==
  IF ~ Begun(r) THEN 0
  ELSE IF Finished(r) THEN Attempts(r)
  ELSE IF pc[r[1]] = "waiting" THEN attempt[r[1]] + 1
  ELSE attempt[r[1]]

Replied(k, r) == outbox[k] # <<>> /\ outbox[k][1].to = r
RepliedError(k, r) == Replied(k, r) /\ outbox[k][1].id = r /\ outbox[k][1].code = "error"

(* Each time it was sent, a request is on one connection at most ... *)
CopyOn(k, r) == inbox[k] = <<r>> \/ current[k] = r \/ Replied(k, r)
Copies(r) == {k \in Conns : CopyOn(k, r)}

(* ... where it is yet to be applied, or failed without a trace; the first
   transactions of an ingest may leave one. *)
UnappliedOn(k, r) ==
  \/ inbox[k] = <<r>>
  \/ thread[k] \in {"admitted", "locked"} /\ current[k] = r
  \/ ~ Ingests(r) /\ thread[k] = "done" /\ answer[k] = "error" /\ current[k] = r
  \/ ~ Ingests(r) /\ RepliedError(k, r)
Unapplied(r) == {k \in Conns : UnappliedOn(k, r)}

One(test) == IF test THEN 1 ELSE 0

(* It is on a connection, was answered, or is lost. *)
CopiesBounded ==
  \A r \in DOMAIN op :
    Cardinality(Copies(r)) + One(outcome[r] \in {"ok", "error"}) <= Sent(r)

(* It is applied, may be, was reported as an error, or is lost. *)
AppliesBounded ==
  \A r \in DOMAIN op :
    Cardinality(Applied(r)) + Cardinality(Unapplied(r))
      + One(~ Ingests(r) /\ outcome[r] = "error") <= Sent(r)

Inv ==
  /\ TypeOK
  /\ LockAndPermits
  /\ ThreadsSound
  /\ CarriesOne
  /\ ClientsSound
  /\ DbKnown
  /\ AnswersTrue
  /\ CopiesBounded
  /\ AppliesBounded
  /\ AckedInOrder

-----------------------------------------------------------------------------
LEMMA OneElement ==
  ASSUME NEW x
  PROVE  /\ Len(<<x>>) = 1 /\ <<x>>[1] = x /\ <<x>> # << >>
         /\ Head(<<x>>) = x /\ Tail(<<x>>) = << >> /\ Append(<< >>, x) = <<x>>
  OBVIOUS

LEMMA NoRequest == None \notin Requests
  BY RpcAssumption DEF Requests

LEMMA AttemptsType == TypeOK => \A r \in DOMAIN op : Attempts(r) \in Nat \ {0}
  BY RpcAssumption DEF TypeOK, Calls, Attempts

LEMMA CallType ==
  ASSUME TypeOK, ClientsSound, NEW c \in Clients, pc[c] # "idle"
  PROVE  /\ calls[c] \in 1 .. MaxCalls /\ Call(c) \in DOMAIN op /\ Call(c) \in Requests
         /\ Call(c) # None
  BY RpcAssumption DEF TypeOK, ClientsSound, Call, Requests

LEMMA ReplyType ==
  ASSUME TypeOK, CarriesOne, AnswersTrue, ClientsSound,
         NEW c \in Clients, pc[c] = "waiting", outbox[link[c]] # << >>
  PROVE  LET reply == outbox[link[c]][1]
         IN  /\ link[c] \in Conns /\ outbox[link[c]] = <<reply>> /\ Head(outbox[link[c]]) = reply
             /\ Tail(outbox[link[c]]) = << >>
             /\ reply.to = Call(c)
             /\ reply.id = Call(c) => reply.code \in {"ok", "error"}
<1>1. link[c] \in Conns
  BY DEF TypeOK, ClientsSound
<1>2. PICK m \in Reply : outbox[link[c]] = <<m>>
  BY <1>1 DEF CarriesOne
<1>3. outbox[link[c]][1] = m /\ Head(outbox[link[c]]) = m /\ Tail(outbox[link[c]]) = << >>
  BY <1>2, OneElement
<1>4. m.to = Call(c)
  BY <1>1, <1>3 DEF ClientsSound
<1>5. m.id = Call(c) => m.code \in {"ok", "error"}
  BY <1>1, <1>2, <1>3, CallType, OneElement DEF AnswersTrue, ReplyTrue
<1> QED BY <1>1, <1>2, <1>3, <1>4, <1>5

(* Counting connections. *)
LEMMA Counts ==
  ASSUME NEW S, S \subseteq Conns
  PROVE  /\ IsFiniteSet(S) /\ Cardinality(S) \in Nat /\ (Cardinality(S) = 0 <=> S = {})
         /\ \A T : T \subseteq S => Cardinality(T) <= Cardinality(S)
         /\ \A k \in Conns : k \notin S => Cardinality(S \cup {k}) = Cardinality(S) + 1
         /\ \A k \in S : Cardinality(S \ {k}) = Cardinality(S) - 1
<1>1. IsFiniteSet(S)
  BY RpcAssumption, FS_Subset
<1> QED BY <1>1, FS_Subset, FS_CardinalityType, FS_EmptySet, FS_AddElement, FS_RemoveElement

Busy == {k \in Conns : thread[k] \in Working}

LEMMA BusyCount ==
  LockAndPermits =>
    /\ permits + Cardinality(Busy) = MaxInflight
    /\ Busy \subseteq Conns /\ Cardinality(Busy) \in Nat /\ (Cardinality(Busy) = 0 <=> Busy = {})
<1>1. Busy \subseteq Conns
  BY DEF Busy
<1> QED BY <1>1, Counts DEF LockAndPermits, Busy, Working

LEMMA InboxType ==
  ASSUME TypeOK, CarriesOne, NEW k \in Conns, inbox[k] # << >>
  PROVE  LET r == Head(inbox[k])
         IN  /\ r \in DOMAIN op /\ r \in Requests /\ inbox[k] = <<r>> /\ Tail(inbox[k]) = << >>
             /\ current[k] = None /\ outbox[k] = << >>
<1>1. PICK r \in DOMAIN op : inbox[k] = <<r>>
  BY DEF CarriesOne
<1>2. r \in Requests
  BY RpcAssumption DEF TypeOK
<1>3. Head(inbox[k]) = r /\ Tail(inbox[k]) = << >>
  BY <1>1, OneElement
<1> QED BY <1>1, <1>2, <1>3 DEF CarriesOne

LEMMA WorkType ==
  ASSUME TypeOK, ThreadsSound, CarriesOne, NEW k \in Conns, thread[k] \in Working
  PROVE  /\ current[k] \in Requests /\ current[k] \in DOMAIN op
         /\ current[k] # None
         /\ thread[k] = "done" => answer[k] \in {"ok", "error", "refused"}
  BY DEF TypeOK, ThreadsSound, CarriesOne

LEMMA TypeStep == Inv /\ Next => TypeOK'
<1> SUFFICES ASSUME Inv, Next PROVE TypeOK'
  OBVIOUS
<1>1. TypeOK /\ LockAndPermits /\ ThreadsSound /\ CarriesOne /\ ClientsSound /\ AnswersTrue
  BY DEF Inv
<1>2. op' = op
  BY DEF Next
<1> USE RpcAssumption DEF TypeOK, clientVars, connVars, serverVars, ThreadStates
<1>3. ASSUME NEW c \in Clients, Begin(c)
      PROVE  TypeOK'
  <2>1. calls' \in [Clients -> 0 .. MaxCalls]
    BY <1>1, <1>3 DEF Begin, Requests
  <2> QED BY <1>1, <1>2, <1>3, <2>1 DEF Begin
<1>4. ASSUME NEW c \in Clients, Connect(c)
      PROVE  TypeOK'
  <2>1. PICK k \in Unused : /\ link' = [link EXCEPT ![c] = k]
                            /\ open' = [open EXCEPT ![k] = TRUE]
                            /\ thread' = [thread EXCEPT ![k] = "unaccepted"]
                            /\ inbox' = [inbox EXCEPT ![k] = <<>>]
                            /\ outbox' = [outbox EXCEPT ![k] = <<>>]
    BY <1>4 DEF Connect
  <2> QED BY <1>1, <1>2, <1>4, <2>1 DEF Connect, Unused
<1>5. ASSUME NEW c \in Clients, ConnectRefused(c)
      PROVE  TypeOK'
  BY <1>1, <1>2, <1>5 DEF ConnectRefused
<1>6. ASSUME NEW c \in Clients, Send(c)
      PROVE  TypeOK'
  BY <1>1, <1>2, <1>6, CallType DEF Send
<1>7. ASSUME NEW c \in Clients, PeerGone(c)
      PROVE  TypeOK'
  BY <1>1, <1>2, <1>7 DEF PeerGone, CloseAndRetry
<1>8. ASSUME NEW c \in Clients, Timeout(c)
      PROVE  TypeOK'
  BY <1>1, <1>2, <1>8 DEF Timeout, CloseAndRetry, ClientsSound
<1>9. ASSUME NEW c \in Clients, Receive(c)
      PROVE  TypeOK'
  <2>1. outbox' \in [Conns -> Seq(Reply)]
    BY <1>1, <1>9, ReplyType DEF Receive
  <2>2. PICK result : /\ result \in {"ok", "error", "failed"}
                      /\ outcome' = [outcome EXCEPT ![Call(c)] = result]
    BY <1>1, <1>9, ReplyType DEF Receive, Return
  <2>3. /\ pc' = [pc EXCEPT ![c] = "idle"]
        /\ UNCHANGED <<link, calls, attempt, open, thread, inbox, current, answer, serverVars>>
    BY <1>9 DEF Receive, Return
  <2> QED BY <1>1, <1>2, <2>1, <2>2, <2>3
<1>10. ASSUME NEW c \in Clients, ReceiveOversized(c)
       PROVE  TypeOK'
  <2>1. outbox' \in [Conns -> Seq(Reply)]
    BY <1>1, <1>10, ReplyType DEF ReceiveOversized
  <2> QED BY <1>1, <1>2, <1>10, <2>1 DEF ReceiveOversized, Return
<1>11. ASSUME NEW c \in Clients, GiveUp(c)
       PROVE  TypeOK'
  BY <1>1, <1>2, <1>11, CallType DEF GiveUp, Return
<1>12. ASSUME NEW k \in Conns, Accept(k)
       PROVE  TypeOK'
  BY <1>1, <1>2, <1>12 DEF Accept
<1>13. ASSUME NEW k \in Conns, Admit(k)
       PROVE  TypeOK'
  BY <1>1, <1>2, <1>13 DEF Admit
<1>14. ASSUME NEW k \in Conns, TurnAway(k)
       PROVE  TypeOK'
  <2>1. [to |-> Head(inbox[k]), id |-> None, code |-> "BUSY"] \in Reply
    BY <1>1, <1>14 DEF TurnAway, Reply
  <2>2. outbox' \in [Conns -> Seq(Reply)]
    BY <1>1, <1>14, <2>1 DEF TurnAway, PutReply
  <2>3. thread' \in [Conns -> ThreadStates] /\ inbox' \in [Conns -> Seq(Requests)]
    BY <1>1, <1>14 DEF TurnAway, LoopHead, Ended
  <2> QED BY <1>1, <1>2, <1>14, <2>2, <2>3 DEF TurnAway
<1>15. ASSUME NEW k \in Conns, Reject(k)
       PROVE  TypeOK'
  BY <1>1, <1>2, <1>15 DEF Reject
<1>16. ASSUME NEW k \in Conns, TakeLock(k)
       PROVE  TypeOK'
  BY <1>1, <1>2, <1>16 DEF TakeLock
<1>17. ASSUME NEW k \in Conns, Handle(k)
       PROVE  TypeOK'
  <2>1. current[k] \in Requests
    BY <1>1, <1>17, WorkType DEF Handle, Working
  <2>2. db' \in {db, Append(db, current[k])}
    BY <1>17 DEF Handle, Executed
  <2>3. Append(db, current[k]) \in Seq(Requests)
    BY <1>1, <2>1, AppendProperties
  <2>4. db' \in Seq(Requests)
    BY <1>1, <2>2, <2>3
  <2> QED BY <1>1, <1>2, <1>17, <2>4 DEF Handle
<1>18. ASSUME NEW k \in Conns, Finish(k)
       PROVE  TypeOK'
  <2>1. ReplyOf(k) \in Reply
    BY <1>1, <1>18, WorkType DEF Finish, Working, Reply, ReplyOf
  <2>2. outbox' \in [Conns -> Seq(Reply)]
    BY <1>1, <1>18, <2>1 DEF Finish, PutReply
  <2>3. permits' \in 0 .. MaxInflight
    <3>1. k \in Busy
      BY <1>18 DEF Finish, Busy, Working
    <3>2. permits + Cardinality(Busy) = MaxInflight /\ Cardinality(Busy) \in Nat /\ Cardinality(Busy) # 0
      BY <1>1, <3>1, BusyCount
    <3> QED BY <1>1, <1>18, <3>2 DEF Finish
  <2> QED BY <1>1, <1>2, <1>18, <2>2, <2>3 DEF Finish, LoopHead, Ended
<1>19. ASSUME NEW k \in Conns, Hangup(k)
       PROVE  TypeOK'
  BY <1>1, <1>2, <1>19 DEF Hangup
<1>20. CASE Stop
  BY <1>1, <1>2, <1>20 DEF Stop, Ended
<1>21. CASE Exit
  BY <1>1, <1>2, <1>21 DEF Exit, Ended
<1>22. CASE Restart
  BY <1>1, <1>2, <1>22 DEF Restart
<1> QED BY <1>3, <1>4, <1>5, <1>6, <1>7, <1>8, <1>9, <1>10, <1>11, <1>12, <1>13, <1>14,
           <1>15, <1>16, <1>17, <1>18, <1>19, <1>20, <1>21, <1>22 DEF Next, ClientStep, ThreadStep

(* One handler at a time, and every permit accounted for. *)
LEMMA PermitStep == Inv /\ Next => LockAndPermits'
<1> SUFFICES ASSUME Inv, Next PROVE LockAndPermits'
  OBVIOUS
<1>1. TypeOK /\ LockAndPermits /\ ThreadsSound
  BY DEF Inv
<1>2. permits + Cardinality(Busy) = MaxInflight /\ Busy \subseteq Conns
  BY <1>1, BusyCount
<1>3. Cardinality(Busy) \in Nat /\ permits \in Nat /\ MaxInflight \in Nat
  BY <1>1, <1>2, Counts, RpcAssumption DEF TypeOK
<1>4. ASSUME permits' + Cardinality(Busy') = MaxInflight,
             \A k \in Conns : thread'[k] = "locked" <=> lock' = k
      PROVE  LockAndPermits'
  BY <1>4 DEF LockAndPermits, Busy, Working
<1>5. ASSUME UNCHANGED <<thread, permits, lock>>
      PROVE  LockAndPermits'
  BY <1>1, <1>5 DEF LockAndPermits
(* The steps that neither begin nor end any work. *)
<1>6. ASSUME UNCHANGED <<permits, lock>>, thread' \in [Conns -> ThreadStates],
             \A k \in Conns : thread'[k] # thread[k] =>
                                thread[k] \notin Working /\ thread'[k] \notin Working
      PROVE  LockAndPermits'
  <2>1. Busy' = Busy
    BY <1>6 DEF Busy
  <2>2. \A k \in Conns : thread'[k] = "locked" <=> lock' = k
    BY <1>1, <1>6 DEF LockAndPermits, Working
  <2> QED BY <1>2, <1>4, <1>6, <2>1, <2>2
<1> USE DEF clientVars, connVars, serverVars
<1>7. ASSUME NEW c \in Clients, Begin(c) \/ ConnectRefused(c) \/ Send(c) \/ Receive(c)
                                \/ ReceiveOversized(c) \/ GiveUp(c)
      PROVE  LockAndPermits'
  BY <1>5, <1>7 DEF Begin, ConnectRefused, Send, Receive, ReceiveOversized, GiveUp
<1>8. thread' \in [Conns -> ThreadStates]
  BY TypeStep DEF TypeOK
<1>9. ASSUME NEW c \in Clients, Connect(c)
      PROVE  LockAndPermits'
  <2>1. PICK k \in Unused : thread' = [thread EXCEPT ![k] = "unaccepted"]
    BY <1>9 DEF Connect
  <2> QED BY <1>1, <1>6, <1>8, <1>9, <2>1 DEF Connect, Unused, Working, TypeOK
<1>10. ASSUME NEW c \in Clients, CloseAndRetry(c)
       PROVE  LockAndPermits'
  BY <1>1, <1>6, <1>8, <1>10 DEF CloseAndRetry, Working, TypeOK
<1>11. ASSUME NEW k \in Conns, Accept(k) \/ TurnAway(k) \/ Hangup(k)
       PROVE  LockAndPermits'
  BY <1>1, <1>6, <1>8, <1>11 DEF Accept, TurnAway, Hangup, LoopHead, Ended, Working, TypeOK
<1>12. ASSUME NEW k \in Conns, Admit(k)
       PROVE  LockAndPermits'
  <2>1. k \notin Busy /\ Busy' = Busy \cup {k}
    BY <1>1, <1>12 DEF Admit, Busy, Working, TypeOK
  <2>2. Cardinality(Busy') = Cardinality(Busy) + 1
    BY <1>2, <2>1, Counts
  <2>3. \A j \in Conns : thread'[j] = "locked" <=> lock' = j
    BY <1>1, <1>12 DEF Admit, TypeOK, LockAndPermits
  <2> QED BY <1>2, <1>3, <1>4, <1>12, <2>2, <2>3 DEF Admit
<1>13. ASSUME NEW k \in Conns, Reject(k) \/ TakeLock(k) \/ Handle(k)
       PROVE  LockAndPermits'
  <2>1. Busy' = Busy
    BY <1>1, <1>13 DEF Reject, TakeLock, Handle, Busy, Working, TypeOK
  <2>2. \A j \in Conns : thread'[j] = "locked" <=> lock' = j
    BY <1>1, <1>13, RpcAssumption DEF Reject, TakeLock, Handle, TypeOK, LockAndPermits
  <2>3. UNCHANGED permits
    BY <1>13 DEF Reject, TakeLock, Handle
  <2> QED BY <1>2, <1>4, <2>1, <2>2, <2>3
<1>14. ASSUME NEW k \in Conns, Finish(k)
       PROVE  LockAndPermits'
  <2>1. k \in Busy /\ Busy' = Busy \ {k}
    BY <1>1, <1>14 DEF Finish, LoopHead, Ended, Busy, Working, TypeOK
  <2>2. Cardinality(Busy') = Cardinality(Busy) - 1
    BY <1>2, <2>1, Counts
  <2>3. \A j \in Conns : thread'[j] = "locked" <=> lock' = j
    BY <1>1, <1>14 DEF Finish, LoopHead, Ended, TypeOK, LockAndPermits
  <2> QED BY <1>2, <1>3, <1>4, <1>14, <2>2, <2>3 DEF Finish
<1>15. CASE Stop
  BY <1>1, <1>6, <1>8, <1>15 DEF Stop, Ended, Working, TypeOK
<1>16. CASE Exit
  <2>1. Busy' = {} /\ lock' = None /\ permits' = MaxInflight
    BY <1>16 DEF Exit, Ended, Busy, Working
  <2>2. \A j \in Conns : thread'[j] # "locked"
    BY <1>16 DEF Exit, Ended
  <2> QED BY <1>3, <1>4, <2>1, <2>2, FS_EmptySet, RpcAssumption
<1>17. CASE Restart
  BY <1>5, <1>17 DEF Restart
<1> QED BY <1>7, <1>9, <1>10, <1>11, <1>12, <1>13, <1>14, <1>15, <1>16, <1>17
        DEF Next, ClientStep, ThreadStep, PeerGone, Timeout

LEMMA ThreadsStep == Inv /\ Next => ThreadsSound'
<1> SUFFICES ASSUME Inv, Next PROVE ThreadsSound'
  OBVIOUS
<1>1. TypeOK /\ ThreadsSound /\ CarriesOne /\ ClientsSound
  BY DEF Inv
<1> USE RpcAssumption DEF clientVars, connVars, serverVars, ThreadsSound, Working, TypeOK
<1>2. ASSUME UNCHANGED <<thread, open, inbox, outbox, current, answer>>
      PROVE  ThreadsSound'
  BY <1>1, <1>2
<1>3. ASSUME NEW c \in Clients, Begin(c) \/ ConnectRefused(c) \/ GiveUp(c)
      PROVE  ThreadsSound'
  BY <1>2, <1>3 DEF Begin, ConnectRefused, GiveUp
<1>4. ASSUME NEW c \in Clients, Connect(c)
      PROVE  ThreadsSound'
  <2>1. PICK k \in Unused : /\ open' = [open EXCEPT ![k] = TRUE]
                            /\ thread' = [thread EXCEPT ![k] = "unaccepted"]
                            /\ inbox' = [inbox EXCEPT ![k] = <<>>]
                            /\ outbox' = [outbox EXCEPT ![k] = <<>>]
    BY <1>4 DEF Connect
  <2> QED BY <1>1, <1>4, <2>1 DEF Connect, Unused
<1>5. ASSUME NEW c \in Clients, Send(c)
      PROVE  ThreadsSound'
  <2>1. link[c] \in Conns /\ open[link[c]] /\ thread[link[c]] # "dead"
    BY <1>1, <1>5 DEF Send, ClientsSound
  <2> QED BY <1>1, <1>5, <2>1 DEF Send
<1>6. ASSUME NEW c \in Clients, CloseAndRetry(c)
      PROVE  ThreadsSound'
  BY <1>1, <1>6 DEF CloseAndRetry
<1>7. ASSUME NEW c \in Clients, Receive(c) \/ ReceiveOversized(c)
      PROVE  ThreadsSound'
  <2>1. link[c] \in Conns /\ outbox' = [outbox EXCEPT ![link[c]] = << >>]
    BY <1>1, <1>7, ReplyType DEF Receive, ReceiveOversized, Inv
  <2> QED BY <1>1, <1>7, <2>1 DEF Receive, ReceiveOversized
<1>8. ASSUME NEW k \in Conns, Accept(k)
      PROVE  ThreadsSound'
  BY <1>1, <1>8 DEF Accept
<1>9. ASSUME NEW k \in Conns, Admit(k)
      PROVE  ThreadsSound'
  <2>1. current'[k] # None
    BY <1>1, <1>9, NoRequest DEF Admit
  <2> QED BY <1>1, <1>9, <2>1 DEF Admit
<1>10. ASSUME NEW k \in Conns, TurnAway(k)
       PROVE  ThreadsSound'
  <2>1. inbox'[k] = << >>
    BY <1>1, <1>10, InboxType DEF TurnAway
  <2>2. \A j \in Conns \ {k} : outbox'[j] = outbox[j]
    BY <1>1, <1>10 DEF TurnAway, PutReply
  <2>3. ~ open[k] => outbox'[k] = outbox[k]
    BY <1>1, <1>10 DEF TurnAway, PutReply
  <2> QED BY <1>1, <1>10, <2>1, <2>2, <2>3 DEF TurnAway, LoopHead, Ended
<1>11. ASSUME NEW k \in Conns, Reject(k)
       PROVE  ThreadsSound'
  BY <1>1, <1>11 DEF Reject
<1>12. ASSUME NEW k \in Conns, TakeLock(k)
       PROVE  ThreadsSound'
  BY <1>1, <1>12 DEF TakeLock
<1>13. ASSUME NEW k \in Conns, Handle(k)
       PROVE  ThreadsSound'
  BY <1>1, <1>13 DEF Handle
<1>14. ASSUME NEW k \in Conns, Finish(k)
       PROVE  ThreadsSound'
  BY <1>1, <1>14 DEF Finish, PutReply, LoopHead, Ended, CarriesOne
<1>15. ASSUME NEW k \in Conns, Hangup(k)
       PROVE  ThreadsSound'
  BY <1>1, <1>15 DEF Hangup
<1>16. CASE Stop
  BY <1>1, <1>16 DEF Stop, Ended
<1>17. CASE Exit
  BY <1>1, <1>17 DEF Exit, Ended
<1>18. CASE Restart
  BY <1>2, <1>18 DEF Restart
<1> QED BY <1>3, <1>4, <1>5, <1>6, <1>7, <1>8, <1>9, <1>10, <1>11, <1>12, <1>13, <1>14, <1>15,
           <1>16, <1>17, <1>18 DEF Next, ClientStep, ThreadStep, PeerGone, Timeout

(* A connection that changes nothing keeps what it carries. *)
LEMMA CarriesStep == Inv /\ Next => CarriesOne'
<1> SUFFICES ASSUME Inv, Next PROVE CarriesOne'
  OBVIOUS
<1>1. TypeOK /\ ThreadsSound /\ CarriesOne /\ ClientsSound /\ AnswersTrue
  BY DEF Inv
<1>2. op' = op
  BY DEF Next
<1> DEFINE P(k) == /\ inbox[k] = <<>> \/ \E r \in DOMAIN op : inbox[k] = <<r>>
                   /\ current[k] \in DOMAIN op \cup {None}
                   /\ outbox[k] = <<>> \/ \E m \in Reply : outbox[k] = <<m>> /\ m.to \in DOMAIN op
                   /\ inbox[k] # <<>> => current[k] = None /\ outbox[k] = <<>>
                   /\ current[k] # None => outbox[k] = <<>>
<1>3. \A k \in Conns : P(k)
  BY <1>1 DEF CarriesOne
<1>4. ASSUME \A k \in Conns : P(k)' PROVE CarriesOne'
  BY <1>4 DEF CarriesOne
<1>5. ASSUME NEW k \in Conns, inbox'[k] = inbox[k] \/ inbox'[k] = << >>,
             current'[k] = current[k] \/ current'[k] = None,
             outbox'[k] = outbox[k] \/ outbox'[k] = << >>
      PROVE  P(k)'
  BY <1>2, <1>3, <1>5
<1> HIDE DEF P
<1> USE DEF clientVars, connVars, serverVars
<1>6. ASSUME UNCHANGED <<inbox, current, outbox>>
      PROVE  CarriesOne'
  BY <1>4, <1>5, <1>6
<1>7. ASSUME NEW c \in Clients, Begin(c) \/ ConnectRefused(c) \/ GiveUp(c)
      PROVE  CarriesOne'
  BY <1>6, <1>7 DEF Begin, ConnectRefused, GiveUp
<1>8. ASSUME NEW c \in Clients, Connect(c)
      PROVE  CarriesOne'
  <2>1. PICK k \in Unused : /\ inbox' = [inbox EXCEPT ![k] = <<>>]
                            /\ outbox' = [outbox EXCEPT ![k] = <<>>]
    BY <1>8 DEF Connect
  <2> QED BY <1>1, <1>4, <1>5, <1>8, <2>1 DEF Connect, TypeOK
<1>9. ASSUME NEW c \in Clients, Send(c)
      PROVE  CarriesOne'
  <2>0. LET k == link[c]
        IN  /\ k \in Conns /\ inbox[k] = << >> /\ current[k] = None /\ outbox[k] = << >>
            /\ inbox' = [inbox EXCEPT ![k] = Append(@, Call(c))]
    BY <1>1, <1>9 DEF Send, ClientsSound, TypeOK
  <2>1. PICK l \in Conns : /\ inbox[l] = << >> /\ current[l] = None /\ outbox[l] = << >>
                           /\ inbox' = [inbox EXCEPT ![l] = Append(@, Call(c))]
    BY <2>0
  <2>2. Call(c) \in DOMAIN op
    BY <1>1, <1>9, CallType DEF Send
  <2>3. inbox'[l] = <<Call(c)>>
    BY <1>1, <2>1, OneElement DEF TypeOK
  <2>4. P(l)'
    BY <1>2, <1>9, <2>1, <2>2, <2>3 DEF P, Send
  <2>5. ASSUME NEW k \in Conns, k # l PROVE P(k)'
    BY <1>1, <1>5, <1>9, <2>1, <2>5 DEF Send, TypeOK
  <2> QED BY <1>4, <2>4, <2>5
<1>10. ASSUME NEW c \in Clients, CloseAndRetry(c)
       PROVE  CarriesOne'
  BY <1>1, <1>4, <1>5, <1>10 DEF CloseAndRetry, TypeOK
<1>11. ASSUME NEW c \in Clients, Receive(c) \/ ReceiveOversized(c)
       PROVE  CarriesOne'
  <2>1. link[c] \in Conns /\ outbox' = [outbox EXCEPT ![link[c]] = << >>]
    BY <1>1, <1>11, ReplyType DEF Receive, ReceiveOversized
  <2>2. UNCHANGED <<inbox, current>>
    BY <1>11 DEF Receive, ReceiveOversized
  <2> QED BY <1>1, <1>4, <1>5, <2>1, <2>2 DEF TypeOK
<1>12. ASSUME NEW k \in Conns, Accept(k) \/ Reject(k) \/ TakeLock(k) \/ Handle(k) \/ Hangup(k)
       PROVE  CarriesOne'
  BY <1>6, <1>12 DEF Accept, Reject, TakeLock, Handle, Hangup
<1>13. ASSUME NEW k \in Conns, Admit(k)
       PROVE  CarriesOne'
  <2>1. /\ inbox' = [inbox EXCEPT ![k] = << >>] /\ outbox'[k] = << >>
        /\ current' = [current EXCEPT ![k] = Head(inbox[k])]
        /\ Head(inbox[k]) \in DOMAIN op /\ UNCHANGED outbox
    BY <1>1, <1>13, InboxType DEF Admit
  <2>2. P(k)'
    BY <1>1, <1>2, <2>1 DEF P, TypeOK
  <2>3. ASSUME NEW j \in Conns, j # k PROVE P(j)'
    BY <1>1, <1>5, <2>1, <2>3 DEF TypeOK
  <2> QED BY <1>4, <2>2, <2>3
<1>14. ASSUME NEW k \in Conns, NEW m \in Reply, m.to \in DOMAIN op, PutReply(k, m),
              outbox[k] = << >>, inbox'[k] = << >>, current'[k] = None,
              \A j \in Conns \ {k} : inbox'[j] = inbox[j] /\ current'[j] = current[j]
       PROVE  CarriesOne'
  <2>1. outbox'[k] = << >> \/ outbox'[k] = <<m>>
    BY <1>1, <1>14, OneElement DEF PutReply, TypeOK
  <2>2. P(k)'
    BY <1>2, <1>14, <2>1 DEF P
  <2>3. ASSUME NEW j \in Conns, j # k PROVE P(j)'
    BY <1>1, <1>5, <1>14, <2>3 DEF PutReply, TypeOK
  <2> QED BY <1>4, <2>2, <2>3
<1>15. ASSUME NEW k \in Conns, TurnAway(k)
       PROVE  CarriesOne'
  <2> DEFINE m == [to |-> Head(inbox[k]), id |-> None, code |-> "BUSY"]
  <2>1. Head(inbox[k]) \in DOMAIN op /\ Head(inbox[k]) \in Requests /\ Tail(inbox[k]) = << >>
        /\ current[k] = None /\ outbox[k] = << >>
    BY <1>1, <1>15, InboxType DEF TurnAway
  <2>2. m \in Reply /\ m.to \in DOMAIN op
    BY <2>1 DEF Reply
  <2>3. PutReply(k, m) /\ inbox' = [inbox EXCEPT ![k] = << >>] /\ UNCHANGED current
    BY <1>15, <2>1 DEF TurnAway
  <2> HIDE DEF m
  <2> QED BY <1>1, <1>14, <2>1, <2>2, <2>3 DEF TypeOK
<1>16. ASSUME NEW k \in Conns, Finish(k)
       PROVE  CarriesOne'
  <2> DEFINE m == ReplyOf(k)
  <2>1. /\ current[k] \in DOMAIN op /\ current[k] \in Requests
        /\ inbox[k] = << >> /\ outbox[k] = << >>
    BY <1>1, <1>16, WorkType DEF Finish, Working, CarriesOne
  <2>2. m \in Reply /\ m.to \in DOMAIN op
    BY <2>1 DEF Reply, ReplyOf
  <2>3. PutReply(k, m) /\ current' = [current EXCEPT ![k] = None] /\ UNCHANGED inbox
    BY <1>16 DEF Finish
  <2> HIDE DEF m
  <2> QED BY <1>1, <1>14, <2>1, <2>2, <2>3 DEF TypeOK
<1>17. CASE Stop
  BY <1>4, <1>5, <1>17 DEF Stop
<1>18. CASE Exit
  BY <1>4, <1>5, <1>18 DEF Exit
<1>19. CASE Restart
  BY <1>6, <1>19 DEF Restart
<1> QED BY <1>7, <1>8, <1>9, <1>10, <1>11, <1>12, <1>13, <1>15, <1>16, <1>17, <1>18, <1>19
        DEF Next, ClientStep, ThreadStep, PeerGone, Timeout

-----------------------------------------------------------------------------
(* What the manager does to a connection: a request moves from the inbox to its
   thread, from either to the reply, or is gone. *)
RequestsMove ==
  \A k \in Conns :
    /\ inbox'[k] \in {inbox[k], << >>}
    /\ current'[k] # None => current'[k] = current[k] \/ inbox[k] = <<current'[k]>>
    /\ outbox'[k] # << >> =>
         \/ outbox'[k] = outbox[k]
         \/ inbox[k] = <<outbox'[k][1].to>>
         \/ current[k] = outbox'[k][1].to /\ current[k] # None

ManagerStep == (\E k \in Conns : ThreadStep(k)) \/ Stop \/ Exit \/ Restart

LEMMA ManagerMoves ==
  ASSUME Inv, ManagerStep
  PROVE  RequestsMove /\ UNCHANGED <<clientVars, open>>
<1>1. TypeOK /\ ThreadsSound /\ CarriesOne
  BY DEF Inv
<1> USE DEF clientVars, connVars, serverVars
<1>2. UNCHANGED <<clientVars, open>>
  BY DEF ManagerStep, ThreadStep, Accept, Admit, TurnAway, Reject, TakeLock, Handle, Finish,
         Hangup, Stop, Exit, Restart
<1>3. ASSUME UNCHANGED <<inbox, current, outbox>>
      PROVE  RequestsMove
  BY <1>3 DEF RequestsMove
<1>4. ASSUME NEW k \in Conns, Accept(k) \/ Reject(k) \/ TakeLock(k) \/ Handle(k) \/ Hangup(k)
      PROVE  RequestsMove
  BY <1>3, <1>4 DEF Accept, Reject, TakeLock, Handle, Hangup
<1>5. ASSUME NEW k \in Conns, Admit(k)
      PROVE  RequestsMove
  <2>1. /\ inbox' = [inbox EXCEPT ![k] = << >>] /\ inbox[k] = <<Head(inbox[k])>>
        /\ current' = [current EXCEPT ![k] = Head(inbox[k])] /\ UNCHANGED outbox
    BY <1>1, <1>5, InboxType DEF Admit
  <2> QED BY <1>1, <2>1 DEF RequestsMove, TypeOK
<1>6. ASSUME NEW k \in Conns, TurnAway(k)
      PROVE  RequestsMove
  <2> DEFINE m == [to |-> Head(inbox[k]), id |-> None, code |-> "BUSY"]
  <2>1. /\ inbox' = [inbox EXCEPT ![k] = << >>] /\ inbox[k] = <<Head(inbox[k])>>
        /\ outbox[k] = << >> /\ UNCHANGED current /\ PutReply(k, m)
    BY <1>1, <1>6, InboxType DEF TurnAway
  <2>2. m.to = Head(inbox[k])
    OBVIOUS
  <2> HIDE DEF m
  <2>3. outbox'[k] = << >> \/ outbox'[k][1] = m
    BY <1>1, <2>1, OneElement DEF PutReply, TypeOK
  <2> QED BY <1>1, <2>1, <2>2, <2>3 DEF RequestsMove, TypeOK, PutReply
<1>7. ASSUME NEW k \in Conns, Finish(k)
      PROVE  RequestsMove
  <2> DEFINE m == ReplyOf(k)
  <2>1. /\ current[k] # None /\ outbox[k] = << >> /\ PutReply(k, m)
        /\ current' = [current EXCEPT ![k] = None] /\ UNCHANGED inbox
    BY <1>1, <1>7, WorkType DEF Finish, Working, CarriesOne
  <2>2. m.to = current[k]
    BY DEF ReplyOf
  <2> HIDE DEF m
  <2>3. outbox'[k] = << >> \/ outbox'[k][1] = m
    BY <1>1, <2>1, OneElement DEF PutReply, TypeOK
  <2> QED BY <1>1, <2>1, <2>2, <2>3 DEF RequestsMove, TypeOK, PutReply
<1>8. CASE Stop
  BY <1>8 DEF Stop, RequestsMove
<1>9. CASE Exit
  BY <1>9 DEF Exit, RequestsMove
<1>10. CASE Restart
  BY <1>3, <1>10 DEF Restart
<1> QED BY <1>2, <1>4, <1>5, <1>6, <1>7, <1>8, <1>9, <1>10 DEF ManagerStep, ThreadStep

LEMMA ClientsStep == Inv /\ Next => ClientsSound'
<1> SUFFICES ASSUME Inv, Next PROVE ClientsSound'
  OBVIOUS
<1>1. TypeOK /\ ThreadsSound /\ CarriesOne /\ ClientsSound /\ AnswersTrue
  BY DEF Inv
<1>2. op' = op
  BY DEF Next
<1> DEFINE P(c) == /\ \A n \in 1 .. calls[c] : <<c, n>> \in DOMAIN op
                   /\ pc[c] # "idle" => calls[c] >= 1
                   /\ pc[c] = "try" => attempt[c] <= Attempts(Call(c))
                   /\ pc[c] = "waiting" => link[c] # None /\ attempt[c] < Attempts(Call(c))
           L(c, k) == /\ open[k]
                      /\ \A d \in Clients \ {c} : link[d] # k
                      /\ inbox[k] # <<>> => pc[c] = "waiting" /\ inbox[k] = <<Call(c)>>
                      /\ current[k] # None => pc[c] = "waiting" /\ current[k] = Call(c)
                      /\ outbox[k] # <<>> => pc[c] = "waiting" /\ outbox[k][1].to = Call(c)
<1>3. \A c \in Clients : P(c) /\ (link[c] # None => L(c, link[c]))
  BY <1>1 DEF ClientsSound
<1>4. ASSUME \A c \in Clients : P(c)' /\ (link'[c] # None => L(c, link[c])')
      PROVE  ClientsSound'
  BY <1>4 DEF ClientsSound
<1>5. \A c \in Clients : link[c] \in Conns \cup {None}
  BY <1>1 DEF TypeOK
(* A client that takes no part. *)
<1>6. ASSUME NEW d \in Clients, calls'[d] = calls[d], attempt'[d] = attempt[d],
             pc'[d] = pc[d], link'[d] = link[d],
             \A e \in Clients \ {d} : link'[e] = None \/ link'[e] # link[d],
             link[d] # None =>
               /\ open'[link[d]] = open[link[d]] /\ inbox'[link[d]] = inbox[link[d]]
               /\ current'[link[d]] = current[link[d]] /\ outbox'[link[d]] = outbox[link[d]]
      PROVE  P(d)' /\ (link'[d] # None => L(d, link[d])')
  <2>1. P(d)'
    BY <1>2, <1>3, <1>6 DEF Attempts, Call
  <2>2. ASSUME link[d] # None PROVE L(d, link[d])'
    <3>1. L(d, link[d])
      BY <1>3, <2>2
    <3>2. Call(d)' = Call(d)
      BY <1>6 DEF Call
    <3>3. \A e \in Clients \ {d} : link'[e] # link'[d]
      BY <1>6, <2>2
    <3> QED BY <1>6, <2>2, <3>1, <3>2, <3>3
  <2> QED BY <1>6, <2>1, <2>2
<1>7. ASSUME NEW c \in Clients, NEW d \in Clients, c # d, link[d] # None
      PROVE  link[c] # link[d]
  BY <1>3, <1>7
<1> HIDE DEF P, L
<1> USE DEF clientVars, connVars, serverVars
<1>8. ASSUME NEW c \in Clients, Begin(c)
      PROVE  ClientsSound'
  <2>1. P(c)'
    <3>1. /\ calls[c] \in Nat /\ calls'[c] = calls[c] + 1 /\ pc'[c] = "try" /\ attempt'[c] = 0
          /\ <<c, calls[c] + 1>> \in DOMAIN op
      BY <1>1, <1>8 DEF Begin, TypeOK
    <3>2. Attempts(<<c, calls[c] + 1>>) \in Nat \ {0} /\ Call(c)' = <<c, calls[c] + 1>>
      BY <1>1, <3>1, AttemptsType DEF Call
    <3>3. attempt'[c] <= Attempts(Call(c))'
      BY <1>2, <3>1, <3>2 DEF Attempts
    <3> QED BY <1>2, <1>3, <3>1, <3>3 DEF P
  <2>2. link[c] # None => inbox[link[c]] = << >> /\ current[link[c]] = None /\ outbox[link[c]] = << >>
    BY <1>3, <1>8 DEF Begin, P, L
  <2>3. link'[c] # None => L(c, link[c])'
    BY <1>3, <1>8, <2>2 DEF Begin, P, L
  <2>4. ASSUME NEW d \in Clients, d # c
        PROVE  P(d)' /\ (link'[d] # None => L(d, link[d])')
    BY <1>1, <1>6, <1>7, <1>8, <2>4 DEF Begin, TypeOK
  <2> QED BY <1>4, <2>1, <2>3, <2>4
<1>9. ASSUME NEW c \in Clients, Connect(c)
      PROVE  ClientsSound'
  <2>1. PICK k \in Unused : /\ link' = [link EXCEPT ![c] = k]
                            /\ open' = [open EXCEPT ![k] = TRUE]
                            /\ inbox' = [inbox EXCEPT ![k] = <<>>]
                            /\ outbox' = [outbox EXCEPT ![k] = <<>>]
    BY <1>9 DEF Connect
  <2>2. /\ k \in Conns /\ k # None /\ ~ open[k] /\ current[k] = None
    BY <1>1, <2>1, RpcAssumption DEF Unused, ThreadsSound, Working
  <2>3. \A d \in Clients : link[d] # k
    BY <1>3, <2>2 DEF L
  <2>4. P(c)'
    BY <1>1, <1>2, <1>3, <1>9, <2>1 DEF Connect, Call, Attempts, TypeOK, P, L
  <2>5. L(c, k)' /\ link'[c] = k
    BY <1>1, <1>9, <2>1, <2>2, <2>3 DEF Connect, TypeOK, P, L
  <2>6. ASSUME NEW d \in Clients, d # c
        PROVE  P(d)' /\ (link'[d] # None => L(d, link[d])')
    <3>1. /\ calls'[d] = calls[d] /\ attempt'[d] = attempt[d] /\ pc'[d] = pc[d] /\ link'[d] = link[d]
          /\ \A e \in Clients \ {d} : link'[e] \in {link[e], k}
      BY <1>1, <1>9, <2>1, <2>6 DEF Connect, TypeOK
    <3>2. \A e \in Clients \ {d} : link'[e] = None \/ link'[e] # link[d]
      BY <1>7, <2>2, <2>3, <3>1
    <3>3. link[d] # None =>
            /\ open'[link[d]] = open[link[d]] /\ inbox'[link[d]] = inbox[link[d]]
            /\ current'[link[d]] = current[link[d]] /\ outbox'[link[d]] = outbox[link[d]]
      BY <1>1, <1>5, <1>9, <2>1, <2>3 DEF Connect, TypeOK
    <3> QED BY <1>6, <3>1, <3>2, <3>3
  <2> QED BY <1>4, <2>4, <2>5, <2>6
<1>10. ASSUME NEW c \in Clients, ConnectRefused(c)
       PROVE  ClientsSound'
  <2>1. P(c)' /\ link'[c] = None
    BY <1>1, <1>2, <1>3, <1>10, CallType, AttemptsType DEF ConnectRefused, Call, Attempts, TypeOK, P, L
  <2>2. ASSUME NEW d \in Clients, d # c
        PROVE  P(d)' /\ (link'[d] # None => L(d, link[d])')
    BY <1>1, <1>6, <1>7, <1>10, <2>2 DEF ConnectRefused, TypeOK
  <2> QED BY <1>4, <2>1, <2>2
<1>11. ASSUME NEW c \in Clients, Send(c)
       PROVE  ClientsSound'
  <2>0. LET k == link[c]
        IN  /\ k \in Conns /\ inbox[k] = << >> /\ current[k] = None /\ outbox[k] = << >>
            /\ open[k] /\ inbox' = [inbox EXCEPT ![k] = Append(@, Call(c))]
    BY <1>3, <1>5, <1>11 DEF Send, P, L
  <2>1. PICK k \in Conns : /\ k = link[c] /\ inbox[k] = << >> /\ current[k] = None /\ outbox[k] = << >>
                           /\ open[k] /\ inbox' = [inbox EXCEPT ![k] = Append(@, Call(c))]
    BY <2>0
  <2>2. inbox' = [inbox EXCEPT ![k] = <<Call(c)>>]
    BY <2>1, OneElement
  <2>3. P(c)'
    BY <1>1, <1>2, <1>3, <1>11 DEF Send, Call, Attempts, TypeOK, P, L
  <2>4. L(c, k)' /\ link'[c] = k
    BY <1>1, <1>3, <1>11, <2>1, <2>2 DEF Send, Call, TypeOK, P, L
  <2>5. ASSUME NEW d \in Clients, d # c
        PROVE  P(d)' /\ (link'[d] # None => L(d, link[d])')
    <3>1. /\ calls'[d] = calls[d] /\ attempt'[d] = attempt[d] /\ pc'[d] = pc[d] /\ link' = link
          /\ UNCHANGED <<open, current, outbox>>
      BY <1>1, <1>11, <2>5 DEF Send, TypeOK
    <3>2. \A e \in Clients \ {d} : link'[e] = None \/ link'[e] # link[d]
      BY <1>7, <3>1
    <3>3. link[d] # None => inbox'[link[d]] = inbox[link[d]]
      BY <1>1, <1>5, <1>7, <2>1, <2>2, <2>5 DEF TypeOK
    <3> QED BY <1>6, <3>1, <3>2, <3>3
  <2> QED BY <1>4, <2>3, <2>4, <2>5
<1>12. ASSUME NEW c \in Clients, CloseAndRetry(c), pc[c] \in {"try", "waiting"},
              pc[c] = "try" => attempt[c] < Attempts(Call(c))
       PROVE  ClientsSound'
  <2>1. P(c)' /\ link'[c] = None
    BY <1>1, <1>2, <1>3, <1>12, CallType, AttemptsType DEF CloseAndRetry, Call, Attempts, TypeOK, P, L
  <2>2. ASSUME NEW d \in Clients, d # c
        PROVE  P(d)' /\ (link'[d] # None => L(d, link[d])')
    BY <1>1, <1>5, <1>6, <1>7, <1>12, <2>2 DEF CloseAndRetry, TypeOK
  <2> QED BY <1>4, <2>1, <2>2
<1>13. ASSUME NEW c \in Clients, Receive(c) \/ ReceiveOversized(c)
       PROVE  ClientsSound'
  <2>1. /\ link[c] \in Conns /\ outbox' = [outbox EXCEPT ![link[c]] = << >>]
        /\ outbox[link[c]] # << >>
    BY <1>1, <1>13, ReplyType DEF Receive, ReceiveOversized
  <2>2. /\ pc' = [pc EXCEPT ![c] = "idle"]
        /\ UNCHANGED <<link, calls, attempt, open, inbox, current>>
    BY <1>13 DEF Receive, ReceiveOversized, Return
  <2>3. inbox[link[c]] = << >> /\ current[link[c]] = None
    BY <1>1, <2>1 DEF CarriesOne
  <2>4. P(c)'
    BY <1>1, <1>2, <1>3, <2>2 DEF Call, Attempts, TypeOK, P, L
  <2>5. L(c, link[c])'
    BY <1>1, <1>3, <1>7, <2>1, <2>2, <2>3, RpcAssumption DEF TypeOK, P, L
  <2>6. ASSUME NEW d \in Clients, d # c
        PROVE  P(d)' /\ (link'[d] # None => L(d, link[d])')
    BY <1>1, <1>5, <1>6, <1>7, <2>1, <2>2, <2>6 DEF TypeOK
  <2> QED BY <1>4, <2>4, <2>5, <2>6
<1>14. ASSUME NEW c \in Clients, GiveUp(c)
       PROVE  ClientsSound'
  <2>1. P(c)'
    BY <1>1, <1>2, <1>3, <1>14 DEF GiveUp, Return, Call, Attempts, TypeOK, P, L
  <2>2. link[c] # None => inbox[link[c]] = << >> /\ current[link[c]] = None /\ outbox[link[c]] = << >>
    BY <1>3, <1>14 DEF GiveUp, P, L
  <2>3. link'[c] # None => L(c, link[c])'
    BY <1>3, <1>14, <2>2 DEF GiveUp, P, L
  <2>4. ASSUME NEW d \in Clients, d # c
        PROVE  P(d)' /\ (link'[d] # None => L(d, link[d])')
    BY <1>1, <1>6, <1>7, <1>14, <2>4 DEF GiveUp, Return, TypeOK
  <2> QED BY <1>4, <2>1, <2>3, <2>4
<1>15. CASE ManagerStep
  <2>1. UNCHANGED <<pc, link, calls, attempt, open>> /\ RequestsMove
    BY <1>15, ManagerMoves
  <2>2. ASSUME NEW c \in Clients
        PROVE  P(c)' /\ (link'[c] # None => L(c, link[c])')
    <3>1. P(c)'
      BY <1>2, <1>3, <2>1 DEF Call, Attempts, P, L
    <3>2. ASSUME link[c] # None
          PROVE  L(c, link[c])'
      <4>1. PICK k \in Conns : k = link[c]
        BY <1>5, <3>2
      <4>2. L(c, k)
        BY <1>3, <3>2, <4>1
      <4>3. UNCHANGED <<pc, link, open, calls>> /\ Call(c)' = Call(c)
        BY <2>1 DEF Call
      <4>4. inbox'[k] # << >> => pc'[c] = "waiting" /\ inbox'[k] = <<Call(c)>>
        BY <2>1, <4>2, <4>3 DEF L, RequestsMove
      <4>5. inbox[k] # << >> => \A r : inbox[k] = <<r>> => r = Call(c)
        BY <4>2, OneElement DEF L
      <4>6. current'[k] # None => pc'[c] = "waiting" /\ current'[k] = Call(c)
        BY <2>1, <4>2, <4>3, <4>5, OneElement DEF L, RequestsMove
      <4>7. outbox'[k] # << >> => pc'[c] = "waiting" /\ outbox'[k][1].to = Call(c)
        BY <2>1, <4>2, <4>3, <4>5, OneElement DEF L, RequestsMove
      <4>8. L(c, k)'
        BY <4>2, <4>3, <4>4, <4>6, <4>7 DEF L
      <4> QED BY <4>1, <4>3, <4>8
    <3> QED BY <2>1, <3>1, <3>2
  <2> QED BY <1>4, <2>2
<1> QED BY <1>8, <1>9, <1>10, <1>11, <1>12, <1>13, <1>14, <1>15
        DEF Next, ClientStep, ThreadStep, PeerGone, Timeout, ManagerStep

-----------------------------------------------------------------------------
(* What was applied stays applied. *)
LEMMA RequestParts ==
  ASSUME TypeOK, NEW r \in DOMAIN op
  PROVE  r \in Requests /\ r[1] \in Clients /\ r[2] \in 1 .. MaxCalls /\ r = <<r[1], r[2]>>
  BY RpcAssumption DEF TypeOK, Requests

LEMMA AppliedFinite ==
  ASSUME TypeOK, NEW r
  PROVE  IsFiniteSet(Applied(r)) /\ Cardinality(Applied(r)) \in Nat
<1>1. Len(db) \in Nat /\ IsFiniteSet(1 .. Len(db)) /\ Applied(r) \subseteq 1 .. Len(db)
  BY FS_Interval DEF TypeOK, Applied
<1> QED BY <1>1, FS_Subset, FS_CardinalityType

LEMMA AppliedByStep ==
  ASSUME TypeOK, NEW x \in Requests, db' = Append(db, x), NEW r
  PROVE  /\ Applied(r)' = IF r = x THEN Applied(r) \cup {Len(db) + 1} ELSE Applied(r)
         /\ Len(db) + 1 \notin Applied(r)
<1>1. /\ Len(db) \in Nat /\ Len(db') = Len(db) + 1 /\ db'[Len(db) + 1] = x
      /\ \A i \in 1 .. Len(db) : db'[i] = db[i]
  BY AppendProperties DEF TypeOK
<1>2. 1 .. Len(db') = 1 .. Len(db) \cup {Len(db) + 1} /\ Len(db) + 1 \notin 1 .. Len(db)
  BY <1>1
<1> QED BY <1>1, <1>2 DEF Applied

LEMMA DbStep ==
  ASSUME Next
  PROVE  \/ db' = db
         \/ \E k \in Conns : Handle(k) /\ db' = Append(db, current[k])
  BY DEF Next, ClientStep, ThreadStep, Begin, Connect, ConnectRefused, Send, PeerGone, Timeout,
         CloseAndRetry, Receive, ReceiveOversized, GiveUp, Accept, Admit, TurnAway, Reject, TakeLock,
         Handle, Executed, Finish, Hangup, Stop, Exit, Restart, clientVars, connVars, serverVars

LEMMA DbKnownStep == Inv /\ Next => DbKnown'
<1> SUFFICES ASSUME Inv, Next PROVE DbKnown'
  OBVIOUS
<1>1. TypeOK /\ ThreadsSound /\ CarriesOne /\ DbKnown
  BY DEF Inv
<1>2. op' = op
  BY DEF Next
<1>3. CASE db' = db
  BY <1>1, <1>2, <1>3 DEF DbKnown
<1>4. ASSUME NEW k \in Conns, Handle(k), db' = Append(db, current[k])
      PROVE  DbKnown'
  <2>1. current[k] \in DOMAIN op /\ current[k] \in Requests
    BY <1>1, <1>4, WorkType DEF Handle, Working
  <2>2. /\ Len(db) \in Nat /\ Len(db') = Len(db) + 1 /\ db'[Len(db) + 1] = current[k]
        /\ \A i \in 1 .. Len(db) : db'[i] = db[i]
    BY <1>1, <1>4, <2>1, AppendProperties DEF TypeOK
  <2> QED BY <1>1, <1>2, <2>1, <2>2 DEF DbKnown
<1> QED BY <1>3, <1>4, DbStep

LEMMA LandedStays ==
  ASSUME Inv, Next, NEW r, Landed(r)
  PROVE  Landed(r)'
<1>1. TypeOK /\ ThreadsSound /\ CarriesOne /\ op' = op
  BY DEF Inv, Next
<1>2. CASE db' = db
  BY <1>1, <1>2 DEF Landed, Reads, Applied
<1>3. ASSUME NEW k \in Conns, Handle(k), db' = Append(db, current[k])
      PROVE  Landed(r)'
  <2>1. current[k] \in Requests
    BY <1>1, <1>3, WorkType DEF Handle, Working
  <2>2. Applied(r) \subseteq Applied(r)'
    BY <1>1, <1>3, <2>1, AppliedByStep
  <2> QED BY <1>1, <2>2 DEF Landed, Reads
<1> QED BY <1>2, <1>3, DbStep

-----------------------------------------------------------------------------
LEMMA AnswersStep == Inv /\ Next => AnswersTrue'
<1> SUFFICES ASSUME Inv, Next PROVE AnswersTrue'
  OBVIOUS
<1>1. TypeOK /\ ThreadsSound /\ CarriesOne /\ ClientsSound /\ AnswersTrue
  BY DEF Inv
<1>2. op' = op /\ TypeOK'
  BY TypeStep DEF Next
<1> DEFINE T(k) == thread[k] = "done" /\ answer[k] = "ok" => Landed(current[k])
           M(k) == outbox[k] # <<>> => ReplyTrue(outbox[k][1])
           O(r) == /\ outcome[r] = "ok" => Landed(r)
                   /\ Finished(r) => outcome[r] # "none"
<1>3. /\ \A k \in Conns : T(k) /\ M(k)
      /\ \A r \in DOMAIN op : O(r)
  BY <1>1 DEF AnswersTrue
<1>4. ASSUME \A k \in Conns : T(k)' /\ M(k)',
             \A r \in DOMAIN op : O(r)'
      PROVE  AnswersTrue'
  BY <1>2, <1>4 DEF AnswersTrue
<1>5. ASSUME NEW k \in Conns, NEW m, ReplyTrue(m), outbox'[k] = <<>> \/ outbox'[k][1] = m
      PROVE  M(k)'
  BY <1>5, LandedStays DEF ReplyTrue
<1>6. ASSUME NEW k \in Conns, thread'[k] = thread[k] \/ thread'[k] # "done",
             answer'[k] = answer[k] \/ thread'[k] # "done",
             current'[k] = current[k] \/ thread'[k] # "done"
      PROVE  T(k)'
  BY <1>3, <1>6, LandedStays
<1>7. ASSUME NEW r \in DOMAIN op, outcome'[r] = outcome[r], Finished(r)' => Finished(r)
      PROVE  O(r)'
  BY <1>3, <1>7, LandedStays
<1> HIDE DEF T, M, O
<1> USE DEF clientVars, connVars, serverVars
(* Whether the callers' side, the threads or the replies change. *)
<1>8. UNCHANGED <<calls, pc, outcome>> => \A r \in DOMAIN op : O(r)'
  BY <1>7 DEF Finished, Begun
<1>9. UNCHANGED <<thread, answer, current>> => \A k \in Conns : T(k)'
  BY <1>6
<1>10. ASSUME NEW k \in Conns, outbox'[k] = outbox[k] \/ outbox'[k] = <<>>
       PROVE  M(k)'
  BY <1>3, <1>5, <1>10 DEF M
<1>11. ASSUME NEW c \in Clients, Begin(c)
       PROVE  AnswersTrue'
  <2>1. ASSUME NEW r \in DOMAIN op PROVE O(r)'
    <3>1. /\ outcome' = outcome /\ r[1] \in Clients /\ calls[c] \in Nat
          /\ \A d \in Clients \ {c} : pc'[d] = pc[d] /\ calls'[d] = calls[d]
          /\ pc[c] = "idle" /\ pc'[c] = "try" /\ calls'[c] = calls[c] + 1
      BY <1>1, <1>11, RequestParts DEF Begin, TypeOK
    <3>2. Finished(r)' => Finished(r)
      BY <1>1, <3>1, RequestParts DEF Finished, Begun
    <3> QED BY <1>7, <3>1, <3>2
  <2>2. UNCHANGED <<thread, answer, current, outbox>>
    BY <1>11 DEF Begin
  <2> QED BY <1>4, <1>9, <1>10, <2>1, <2>2
<1>12. ASSUME NEW c \in Clients, Connect(c)
       PROVE  AnswersTrue'
  <2>1. PICK k \in Unused : /\ thread' = [thread EXCEPT ![k] = "unaccepted"]
                            /\ outbox' = [outbox EXCEPT ![k] = <<>>]
    BY <1>12 DEF Connect
  <2>2. \A r \in DOMAIN op : O(r)'
    BY <1>8, <1>12 DEF Connect
  <2>3. UNCHANGED <<answer, current>>
    BY <1>12 DEF Connect
  <2>4. \A j \in Conns : T(j)'
    BY <1>1, <1>6, <2>1, <2>3 DEF TypeOK
  <2>5. \A j \in Conns : outbox'[j] = outbox[j] \/ outbox'[j] = <<>>
    BY <1>1, <2>1 DEF TypeOK
  <2> QED BY <1>4, <1>10, <2>2, <2>4, <2>5
<1>13. ASSUME NEW c \in Clients, ConnectRefused(c)
       PROVE  AnswersTrue'
  BY <1>4, <1>8, <1>9, <1>10, <1>13 DEF ConnectRefused
<1>14. ASSUME NEW c \in Clients, pc[c] # "idle", pc'[c] # "idle",
              \A d \in Clients \ {c} : pc'[d] = pc[d], UNCHANGED <<calls, outcome>>
       PROVE  \A r \in DOMAIN op : O(r)'
  BY <1>1, <1>7, <1>14, RequestParts DEF Finished, Begun
<1>15. ASSUME NEW c \in Clients, Send(c)
       PROVE  AnswersTrue'
  <2>1. \A r \in DOMAIN op : O(r)'
    BY <1>1, <1>14, <1>15 DEF Send, TypeOK
  <2>2. UNCHANGED <<thread, answer, current, outbox>>
    BY <1>15 DEF Send
  <2> QED BY <1>4, <1>9, <1>10, <2>1, <2>2
<1>16. ASSUME NEW c \in Clients, pc[c] \in {"try", "waiting"}, CloseAndRetry(c)
       PROVE  AnswersTrue'
  <2>1. \A r \in DOMAIN op : O(r)'
    BY <1>1, <1>14, <1>16 DEF CloseAndRetry, TypeOK
  <2>2. \A k \in Conns : T(k)'
    BY <1>1, <1>6, <1>16 DEF CloseAndRetry, TypeOK
  <2>3. \A j \in Conns : outbox'[j] = outbox[j] \/ outbox'[j] = <<>>
    BY <1>1, <1>16 DEF CloseAndRetry, TypeOK
  <2> QED BY <1>4, <1>10, <2>1, <2>2, <2>3
<1>17. ASSUME NEW c \in Clients, NEW result \in {"ok", "error", "failed"}, pc[c] # "idle",
              Return(c, result), result = "ok" => Landed(Call(c)), UNCHANGED calls
       PROVE  \A r \in DOMAIN op : O(r)'
  <2>1. PICK q \in Requests : q = Call(c) /\ outcome' = [outcome EXCEPT ![q] = result]
    BY <1>1, <1>17, CallType DEF Return
  <2>2. O(q)'
    <3>1. outcome'[q] = result
      BY <1>1, <2>1 DEF TypeOK
    <3> QED BY <1>17, <2>1, <3>1, LandedStays DEF O
  <2>3. ASSUME NEW r \in DOMAIN op, r # q
        PROVE  O(r)'
    <3>1. outcome'[r] = outcome[r]
      BY <1>1, <2>1, <2>3, RequestParts DEF TypeOK
    <3>2. Finished(r)' => Finished(r)
      <4>1. r[1] # c \/ r[2] # calls[c]
        BY <1>1, <2>1, <2>3, RequestParts DEF Call
      <4> QED BY <1>1, <1>17, <2>3, <4>1, RequestParts DEF Return, Finished, Begun, TypeOK
    <3> QED BY <1>7, <2>3, <3>1, <3>2
  <2> QED BY <2>2, <2>3
<1>18. ASSUME NEW c \in Clients, Receive(c)
       PROVE  AnswersTrue'
  <2> DEFINE reply == outbox[link[c]][1]
             result == IF reply.id = Call(c) THEN reply.code ELSE "failed"
  <2>1. /\ link[c] \in Conns /\ Head(outbox[link[c]]) = reply /\ Tail(outbox[link[c]]) = << >>
        /\ reply.to = Call(c)
        /\ reply.id = Call(c) => reply.code \in {"ok", "error"}
    BY <1>1, <1>18, ReplyType DEF Receive
  <2>2. result = "ok" => Landed(Call(c))
    BY <1>1, <1>3, <1>18, <2>1, CallType DEF Receive, M, ReplyTrue
  <2>3. Return(c, result) /\ pc[c] # "idle" /\ result \in {"ok", "error", "failed"}
    BY <1>18, <2>1 DEF Receive
  <2>4. UNCHANGED <<calls, thread, answer, current>>
    BY <1>18 DEF Receive
  <2>5. \A j \in Conns : outbox'[j] = outbox[j] \/ outbox'[j] = <<>>
    BY <1>1, <1>18, <2>1 DEF Receive, TypeOK
  <2> HIDE DEF result
  <2>6. \A r \in DOMAIN op : O(r)'
    BY <1>17, <2>2, <2>3, <2>4
  <2> QED BY <1>4, <1>9, <1>10, <2>4, <2>5, <2>6
<1>19. ASSUME NEW c \in Clients, ReceiveOversized(c)
       PROVE  AnswersTrue'
  <2>1. link[c] \in Conns /\ outbox' = [outbox EXCEPT ![link[c]] = << >>]
    BY <1>1, <1>19, ReplyType DEF ReceiveOversized
  <2>2. \A r \in DOMAIN op : O(r)'
    BY <1>17, <1>19 DEF ReceiveOversized
  <2>3. \A j \in Conns : outbox'[j] = outbox[j] \/ outbox'[j] = <<>>
    BY <1>1, <2>1 DEF TypeOK
  <2> QED BY <1>4, <1>9, <1>10, <1>19, <2>2, <2>3 DEF ReceiveOversized
<1>20. ASSUME NEW c \in Clients, GiveUp(c)
       PROVE  AnswersTrue'
  <2>1. \A r \in DOMAIN op : O(r)'
    BY <1>17, <1>20 DEF GiveUp
  <2> QED BY <1>4, <1>9, <1>10, <1>20, <2>1 DEF GiveUp
<1>21. ManagerStep => \A r \in DOMAIN op : O(r)'
  BY <1>8, ManagerMoves
<1>22. ASSUME NEW k \in Conns, Accept(k) \/ Admit(k) \/ Reject(k) \/ TakeLock(k) \/ Hangup(k)
       PROVE  AnswersTrue'
  <2>1. ManagerStep /\ UNCHANGED outbox
    BY <1>22 DEF ManagerStep, ThreadStep, Accept, Admit, Reject, TakeLock, Hangup
  <2>2. ASSUME NEW j \in Conns, j # k PROVE T(j)'
    BY <1>1, <1>6, <1>22, <2>2 DEF Accept, Admit, Reject, TakeLock, Hangup, TypeOK
  <2>3. T(k)'
    BY <1>1, <1>6, <1>22 DEF Accept, Admit, Reject, TakeLock, Hangup, TypeOK, T
  <2> QED BY <1>4, <1>10, <1>21, <2>1, <2>2, <2>3
<1>23. ASSUME NEW k \in Conns, TurnAway(k)
       PROVE  AnswersTrue'
  <2> DEFINE m == [to |-> Head(inbox[k]), id |-> None, code |-> "BUSY"]
  <2>1. PutReply(k, m) /\ outbox[k] = << >> /\ UNCHANGED <<answer, current>> /\ ManagerStep
    BY <1>1, <1>23, InboxType DEF TurnAway, ManagerStep, ThreadStep
  <2>2. ReplyTrue(m)
    BY DEF ReplyTrue
  <2> HIDE DEF m
  <2>3. \A j \in Conns : T(j)'
    BY <1>1, <1>6, <1>23 DEF TurnAway, LoopHead, Ended, TypeOK
  <2>4. outbox'[k] = << >> \/ outbox'[k][1] = m
    BY <1>1, <2>1, OneElement DEF PutReply, TypeOK
  <2>5. \A j \in Conns \ {k} : outbox'[j] = outbox[j]
    BY <1>1, <2>1 DEF PutReply, TypeOK
  <2> QED BY <1>4, <1>5, <1>10, <1>21, <2>1, <2>2, <2>3, <2>4, <2>5
<1>24. ASSUME NEW k \in Conns, Handle(k)
       PROVE  AnswersTrue'
  <2>1. current[k] \in Requests
    BY <1>1, <1>24, WorkType DEF Handle, Working
  <2>2. /\ ManagerStep /\ UNCHANGED <<outbox, current>> /\ answer'[k] \in {"ok", "error"}
        /\ answer'[k] = "ok" => Executed(k)
        /\ \A j \in Conns \ {k} : thread'[j] = thread[j] /\ answer'[j] = answer[j]
    BY <1>1, <1>24 DEF Handle, ManagerStep, ThreadStep, TypeOK
  <2>3. ASSUME Executed(k) PROVE Landed(current[k])'
    <3>1. CASE Reads(current[k])
      BY <1>2, <2>2, <3>1 DEF Landed, Reads
    <3>2. CASE ~ Reads(current[k])
      <4>1. db' = Append(db, current[k])
        BY <2>3, <3>2 DEF Executed
      <4>2. Len(db) + 1 \in Applied(current[k])'
        BY <1>1, <2>1, <2>2, <4>1, AppliedByStep DEF Applied
      <4> QED BY <4>2 DEF Landed
    <3> QED BY <3>1, <3>2
  <2>4. T(k)'
    BY <2>2, <2>3 DEF T
  <2>5. ASSUME NEW j \in Conns, j # k PROVE T(j)'
    BY <1>6, <2>2, <2>5
  <2> QED BY <1>4, <1>10, <1>21, <2>2, <2>4, <2>5
<1>25. ASSUME NEW k \in Conns, Finish(k)
       PROVE  AnswersTrue'
  <2> DEFINE m == ReplyOf(k)
  <2>1. PutReply(k, m) /\ outbox[k] = << >> /\ ManagerStep /\ thread[k] = "done"
    BY <1>1, <1>25, WorkType DEF Finish, ManagerStep, ThreadStep, Working, CarriesOne
  <2>2. ReplyTrue(m)
    BY <1>3, <2>1 DEF ReplyTrue, ReplyOf, T
  <2> HIDE DEF m
  <2>3. \A j \in Conns : T(j)'
    BY <1>1, <1>6, <1>25 DEF Finish, LoopHead, Ended, TypeOK
  <2>4. outbox'[k] = << >> \/ outbox'[k][1] = m
    BY <1>1, <2>1, OneElement DEF PutReply, TypeOK
  <2>5. \A j \in Conns \ {k} : outbox'[j] = outbox[j]
    BY <1>1, <2>1 DEF PutReply, TypeOK
  <2> QED BY <1>4, <1>5, <1>10, <1>21, <2>1, <2>2, <2>3, <2>4, <2>5
<1>26. CASE Stop
  <2>1. UNCHANGED <<outbox, answer, current>> /\ \A k \in Conns : thread'[k] \in {thread[k], "dead", "free"}
    BY <1>26 DEF Stop, Ended
  <2>2. \A k \in Conns : T(k)'
    BY <1>6, <2>1
  <2> QED BY <1>4, <1>10, <1>21, <1>26, <2>1, <2>2 DEF ManagerStep
<1>27. CASE Exit
  <2>1. UNCHANGED outbox /\ \A k \in Conns : thread'[k] \in {"dead", "free"}
    BY <1>27 DEF Exit, Ended
  <2>2. \A k \in Conns : T(k)'
    BY <1>6, <2>1
  <2> QED BY <1>4, <1>10, <1>21, <1>27, <2>1, <2>2 DEF ManagerStep
<1>28. CASE Restart
  BY <1>4, <1>9, <1>10, <1>21, <1>28 DEF Restart, ManagerStep
<1> QED BY <1>11, <1>12, <1>13, <1>15, <1>16, <1>18, <1>19, <1>20, <1>22, <1>23, <1>24, <1>25,
           <1>26, <1>27, <1>28 DEF Next, ClientStep, ThreadStep, PeerGone, Timeout

-----------------------------------------------------------------------------
(* How often a request may have been sent only grows, and with each sending. *)
LEMMA SentType ==
  ASSUME TypeOK, ClientsSound, NEW r \in DOMAIN op
  PROVE  Sent(r) \in Nat /\ Attempts(r) \in Nat \ {0} /\ Sent(r) <= Attempts(r)
<1>1. r[1] \in Clients /\ r[2] \in Nat /\ r = <<r[1], r[2]>>
  BY RequestParts
<1>2. Attempts(r) \in Nat \ {0} /\ attempt[r[1]] \in Nat /\ calls[r[1]] \in Nat
      /\ pc[r[1]] \in {"idle", "try", "waiting"}
  BY <1>1, AttemptsType DEF TypeOK
<1>3. CASE ~ Begun(r) \/ Finished(r)
  BY <1>2, <1>3 DEF Sent
<1>4. CASE Begun(r) /\ ~ Finished(r)
  <2>1. Call(r[1]) = r /\ pc[r[1]] # "idle"
    BY <1>1, <1>2, <1>4 DEF Begun, Finished, Call
  <2> QED BY <1>1, <1>2, <1>4, <2>1 DEF ClientsSound, Sent
<1> QED BY <1>3, <1>4

LEMMA SentStep ==
  ASSUME Inv, Next, NEW r \in DOMAIN op
  PROVE  /\ Sent(r)' \in Nat /\ Sent(r)' >= Sent(r)
         /\ \A c \in Clients : Send(c) /\ r = Call(c) => Sent(r)' = Sent(r) + 1
<1>1. TypeOK /\ ThreadsSound /\ CarriesOne /\ ClientsSound /\ AnswersTrue /\ op' = op
      /\ TypeOK'
  BY TypeStep DEF Inv, Next
<1>2. PICK q, n : q = r[1] /\ n = r[2] /\ r = <<q, n>> /\ q \in Clients /\ n \in Nat
  BY <1>1, RequestParts
<1>3. /\ Sent(r) \in Nat /\ Sent(r) <= Attempts(r) /\ Attempts(r)' = Attempts(r)
      /\ Attempts(r) \in Nat \ {0}
  BY <1>1, SentType DEF Attempts
<1>4. /\ calls[q] \in Nat /\ attempt[q] \in Nat /\ pc[q] \in {"idle", "try", "waiting"}
      /\ calls'[q] \in Nat /\ attempt'[q] \in Nat /\ pc'[q] \in {"idle", "try", "waiting"}
  <2>1. /\ calls \in [Clients -> 0 .. MaxCalls] /\ calls' \in [Clients -> 0 .. MaxCalls]
        /\ attempt \in [Clients -> Nat] /\ attempt' \in [Clients -> Nat]
        /\ pc \in [Clients -> {"idle", "try", "waiting"}]
        /\ pc' \in [Clients -> {"idle", "try", "waiting"}]
    BY <1>1 DEF TypeOK
  <2> QED BY <1>2, <2>1
<1>5. /\ Begun(r) <=> n <= calls[q]
      /\ Finished(r) <=> n < calls[q] \/ (n = calls[q] /\ pc[q] = "idle")
      /\ Begun(r)' <=> n <= calls'[q]
      /\ Finished(r)' <=> n < calls'[q] \/ (n = calls'[q] /\ pc'[q] = "idle")
  BY <1>2, <1>4 DEF Begun, Finished
<1>20. Sent(r) = IF n > calls[q] THEN 0
                 ELSE IF n < calls[q] \/ pc[q] = "idle" THEN Attempts(r)
                 ELSE IF pc[q] = "waiting" THEN attempt[q] + 1 ELSE attempt[q]
  BY <1>2, <1>4, <1>5 DEF Sent
<1>21. Sent(r)' = IF n > calls'[q] THEN 0
                  ELSE IF n < calls'[q] \/ pc'[q] = "idle" THEN Attempts(r)
                  ELSE IF pc'[q] = "waiting" THEN attempt'[q] + 1 ELSE attempt'[q]
  BY <1>2, <1>3, <1>4, <1>5 DEF Sent
<1> USE DEF clientVars, connVars, serverVars, TypeOK
<1>6. ASSUME pc'[q] = pc[q], calls'[q] = calls[q], attempt'[q] = attempt[q]
      PROVE  Sent(r)' = Sent(r)
  BY <1>20, <1>21, <1>6
<1>7. ASSUME NEW c \in Clients, Begin(c)
      PROVE  Sent(r)' >= Sent(r)
  <2>1. c # q => pc'[q] = pc[q] /\ calls'[q] = calls[q] /\ attempt'[q] = attempt[q]
    BY <1>1, <1>2, <1>7 DEF Begin
  <2>2. c = q => pc[q] = "idle" /\ calls'[q] = calls[q] + 1 /\ attempt'[q] = 0 /\ pc'[q] = "try"
    BY <1>1, <1>2, <1>7 DEF Begin
  <2> QED BY <1>2, <1>3, <1>4, <1>20, <1>21, <1>6, <2>1, <2>2
<1>8. ASSUME NEW c \in Clients, ConnectRefused(c)
      PROVE  Sent(r)' >= Sent(r)
  <2>1. c # q => pc'[q] = pc[q] /\ calls'[q] = calls[q] /\ attempt'[q] = attempt[q]
    BY <1>1, <1>2, <1>8 DEF ConnectRefused
  <2>2. c = q => pc[q] = "try" /\ calls'[q] = calls[q] /\ attempt'[q] = attempt[q] + 1 /\ pc'[q] = "try"
    BY <1>1, <1>2, <1>8 DEF ConnectRefused
  <2> QED BY <1>2, <1>3, <1>4, <1>20, <1>21, <1>6, <2>1, <2>2
<1>9. ASSUME NEW c \in Clients, pc[c] \in {"try", "waiting"}, CloseAndRetry(c)
      PROVE  Sent(r)' >= Sent(r)
  <2>1. c # q => pc'[q] = pc[q] /\ calls'[q] = calls[q] /\ attempt'[q] = attempt[q]
    BY <1>1, <1>2, <1>9 DEF CloseAndRetry
  <2>2. c = q => /\ pc[q] # "idle" /\ calls'[q] = calls[q] /\ attempt'[q] = attempt[q] + 1
                /\ pc'[q] = "try"
    BY <1>1, <1>2, <1>9 DEF CloseAndRetry
  <2> QED BY <1>2, <1>3, <1>4, <1>20, <1>21, <1>6, <2>1, <2>2
<1>10. ASSUME NEW c \in Clients, Receive(c) \/ ReceiveOversized(c) \/ GiveUp(c)
       PROVE  Sent(r)' >= Sent(r)
  <2>1. c # q => pc'[q] = pc[q] /\ calls'[q] = calls[q] /\ attempt'[q] = attempt[q]
    BY <1>1, <1>2, <1>10 DEF Receive, ReceiveOversized, GiveUp, Return
  <2>2. c = q => calls'[q] = calls[q] /\ pc'[q] = "idle"
    BY <1>1, <1>2, <1>10 DEF Receive, ReceiveOversized, GiveUp, Return
  <2> QED BY <1>2, <1>3, <1>4, <1>20, <1>21, <1>6, <2>1, <2>2
<1>11. ASSUME NEW c \in Clients, Connect(c)
       PROVE  Sent(r)' >= Sent(r)
  BY <1>3, <1>6, <1>11 DEF Connect
<1>12. ASSUME NEW c \in Clients, Send(c)
       PROVE  Sent(r)' >= Sent(r) /\ (r = Call(c) => Sent(r)' = Sent(r) + 1)
  <2>1. c # q => pc'[q] = pc[q] /\ calls'[q] = calls[q] /\ attempt'[q] = attempt[q]
    BY <1>1, <1>2, <1>12 DEF Send
  <2>2. c = q => /\ calls'[q] = calls[q] /\ pc[q] = "try" /\ pc'[q] = "waiting"
                /\ attempt'[q] = attempt[q]
    BY <1>1, <1>2, <1>12 DEF Send
  <2>3. r = Call(c) => q = c /\ n = calls[q]
    BY <1>2 DEF Call
  <2> QED BY <1>2, <1>3, <1>4, <1>20, <1>21, <1>6, <2>1, <2>2, <2>3
<1>13. ASSUME ManagerStep PROVE Sent(r)' >= Sent(r)
  <2>1. UNCHANGED <<pc, calls, attempt>>
    BY <1>13, ManagerMoves
  <2> QED BY <1>3, <1>6, <2>1
<1>14. Sent(r)' >= Sent(r)
  BY <1>7, <1>8, <1>9, <1>10, <1>11, <1>12, <1>13
     DEF Next, ClientStep, PeerGone, Timeout, ManagerStep
<1>15. Sent(r)' \in Nat
  BY <1>3, <1>4, <1>21
<1> QED BY <1>12, <1>14, <1>15

-----------------------------------------------------------------------------
LEMMA CopiesStep == Inv /\ Next => CopiesBounded'
<1> SUFFICES ASSUME Inv, Next, NEW r \in DOMAIN op
             PROVE  Cardinality(Copies(r)') + One(outcome'[r] \in {"ok", "error"}) <= Sent(r)'
  BY DEF CopiesBounded, Next
<1>1. TypeOK /\ CarriesOne /\ ClientsSound /\ AnswersTrue /\ CopiesBounded
  BY DEF Inv
<1>2. r \in Requests /\ r # None
  BY <1>1, RequestParts, NoRequest
<1>3. /\ Sent(r) \in Nat /\ Sent(r)' \in Nat /\ Sent(r)' >= Sent(r)
      /\ \A c \in Clients : Send(c) /\ r = Call(c) => Sent(r)' = Sent(r) + 1
  BY <1>1, SentType, SentStep
<1>4. /\ Copies(r) \subseteq Conns /\ Copies(r)' \subseteq Conns
      /\ Cardinality(Copies(r)) \in Nat /\ Cardinality(Copies(r)') \in Nat
      /\ Cardinality(Copies(r)) + One(outcome[r] \in {"ok", "error"}) <= Sent(r)
  <2>1. Copies(r) \subseteq Conns /\ Copies(r)' \subseteq Conns
    BY DEF Copies
  <2> QED BY <1>1, <2>1, Counts DEF CopiesBounded
<1>5. ASSUME \A k \in Conns : CopyOn(k, r)' => CopyOn(k, r),
             outcome'[r] \in {"ok", "error"} => outcome[r] \in {"ok", "error"}
      PROVE  Cardinality(Copies(r)') + One(outcome'[r] \in {"ok", "error"}) <= Sent(r)'
  <2>1. Copies(r)' \subseteq Copies(r)
    BY <1>5 DEF Copies
  <2>2. Cardinality(Copies(r)') <= Cardinality(Copies(r))
    BY <1>4, <2>1, Counts
  <2> QED BY <1>3, <1>4, <1>5, <2>2 DEF One
<1>6. ASSUME RequestsMove
      PROVE  \A k \in Conns : CopyOn(k, r)' => CopyOn(k, r)
  BY <1>2, <1>6, OneElement DEF RequestsMove, CopyOn, Replied
<1> USE DEF clientVars, connVars, serverVars
<1>7. ASSUME NEW c \in Clients, Begin(c) \/ ConnectRefused(c)
      PROVE  Cardinality(Copies(r)') + One(outcome'[r] \in {"ok", "error"}) <= Sent(r)'
  BY <1>5, <1>7 DEF Begin, ConnectRefused, CopyOn, Replied
<1>8. ASSUME NEW c \in Clients, Connect(c)
      PROVE  Cardinality(Copies(r)') + One(outcome'[r] \in {"ok", "error"}) <= Sent(r)'
  <2>1. PICK k \in Unused : /\ inbox' = [inbox EXCEPT ![k] = <<>>]
                            /\ outbox' = [outbox EXCEPT ![k] = <<>>]
    BY <1>8 DEF Connect
  <2>2. RequestsMove /\ UNCHANGED outcome
    BY <1>1, <1>8, <2>1 DEF Connect, RequestsMove, TypeOK
  <2> QED BY <1>5, <1>6, <2>2
<1>9. ASSUME NEW c \in Clients, Send(c)
      PROVE  Cardinality(Copies(r)') + One(outcome'[r] \in {"ok", "error"}) <= Sent(r)'
  <2>0. LET k == link[c]
        IN  /\ k \in Conns /\ inbox[k] = << >> /\ current[k] = None /\ outbox[k] = << >>
            /\ inbox' = [inbox EXCEPT ![k] = Append(@, Call(c))]
    BY <1>1, <1>9 DEF Send, ClientsSound, TypeOK
  <2>1. PICK k \in Conns : /\ inbox[k] = << >> /\ current[k] = None /\ outbox[k] = << >>
                           /\ inbox' = [inbox EXCEPT ![k] = Append(@, Call(c))]
    BY <2>0
  <2>2. inbox' = [inbox EXCEPT ![k] = <<Call(c)>>] /\ UNCHANGED <<outbox, current, outcome>>
    BY <1>9, <2>1, OneElement DEF Send
  <2>3. CASE r # Call(c)
    <3>1. \A j \in Conns : CopyOn(j, r)' => CopyOn(j, r)
      BY <1>1, <2>2, <2>3, OneElement DEF CopyOn, Replied, TypeOK
    <3> QED BY <1>5, <2>2, <3>1
  <2>4. CASE r = Call(c)
    <3>1. \A j \in Conns \ {k} : CopyOn(j, r)' => CopyOn(j, r)
      BY <1>1, <2>2 DEF CopyOn, Replied, TypeOK
    <3>2. ~ CopyOn(k, r)
      BY <1>2, <2>1, OneElement DEF CopyOn, Replied
    <3>3. Copies(r)' \subseteq Copies(r) \cup {k} /\ k \notin Copies(r)
      BY <3>1, <3>2 DEF Copies
    <3>4. Cardinality(Copies(r) \cup {k}) = Cardinality(Copies(r)) + 1
      BY <1>4, <3>3, Counts
    <3>5. Copies(r) \cup {k} \subseteq Conns
      BY <1>4
    <3>6. Cardinality(Copies(r)') <= Cardinality(Copies(r)) + 1
      BY <3>3, <3>4, <3>5, Counts
    <3>7. Sent(r)' = Sent(r) + 1
      BY <1>3, <1>9, <2>4
    <3> QED BY <1>3, <1>4, <2>2, <3>6, <3>7 DEF One
  <2> QED BY <2>3, <2>4
<1>10. ASSUME NEW c \in Clients, CloseAndRetry(c)
       PROVE  Cardinality(Copies(r)') + One(outcome'[r] \in {"ok", "error"}) <= Sent(r)'
  <2>1. RequestsMove /\ UNCHANGED outcome
    BY <1>1, <1>10 DEF CloseAndRetry, RequestsMove, TypeOK
  <2> QED BY <1>5, <1>6, <2>1
<1>11. ASSUME NEW c \in Clients, Receive(c) \/ ReceiveOversized(c)
       PROVE  Cardinality(Copies(r)') + One(outcome'[r] \in {"ok", "error"}) <= Sent(r)'
  <2>0. LET k == link[c]
        IN  /\ k \in Conns /\ outbox[k] # << >> /\ outbox[k][1].to = Call(c)
            /\ inbox[k] = << >> /\ current[k] = None /\ outbox' = [outbox EXCEPT ![k] = << >>]
    BY <1>1, <1>11, ReplyType DEF Receive, ReceiveOversized, CarriesOne
  <2>1. PICK k \in Conns : /\ outbox[k] # << >> /\ outbox[k][1].to = Call(c)
                           /\ inbox[k] = << >> /\ current[k] = None
                           /\ outbox' = [outbox EXCEPT ![k] = << >>]
    BY <2>0
  <2>2. /\ UNCHANGED <<inbox, current>>
        /\ \A q \in DOMAIN outcome \ {Call(c)} : outcome'[q] = outcome[q]
    BY <1>11 DEF Receive, ReceiveOversized, Return
  <2>3. \A j \in Conns : CopyOn(j, r)' => CopyOn(j, r)
    BY <1>1, <2>1, <2>2 DEF CopyOn, Replied, TypeOK
  <2>4. CASE r # Call(c)
    <3>1. outcome'[r] = outcome[r]
      BY <1>1, <1>2, <2>2, <2>4 DEF TypeOK
    <3> QED BY <1>5, <2>3, <3>1
  <2>5. CASE r = Call(c)
    <3>1. CopyOn(k, r) /\ ~ CopyOn(k, r)'
      BY <1>1, <1>2, <2>1, <2>2, <2>5, OneElement DEF CopyOn, Replied, TypeOK
    <3>2. Copies(r)' \subseteq Copies(r) \ {k} /\ k \in Copies(r)
      BY <2>3, <3>1 DEF Copies
    <3>3. Cardinality(Copies(r) \ {k}) = Cardinality(Copies(r)) - 1
      BY <1>4, <3>2, Counts
    <3>4. Copies(r) \ {k} \subseteq Conns
      BY <1>4
    <3>5. Cardinality(Copies(r)') <= Cardinality(Copies(r)) - 1
      BY <3>2, <3>3, <3>4, Counts
    <3> QED BY <1>3, <1>4, <3>5 DEF One
  <2> QED BY <2>4, <2>5
<1>12. ASSUME NEW c \in Clients, GiveUp(c)
       PROVE  Cardinality(Copies(r)') + One(outcome'[r] \in {"ok", "error"}) <= Sent(r)'
  BY <1>1, <1>2, <1>5, <1>12 DEF GiveUp, Return, CopyOn, Replied, TypeOK
<1>13. ASSUME ManagerStep
       PROVE  Cardinality(Copies(r)') + One(outcome'[r] \in {"ok", "error"}) <= Sent(r)'
  BY <1>5, <1>6, <1>13, ManagerMoves
<1> QED BY <1>7, <1>8, <1>9, <1>10, <1>11, <1>12, <1>13
        DEF Next, ClientStep, PeerGone, Timeout, ManagerStep

-----------------------------------------------------------------------------
LEMMA AppliesStep == Inv /\ Next => AppliesBounded'
<1> DEFINE Told(r) == One(~ Ingests(r) /\ outcome[r] = "error")
<1> SUFFICES ASSUME Inv, Next, NEW r \in DOMAIN op
             PROVE  Cardinality(Applied(r)') + Cardinality(Unapplied(r)') + Told(r)' <= Sent(r)'
  BY DEF AppliesBounded, Next
<1>1. /\ TypeOK /\ ThreadsSound /\ CarriesOne /\ ClientsSound /\ AnswersTrue /\ AppliesBounded
      /\ TypeOK' /\ op' = op
  BY TypeStep DEF Inv, Next
<1>2. r \in Requests /\ r # None
  BY <1>1, RequestParts, NoRequest
<1>3. /\ Sent(r) \in Nat /\ Sent(r)' \in Nat /\ Sent(r)' >= Sent(r)
      /\ \A c \in Clients : Send(c) /\ r = Call(c) => Sent(r)' = Sent(r) + 1
  BY <1>1, SentType, SentStep
<1>4. /\ Unapplied(r) \subseteq Conns /\ Unapplied(r)' \subseteq Conns
      /\ Cardinality(Unapplied(r)) \in Nat /\ Cardinality(Unapplied(r)') \in Nat
      /\ IsFiniteSet(Applied(r)) /\ Cardinality(Applied(r)) \in Nat
      /\ Cardinality(Applied(r)) + Cardinality(Unapplied(r)) + Told(r) <= Sent(r)
  <2>1. Unapplied(r) \subseteq Conns /\ Unapplied(r)' \subseteq Conns
    BY DEF Unapplied
  <2>2. Cardinality(Unapplied(r)) \in Nat /\ Cardinality(Unapplied(r)') \in Nat
    BY <2>1, Counts
  <2> QED BY <1>1, <2>1, <2>2, AppliedFinite DEF AppliesBounded
<1>5. Told(r) \in {0, 1} /\ Told(r)' \in {0, 1}
  BY DEF One
<1>6. Ingests(r)' <=> Ingests(r)
  BY <1>1 DEF Ingests
<1>7. outcome'[r] # "error" \/ outcome'[r] = outcome[r] => Told(r)' <= Told(r)
  BY <1>6 DEF One
<1>8. db' = db => Applied(r)' = Applied(r)
  BY DEF Applied
<1> HIDE DEF Told
(* A step that applies nothing and leaves nothing new to be applied. *)
<1>9. ASSUME \A k \in Conns : UnappliedOn(k, r)' => UnappliedOn(k, r), db' = db,
             outcome'[r] # "error" \/ outcome'[r] = outcome[r]
      PROVE  Cardinality(Applied(r)') + Cardinality(Unapplied(r)') + Told(r)' <= Sent(r)'
  <2>1. Unapplied(r)' \subseteq Unapplied(r)
    BY <1>9 DEF Unapplied
  <2>2. Cardinality(Unapplied(r)') <= Cardinality(Unapplied(r))
    BY <1>4, <2>1, Counts
  <2> QED BY <1>3, <1>4, <1>5, <1>7, <1>8, <1>9, <2>2
(* One that settles the request where it was unapplied. *)
<1>10. ASSUME NEW k \in Conns, UnappliedOn(k, r), ~ UnappliedOn(k, r)',
              \A j \in Conns : UnappliedOn(j, r)' => UnappliedOn(j, r),
              Cardinality(Applied(r)') + Told(r)' <= Cardinality(Applied(r)) + Told(r) + 1,
              Cardinality(Applied(r)') \in Nat
       PROVE  Cardinality(Applied(r)') + Cardinality(Unapplied(r)') + Told(r)' <= Sent(r)'
  <2>1. Unapplied(r)' \subseteq Unapplied(r) \ {k} /\ k \in Unapplied(r)
    BY <1>10 DEF Unapplied
  <2>2. Unapplied(r) \ {k} \subseteq Conns
    BY <1>4
  <2>3. Cardinality(Unapplied(r)') <= Cardinality(Unapplied(r) \ {k})
    BY <2>1, <2>2, Counts
  <2>4. Cardinality(Unapplied(r)') <= Cardinality(Unapplied(r)) - 1
    BY <1>4, <2>1, <2>3, Counts
  <2> QED BY <1>3, <1>4, <1>5, <1>10, <2>4
(* A connection that changes nothing, or loses what it carries. *)
<1>11. ASSUME NEW k \in Conns, inbox'[k] \in {inbox[k], << >>}, outbox'[k] \in {outbox[k], << >>},
              \/ thread'[k] = thread[k] /\ current'[k] = current[k] /\ answer'[k] = answer[k]
              \/ thread'[k] \notin Working
       PROVE  UnappliedOn(k, r)' => UnappliedOn(k, r)
  BY <1>6, <1>11, OneElement DEF UnappliedOn, RepliedError, Replied, Working
<1> USE DEF clientVars, connVars, serverVars
<1>12. ASSUME NEW c \in Clients, Begin(c) \/ ConnectRefused(c)
       PROVE  Cardinality(Applied(r)') + Cardinality(Unapplied(r)') + Told(r)' <= Sent(r)'
  BY <1>9, <1>11, <1>12 DEF Begin, ConnectRefused
<1>13. ASSUME NEW c \in Clients, Connect(c)
       PROVE  Cardinality(Applied(r)') + Cardinality(Unapplied(r)') + Told(r)' <= Sent(r)'
  <2>1. PICK k \in Unused : /\ inbox' = [inbox EXCEPT ![k] = <<>>]
                            /\ outbox' = [outbox EXCEPT ![k] = <<>>]
                            /\ thread' = [thread EXCEPT ![k] = "unaccepted"]
    BY <1>13 DEF Connect
  <2>2. UNCHANGED <<outcome, db, current, answer>>
    BY <1>13 DEF Connect
  <2>3. \A j \in Conns : UnappliedOn(j, r)' => UnappliedOn(j, r)
    BY <1>1, <1>11, <2>1, <2>2 DEF TypeOK, Working
  <2> QED BY <1>9, <2>2, <2>3
<1>14. ASSUME NEW c \in Clients, Send(c)
       PROVE  Cardinality(Applied(r)') + Cardinality(Unapplied(r)') + Told(r)' <= Sent(r)'
  <2>0. LET k == link[c]
        IN  /\ k \in Conns /\ inbox[k] = << >> /\ current[k] = None /\ outbox[k] = << >>
            /\ inbox' = [inbox EXCEPT ![k] = Append(@, Call(c))]
    BY <1>1, <1>14 DEF Send, ClientsSound, TypeOK
  <2>1. PICK k \in Conns : /\ inbox[k] = << >> /\ current[k] = None /\ outbox[k] = << >>
                           /\ inbox' = [inbox EXCEPT ![k] = Append(@, Call(c))]
    BY <2>0
  <2>2. /\ inbox' = [inbox EXCEPT ![k] = <<Call(c)>>]
        /\ UNCHANGED <<outbox, current, outcome, thread, answer, db>>
    BY <1>14, <2>1, OneElement DEF Send
  <2>3. \A j \in Conns \ {k} : UnappliedOn(j, r)' => UnappliedOn(j, r)
    BY <1>1, <1>11, <2>2 DEF TypeOK
  <2>4. ~ UnappliedOn(k, r)
    BY <1>2, <2>1, OneElement DEF UnappliedOn, RepliedError, Replied
  <2>5. CASE r # Call(c)
    <3>1. ~ UnappliedOn(k, r)'
      BY <1>1, <1>2, <2>1, <2>2, <2>5, OneElement DEF UnappliedOn, RepliedError, Replied, TypeOK
    <3> QED BY <1>9, <2>2, <2>3, <3>1
  <2>6. CASE r = Call(c)
    <3>1. Unapplied(r)' \subseteq Unapplied(r) \cup {k} /\ k \notin Unapplied(r)
      BY <2>3, <2>4 DEF Unapplied
    <3>2. Cardinality(Unapplied(r) \cup {k}) = Cardinality(Unapplied(r)) + 1
      BY <1>4, <3>1, Counts
    <3>3. Unapplied(r) \cup {k} \subseteq Conns
      BY <1>4
    <3>4. Cardinality(Unapplied(r)') <= Cardinality(Unapplied(r)) + 1
      BY <3>1, <3>2, <3>3, Counts
    <3>5. Sent(r)' = Sent(r) + 1
      BY <1>3, <1>14, <2>6
    <3>6. Applied(r)' = Applied(r) /\ Told(r)' <= Told(r)
      BY <1>7, <1>8, <2>2
    <3> QED BY <1>3, <1>4, <1>5, <3>4, <3>5, <3>6
  <2> QED BY <2>5, <2>6
<1>15. ASSUME NEW c \in Clients, CloseAndRetry(c)
       PROVE  Cardinality(Applied(r)') + Cardinality(Unapplied(r)') + Told(r)' <= Sent(r)'
  <2>1. \A j \in Conns : UnappliedOn(j, r)' => UnappliedOn(j, r)
    BY <1>1, <1>11, <1>15 DEF CloseAndRetry, TypeOK, Working
  <2> QED BY <1>9, <1>15, <2>1 DEF CloseAndRetry
<1>16. ASSUME NEW c \in Clients, Receive(c) \/ ReceiveOversized(c)
       PROVE  Cardinality(Applied(r)') + Cardinality(Unapplied(r)') + Told(r)' <= Sent(r)'
  <2>0. LET k == link[c]
        IN  /\ k \in Conns /\ outbox[k] # << >> /\ outbox[k][1].to = Call(c)
            /\ inbox[k] = << >> /\ current[k] = None /\ outbox' = [outbox EXCEPT ![k] = << >>]
            /\ outcome'[Call(c)] = "error" =>
                 outbox[k][1].id = Call(c) /\ outbox[k][1].code = "error"
    <3>1. /\ link[c] \in Conns /\ outbox[link[c]] # << >> /\ outbox[link[c]][1].to = Call(c)
          /\ Head(outbox[link[c]]) = outbox[link[c]][1] /\ Tail(outbox[link[c]]) = << >>
      BY <1>1, <1>16, ReplyType DEF Receive, ReceiveOversized
    <3>2. inbox[link[c]] = << >> /\ current[link[c]] = None
      BY <1>1, <3>1 DEF CarriesOne
    <3>3. outbox' = [outbox EXCEPT ![link[c]] = << >>]
      BY <1>16, <3>1 DEF Receive, ReceiveOversized
    <3>4. Call(c) \in DOMAIN outcome
      BY <1>1, <1>16, CallType DEF Receive, ReceiveOversized, TypeOK
    <3>5. outcome'[Call(c)] = "error" =>
             outbox[link[c]][1].id = Call(c) /\ outbox[link[c]][1].code = "error"
      BY <1>16, <3>1, <3>4 DEF Receive, ReceiveOversized, Return
    <3> QED BY <3>1, <3>2, <3>3, <3>5
  <2>1. PICK k \in Conns : /\ outbox[k] # << >> /\ outbox[k][1].to = Call(c)
                           /\ inbox[k] = << >> /\ current[k] = None
                           /\ outbox' = [outbox EXCEPT ![k] = << >>]
                           /\ outcome'[Call(c)] = "error" =>
                                outbox[k][1].id = Call(c) /\ outbox[k][1].code = "error"
    BY <2>0
  <2>2. /\ UNCHANGED <<inbox, current, thread, answer, db>>
        /\ \A q \in DOMAIN outcome \ {Call(c)} : outcome'[q] = outcome[q]
    BY <1>16 DEF Receive, ReceiveOversized, Return
  <2>3. \A j \in Conns : UnappliedOn(j, r)' => UnappliedOn(j, r)
    BY <1>1, <1>11, <2>1, <2>2 DEF TypeOK
  <2>4. outcome'[r] # "error" \/ outcome'[r] = outcome[r] \/ r = Call(c)
    BY <1>1, <1>2, <2>2 DEF TypeOK
  <2>5. CASE outcome'[r] # "error" \/ r # Call(c) \/ Ingests(r)
    <3>1. CASE outcome'[r] # "error" \/ r # Call(c)
      BY <1>9, <2>2, <2>3, <2>4, <3>1
    <3>2. CASE Ingests(r)
      <4>1. Told(r)' = 0
        BY <1>6, <3>2 DEF Told, One
      <4>2. Unapplied(r)' \subseteq Unapplied(r)
        BY <2>3 DEF Unapplied
      <4>3. Cardinality(Unapplied(r)') <= Cardinality(Unapplied(r))
        BY <1>4, <4>2, Counts
      <4> QED BY <1>3, <1>4, <1>5, <1>8, <2>2, <4>1, <4>3
    <3> QED BY <2>5, <3>1, <3>2
  <2>6. CASE outcome'[r] = "error" /\ r = Call(c) /\ ~ Ingests(r)
    <3>1. UnappliedOn(k, r)
      BY <2>1, <2>6 DEF UnappliedOn, RepliedError, Replied
    <3>2. ~ UnappliedOn(k, r)'
      BY <1>1, <1>2, <2>1, <2>2, OneElement DEF UnappliedOn, RepliedError, Replied, TypeOK
    <3> QED BY <1>4, <1>5, <1>8, <1>10, <2>2, <2>3, <3>1, <3>2
  <2> QED BY <2>5, <2>6
<1>17. ASSUME NEW c \in Clients, GiveUp(c)
       PROVE  Cardinality(Applied(r)') + Cardinality(Unapplied(r)') + Told(r)' <= Sent(r)'
  <2>1. outcome'[r] # "error" \/ outcome'[r] = outcome[r]
    BY <1>1, <1>2, <1>17 DEF GiveUp, Return, TypeOK
  <2> QED BY <1>9, <1>11, <1>17, <2>1 DEF GiveUp
<1>18. ASSUME NEW k \in Conns, Accept(k) \/ Hangup(k)
       PROVE  Cardinality(Applied(r)') + Cardinality(Unapplied(r)') + Told(r)' <= Sent(r)'
  <2>1. \A j \in Conns : UnappliedOn(j, r)' => UnappliedOn(j, r)
    BY <1>1, <1>11, <1>18 DEF Accept, Hangup, TypeOK, Working
  <2> QED BY <1>9, <1>18, <2>1 DEF Accept, Hangup
<1>19. ASSUME NEW k \in Conns, Admit(k)
       PROVE  Cardinality(Applied(r)') + Cardinality(Unapplied(r)') + Told(r)' <= Sent(r)'
  <2>1. \A j \in Conns \ {k} : UnappliedOn(j, r)' => UnappliedOn(j, r)
    BY <1>1, <1>11, <1>19 DEF Admit, TypeOK
  <2>2. /\ inbox' = [inbox EXCEPT ![k] = << >>] /\ inbox[k] = <<Head(inbox[k])>>
        /\ outbox[k] = << >> /\ UNCHANGED <<outbox, outcome, db>>
        /\ current' = [current EXCEPT ![k] = Head(inbox[k])]
    BY <1>1, <1>19, InboxType DEF Admit
  <2>3. UnappliedOn(k, r)' => UnappliedOn(k, r)
    BY <1>1, <2>2, OneElement DEF UnappliedOn, RepliedError, Replied, TypeOK
  <2> QED BY <1>9, <2>1, <2>2, <2>3
<1>20. ASSUME NEW k \in Conns, TurnAway(k)
       PROVE  Cardinality(Applied(r)') + Cardinality(Unapplied(r)') + Told(r)' <= Sent(r)'
  <2> DEFINE m == [to |-> Head(inbox[k]), id |-> None, code |-> "BUSY"]
  <2>1. /\ inbox' = [inbox EXCEPT ![k] = << >>] /\ outbox[k] = << >> /\ PutReply(k, m)
        /\ UNCHANGED <<outcome, db, current, answer>>
    BY <1>1, <1>20, InboxType DEF TurnAway
  <2>2. m.id = None
    OBVIOUS
  <2> HIDE DEF m
  <2>3. outbox'[k] = << >> \/ outbox'[k][1] = m
    BY <1>1, <2>1, OneElement DEF PutReply, TypeOK
  <2>4. thread'[k] \notin Working
    BY <1>1, <1>20 DEF TurnAway, LoopHead, Ended, TypeOK, Working
  <2>5. ~ UnappliedOn(k, r)'
    BY <1>1, <1>2, <2>1, <2>2, <2>3, <2>4, OneElement
       DEF UnappliedOn, RepliedError, Replied, Working, TypeOK
  <2>6. \A j \in Conns \ {k} : UnappliedOn(j, r)' => UnappliedOn(j, r)
    BY <1>1, <1>11, <1>20, <2>1 DEF TurnAway, PutReply, TypeOK
  <2> QED BY <1>9, <2>1, <2>5, <2>6
<1>21. ASSUME NEW k \in Conns, Reject(k) \/ TakeLock(k)
       PROVE  Cardinality(Applied(r)') + Cardinality(Unapplied(r)') + Told(r)' <= Sent(r)'
  <2>1. \A j \in Conns \ {k} : UnappliedOn(j, r)' => UnappliedOn(j, r)
    BY <1>1, <1>11, <1>21 DEF Reject, TakeLock, TypeOK
  <2>2. /\ UNCHANGED <<inbox, outbox, current, outcome, db>>
        /\ thread[k] = "admitted"
    BY <1>21 DEF Reject, TakeLock
  <2>3. UnappliedOn(k, r)' => UnappliedOn(k, r)
    BY <1>6, <2>2 DEF UnappliedOn, RepliedError, Replied
  <2> QED BY <1>9, <2>1, <2>2, <2>3
<1>22. ASSUME NEW k \in Conns, Handle(k)
       PROVE  Cardinality(Applied(r)') + Cardinality(Unapplied(r)') + Told(r)' <= Sent(r)'
  <2>1. /\ current[k] \in Requests /\ current[k] # None /\ inbox[k] = << >> /\ outbox[k] = << >>
        /\ thread[k] = "locked"
    BY <1>1, <1>22, WorkType DEF Handle, Working, CarriesOne
  <2>2. /\ UNCHANGED <<inbox, outbox, current, outcome>> /\ thread'[k] = "done"
        /\ \A j \in Conns \ {k} : thread'[j] = thread[j] /\ answer'[j] = answer[j]
    BY <1>1, <1>22 DEF Handle, TypeOK
  <2>3. \A j \in Conns \ {k} : UnappliedOn(j, r)' => UnappliedOn(j, r)
    BY <1>11, <2>2
  <2>4. Told(r)' <= Told(r)
    BY <1>7, <2>2
  <2>5. CASE current[k] # r
    <3>1. ~ UnappliedOn(k, r)'
      BY <2>1, <2>2, <2>5, OneElement DEF UnappliedOn, RepliedError, Replied
    <3>2. db' \in {db, Append(db, current[k])}
      BY <1>22 DEF Handle, Executed
    <3>3. Applied(r)' = Applied(r)
      BY <1>1, <1>8, <2>1, <2>5, <3>2, AppliedByStep
    <3>4. Unapplied(r)' \subseteq Unapplied(r)
      BY <2>3, <3>1 DEF Unapplied
    <3>5. Cardinality(Unapplied(r)') <= Cardinality(Unapplied(r))
      BY <1>4, <3>4, Counts
    <3> QED BY <1>3, <1>4, <1>5, <2>4, <3>3, <3>5
  <2>6. CASE current[k] = r
    <3>1. UnappliedOn(k, r)
      BY <2>1, <2>6 DEF UnappliedOn
    <3>2. CASE db' = db /\ answer'[k] = "error"
      <4>1. \A j \in Conns : UnappliedOn(j, r)' => UnappliedOn(j, r)
        BY <2>3, <3>1
      <4> QED BY <1>9, <2>2, <3>2, <4>1
    <3>3. CASE Executed(k) /\ (answer'[k] = "ok" \/ Ingests(r))
      <4>1. ~ UnappliedOn(k, r)'
        BY <1>6, <2>1, <2>2, <3>3, OneElement DEF UnappliedOn, RepliedError, Replied
      <4>2. CASE db' = db
        BY <1>4, <1>5, <1>8, <1>10, <2>3, <2>4, <3>1, <4>1, <4>2
      <4>3. CASE db' = Append(db, r)
        <5>1. Applied(r)' = Applied(r) \cup {Len(db) + 1} /\ Len(db) + 1 \notin Applied(r)
          BY <1>1, <1>2, <4>3, AppliedByStep
        <5>2. Cardinality(Applied(r)') = Cardinality(Applied(r)) + 1
          BY <1>4, <5>1, FS_AddElement
        <5> QED BY <1>4, <1>5, <1>10, <2>3, <2>4, <3>1, <4>1, <5>2
      <4> QED BY <2>6, <3>3, <4>2, <4>3 DEF Executed
    <3>4. \/ Executed(k) /\ answer'[k] = "ok"
          \/ db' = db /\ answer'[k] = "error"
          \/ Ingests(current[k]) /\ Executed(k) /\ answer'[k] = "error"
      BY <1>1, <1>22 DEF Handle, TypeOK
    <3> QED BY <2>6, <3>2, <3>3, <3>4
  <2> QED BY <2>5, <2>6
<1>23. ASSUME NEW k \in Conns, Finish(k)
       PROVE  Cardinality(Applied(r)') + Cardinality(Unapplied(r)') + Told(r)' <= Sent(r)'
  <2> DEFINE m == ReplyOf(k)
  <2>1. /\ PutReply(k, m) /\ inbox[k] = << >> /\ outbox[k] = << >> /\ thread[k] = "done"
        /\ UNCHANGED <<outcome, db, inbox>>
    BY <1>1, <1>23, WorkType DEF Finish, Working, CarriesOne
  <2>2. /\ m.to = current[k] /\ m.id \in {None, current[k]}
        /\ m.id = r /\ m.code = "error" => answer[k] = "error"
    <3>1. answer[k] \in {"ok", "error", "refused"}
      BY <1>1, <2>1 DEF ThreadsSound
    <3>2. m.to = current[k] /\ m.id = IF answer[k] = "refused" THEN None ELSE current[k]
      BY DEF ReplyOf
    <3>3. m.code = IF answer[k] = "ok" THEN "ok" ELSE "error"
      BY DEF ReplyOf
    <3> HIDE DEF m
    <3> QED BY <1>2, <3>1, <3>2, <3>3
  <2> HIDE DEF m
  <2>3. outbox'[k] = << >> \/ outbox'[k][1] = m
    BY <1>1, <2>1, OneElement DEF PutReply, TypeOK
  <2>4. thread'[k] \notin Working
    BY <1>1, <1>23 DEF Finish, LoopHead, Ended, TypeOK, Working
  <2>5. UnappliedOn(k, r)' => UnappliedOn(k, r)
    BY <1>6, <2>1, <2>2, <2>3, <2>4, OneElement DEF UnappliedOn, RepliedError, Replied, Working
  <2>6. \A j \in Conns \ {k} : UnappliedOn(j, r)' => UnappliedOn(j, r)
    BY <1>1, <1>11, <1>23, <2>1 DEF Finish, PutReply, TypeOK
  <2> QED BY <1>9, <2>1, <2>5, <2>6
<1>24. CASE Stop
  <2>1. \A j \in Conns : UnappliedOn(j, r)' => UnappliedOn(j, r)
    BY <1>11, <1>24 DEF Stop, Ended, Working
  <2> QED BY <1>9, <1>24, <2>1 DEF Stop
<1>25. CASE Exit
  <2>1. \A j \in Conns : UnappliedOn(j, r)' => UnappliedOn(j, r)
    BY <1>11, <1>25 DEF Exit, Ended, Working
  <2> QED BY <1>9, <1>25, <2>1 DEF Exit
<1>26. CASE Restart
  <2>1. \A j \in Conns : UnappliedOn(j, r)' => UnappliedOn(j, r)
    BY <1>11, <1>26 DEF Restart
  <2> QED BY <1>9, <1>26, <2>1 DEF Restart
<1> QED BY <1>12, <1>13, <1>14, <1>15, <1>16, <1>17, <1>18, <1>19, <1>20, <1>21, <1>22, <1>23,
           <1>24, <1>25, <1>26 DEF Next, ClientStep, ThreadStep, PeerGone, Timeout

-----------------------------------------------------------------------------
(* The outcome of a call that came back is final. *)
LEMMA OutcomeFinal ==
  ASSUME Inv, Next, NEW r \in DOMAIN op, Finished(r)
  PROVE  outcome'[r] = outcome[r]
<1>1. TypeOK /\ ClientsSound
  BY DEF Inv
<1>2. r \in Requests /\ r = <<r[1], r[2]>> /\ r[1] \in Clients
  BY <1>1, RequestParts
<1>3. ASSUME NEW c \in Clients, NEW result, pc[c] # "idle", Return(c, result)
      PROVE  outcome'[r] = outcome[r]
  <2>1. r # Call(c)
    BY <1>2, <1>3 DEF Finished, Call
  <2> QED BY <1>1, <1>2, <1>3, <2>1 DEF Return, TypeOK
<1>4. ASSUME NEW c \in Clients, Receive(c) \/ ReceiveOversized(c) \/ GiveUp(c)
      PROVE  outcome'[r] = outcome[r]
  BY <1>3, <1>4 DEF Receive, ReceiveOversized, GiveUp
<1>5. ASSUME NEW c \in Clients, Begin(c) \/ Connect(c) \/ ConnectRefused(c) \/ Send(c) \/ CloseAndRetry(c)
      PROVE  outcome'[r] = outcome[r]
  BY <1>5 DEF Begin, Connect, ConnectRefused, Send, CloseAndRetry
<1>6. ASSUME ManagerStep
      PROVE  outcome'[r] = outcome[r]
  BY <1>6, ManagerMoves DEF clientVars
<1> QED BY <1>4, <1>5, <1>6 DEF Next, ClientStep, PeerGone, Timeout, ManagerStep

LEMMA AppliedBegun ==
  ASSUME Inv, NEW i \in 1 .. Len(db)
  PROVE  db[i] \in DOMAIN op /\ Begun(db[i])
<1>1. TypeOK /\ ClientsSound /\ DbKnown /\ AppliesBounded
  BY DEF Inv
<1>2. PICK r \in DOMAIN op : r = db[i]
  BY <1>1 DEF DbKnown
<1>3. Applied(r) # {} /\ IsFiniteSet(Applied(r)) /\ Cardinality(Applied(r)) \in Nat
  BY <1>1, <1>2, AppliedFinite DEF Applied
<1>4. Cardinality(Applied(r)) >= 1
  BY <1>3, FS_EmptySet
<1>5. Unapplied(r) \subseteq Conns
  BY DEF Unapplied
<1>6. Cardinality(Unapplied(r)) \in Nat
  BY <1>5, Counts
<1>7. Sent(r) \in Nat /\ Sent(r) # 0
  BY <1>1, <1>3, <1>4, <1>6, SentType DEF AppliesBounded, One
<1> QED BY <1>2, <1>7 DEF Sent

LEMMA OrderStep == Inv /\ Next => AckedInOrder'
<1> SUFFICES ASSUME Inv, Next PROVE AckedInOrder'
  OBVIOUS
<1>1. /\ TypeOK /\ ThreadsSound /\ CarriesOne /\ ClientsSound /\ AnswersTrue /\ CopiesBounded
      /\ AckedInOrder /\ op' = op
  BY DEF Inv, Next
<1>2. ASSUME NEW i \in 1 .. Len(db), NEW r \in DOMAIN op, db[i][1] = r[1], r[2] < db[i][2]
      PROVE  Finished(r)
  <2>1. Begun(db[i]) /\ db[i] \in DOMAIN op
    BY AppliedBegun
  <2>2. db[i][2] \in Nat /\ r[2] \in Nat /\ r[1] \in Clients
    BY <1>1, <2>1, RequestParts
  <2>3. calls[r[1]] \in Nat
    BY <1>1, <2>2 DEF TypeOK
  <2> QED BY <1>2, <2>1, <2>2, <2>3 DEF Begun, Finished
<1>3. ASSUME NEW i \in 1 .. Len(db), NEW j \in 1 .. Len(db), i < j, db[i][1] = db[j][1],
             db[j][2] < db[i][2], Attempts(db[j]) = 1
      PROVE  outcome'[db[j]] = "failed"
  <2>1. db[j] \in DOMAIN op
    BY AppliedBegun
  <2>2. outcome'[db[j]] = outcome[db[j]]
    BY <1>2, <1>3, <2>1, OutcomeFinal
  <2> QED BY <1>1, <1>3, <2>2 DEF AckedInOrder
<1>4. CASE db' = db
  BY <1>1, <1>3, <1>4 DEF AckedInOrder, Attempts
<1>5. ASSUME NEW k \in Conns, Handle(k), db' = Append(db, current[k])
      PROVE  AckedInOrder'
  <2>1. PICK r \in DOMAIN op : r = current[k]
    BY <1>1, <1>5, WorkType DEF Handle, Working
  <2>2. r \in Requests
    BY <1>1, RequestParts
  <2>3. /\ Len(db) \in Nat /\ Len(db') = Len(db) + 1 /\ db'[Len(db) + 1] = r
        /\ \A i \in 1 .. Len(db) : db'[i] = db[i]
    BY <1>1, <1>5, <2>1, <2>2, AppendProperties DEF TypeOK
  <2>4. ASSUME NEW i \in 1 .. Len(db), db[i][1] = r[1], r[2] < db[i][2], Attempts(r) = 1
        PROVE  outcome'[r] = "failed"
    <3>1. Finished(r)
      BY <1>2, <2>4
    <3>2. k \in Copies(r) /\ Copies(r) \subseteq Conns
      BY <2>1 DEF Copies, CopyOn
    <3>3. Cardinality(Copies(r)) \in Nat /\ Cardinality(Copies(r)) # 0
      BY <3>2, Counts
    <3>4. Sent(r) \in Nat /\ Sent(r) <= 1
      BY <1>1, <2>4, SentType
    <3>5. outcome[r] \notin {"ok", "error"}
      BY <1>1, <3>3, <3>4 DEF CopiesBounded, One
    <3>6. outcome[r] = "failed"
      BY <1>1, <2>2, <3>1, <3>5 DEF AnswersTrue, TypeOK
    <3> QED BY <3>1, <3>6, OutcomeFinal
  <2>5. SUFFICES ASSUME NEW i \in 1 .. Len(db'), NEW j \in 1 .. Len(db'), i < j,
                        db'[i][1] = db'[j][1], db'[j][2] < db'[i][2], Attempts(db'[j]) = 1
                 PROVE  outcome'[db'[j]] = "failed"
    BY <1>1 DEF AckedInOrder, Attempts
  <2>6. i \in 1 .. Len(db)
    BY <2>3, <2>5
  <2>7. CASE j \in 1 .. Len(db)
    BY <1>3, <2>3, <2>5, <2>6, <2>7
  <2>8. CASE j = Len(db) + 1
    BY <2>3, <2>4, <2>5, <2>6, <2>8
  <2> QED BY <2>3, <2>5, <2>7, <2>8
<1> QED BY <1>4, <1>5, DbStep

-----------------------------------------------------------------------------
LEMMA InitInv == Init => Inv
<1> SUFFICES ASSUME Init PROVE Inv
  OBVIOUS
<1> USE DEF Init
<1>1. TypeOK
  BY RpcAssumption DEF TypeOK, ThreadStates
<1>2. LockAndPermits
  <2>1. {k \in Conns : thread[k] \in {"admitted", "locked", "done"}} = {}
    OBVIOUS
  <2>2. \A k \in Conns : thread[k] = "locked" <=> lock = k
    BY RpcAssumption
  <2>3. Cardinality({k \in Conns : thread[k] \in {"admitted", "locked", "done"}}) = 0
    BY <2>1, FS_EmptySet
  <2>4. permits + 0 = MaxInflight
    BY RpcAssumption
  <2> QED BY <2>2, <2>3, <2>4 DEF LockAndPermits
<1>3. ThreadsSound /\ CarriesOne /\ DbKnown /\ AckedInOrder
  BY DEF ThreadsSound, CarriesOne, DbKnown, AckedInOrder, Working
<1>4. ClientsSound
  BY DEF ClientsSound
<1>5. ASSUME NEW r \in DOMAIN op
      PROVE  /\ ~ Begun(r) /\ ~ Finished(r) /\ outcome[r] = "none" /\ Sent(r) = 0
             /\ Copies(r) = {} /\ Unapplied(r) = {} /\ Applied(r) = {}
  <2>1. r \in Requests /\ r[1] \in Clients /\ r[2] \in 1 .. MaxCalls
    BY <1>1, RequestParts
  <2>2. r # None
    BY <2>1, NoRequest
  <2>3. ~ Begun(r) /\ ~ Finished(r) /\ outcome[r] = "none" /\ Sent(r) = 0
    BY <2>1 DEF Begun, Finished, Sent
  <2>4. Copies(r) = {} /\ Unapplied(r) = {}
    BY <2>2, OneElement DEF Copies, CopyOn, Unapplied, UnappliedOn, Replied, RepliedError
  <2> QED BY <2>3, <2>4 DEF Applied
<1>6. AnswersTrue
  BY <1>5 DEF AnswersTrue
<1>7. CopiesBounded /\ AppliesBounded
  <2>1. \A r \in DOMAIN op : /\ Cardinality(Copies(r)) = 0 /\ Cardinality(Unapplied(r)) = 0
                             /\ Cardinality(Applied(r)) = 0 /\ Sent(r) = 0 /\ outcome[r] = "none"
    BY <1>5, FS_EmptySet
  <2> HIDE DEF Init
  <2> QED BY <2>1 DEF CopiesBounded, AppliesBounded, One
<1> QED BY <1>1, <1>2, <1>3, <1>4, <1>6, <1>7 DEF Inv

LEMMA StutterInv == Inv /\ UNCHANGED vars => Inv'
<1> SUFFICES ASSUME Inv, UNCHANGED vars PROVE Inv'
  OBVIOUS
<1> USE DEF vars, clientVars, connVars, serverVars
<1>1. TypeOK' /\ LockAndPermits' /\ ThreadsSound' /\ CarriesOne' /\ DbKnown'
  BY DEF Inv, TypeOK, LockAndPermits, ThreadsSound, CarriesOne, DbKnown
<1>2. ClientsSound' /\ AckedInOrder'
  BY DEF Inv, ClientsSound, AckedInOrder, Attempts, Call
<1>3. AnswersTrue'
  BY DEF Inv, AnswersTrue, ReplyTrue, Landed, Reads, Applied, Finished, Begun
<1>4. ASSUME NEW r
      PROVE  /\ Copies(r)' = Copies(r) /\ Unapplied(r)' = Unapplied(r) /\ Applied(r)' = Applied(r)
             /\ Sent(r)' = Sent(r) /\ (Ingests(r)' <=> Ingests(r))
  BY DEF Copies, CopyOn, Unapplied, UnappliedOn, Applied, Sent, Begun, Finished, Attempts, Ingests,
         Replied, RepliedError
<1>5. CopiesBounded' /\ AppliesBounded'
  BY <1>4 DEF Inv, CopiesBounded, AppliesBounded
<1> QED BY <1>1, <1>2, <1>3, <1>5 DEF Inv

LEMMA Invariance == Spec => []Inv
<1>1. Inv /\ [Next]_vars => Inv'
  BY StutterInv, TypeStep, PermitStep, ThreadsStep, CarriesStep, ClientsStep, DbKnownStep,
     AnswersStep, CopiesStep, AppliesStep, OrderStep DEF Inv
<1> QED BY InitInv, <1>1, PTL DEF Spec

(* Every variable keeps its type: no reply reaches a caller that is neither a value, an
   error nor a failure, and the semaphore stays within its bound. *)
THEOREM TypeCorrect == Spec => []TypeOK
<1>1. Inv => TypeOK
  BY DEF Inv
<1> QED BY Invariance, <1>1, PTL

(* _lock and _inflight: handlers run one at a time, and each permit is free or held by one
   request, whichever way requests end and threads die. *)
THEOREM OneHandlerAtATime == Spec => []LockAndPermits
<1>1. Inv => LockAndPermits
  BY DEF Inv
<1> QED BY Invariance, <1>1, PTL

LEMMA NothingCarried ==
  ASSUME NEW k, inbox[k] = << >>, current[k] = None, outbox[k] = << >>
  PROVE  Carries(k) = << >>
  BY DEF Carries

LEMMA OneCarried ==
  ASSUME TypeOK, CarriesOne, NEW k \in Conns, NEW r \in Requests,
         inbox[k] # << >> => inbox[k] = <<r>>,
         current[k] # None => current[k] = r,
         outbox[k] # << >> => outbox[k][1].to = r
  PROVE  Carries(k) \in {<< >>, <<r>>}
<1>1. CASE inbox[k] # << >>
  <2>1. inbox[k] = <<r>> /\ current[k] = None /\ outbox[k] = << >>
    BY <1>1 DEF CarriesOne
  <2>2. Carries(k) = <<r>>
    BY <2>1 DEF Carries
  <2> QED BY <2>2
<1>2. CASE inbox[k] = << >> /\ current[k] # None
  <2>1. current[k] = r /\ outbox[k] = << >>
    BY <1>2 DEF CarriesOne
  <2>2. Carries(k) = <<r>>
    BY <1>2, <2>1 DEF Carries
  <2> QED BY <2>2
<1>3. CASE inbox[k] = << >> /\ current[k] = None /\ outbox[k] # << >>
  <2>1. PICK m \in Reply : outbox[k] = <<m>>
    BY <1>3 DEF CarriesOne
  <2>2. m.to = r
    BY <1>3, <2>1
  <2>3. Carries(k) = <<r>>
    BY <1>3, <2>1, <2>2 DEF Carries
  <2> QED BY <2>3
<1>4. CASE inbox[k] = << >> /\ current[k] = None /\ outbox[k] = << >>
  BY <1>4, NothingCarried
<1> QED BY <1>1, <1>2, <1>3, <1>4

(* _RpcTransport.request and _handle_connection: a connection in use carries the request its
   client waits for and no other, so an answer is never taken for that of another call. *)
THEOREM AnswersAreOnesOwn == Spec => []InSync
<1>1. ASSUME Inv PROVE InSync
  <2>1. TypeOK /\ CarriesOne /\ ClientsSound
    BY <1>1 DEF Inv
  <2>2. SUFFICES ASSUME NEW c \in Clients, link[c] # None
                 PROVE  /\ open[link[c]] /\ \A d \in Clients \ {c} : link[d] # link[c]
                        /\ pc[c] = "waiting" => Carries(link[c]) \in {<< >>, <<Call(c)>>}
                        /\ pc[c] # "waiting" => Carries(link[c]) = << >>
    BY DEF InSync
  <2>3. open[link[c]] /\ \A d \in Clients \ {c} : link[d] # link[c]
    BY <2>1, <2>2 DEF ClientsSound
  <2>4. link[c] \in Conns
    BY <2>1, <2>2 DEF TypeOK
  <2>5. CASE pc[c] = "waiting"
    <3>1. Call(c) \in Requests
      BY <2>1, <2>5, CallType
    <3> QED BY <2>1, <2>2, <2>3, <2>4, <2>5, <3>1, OneCarried DEF ClientsSound
  <2>6. CASE pc[c] # "waiting"
    <3>1. inbox[link[c]] = << >> /\ current[link[c]] = None /\ outbox[link[c]] = << >>
      BY <2>1, <2>2, <2>6 DEF ClientsSound
    <3> QED BY <2>3, <2>6, <3>1, NothingCarried
  <2> QED BY <2>5, <2>6
<1> QED BY Invariance, <1>1, PTL

(* What a caller is told is true of the database, and nothing is applied more often than it
   was attempted, whatever times out, crashes or is sent again. *)
THEOREM CallersAreToldTheTruth == Spec => []ResultsAreTrue
<1>1. ASSUME Inv PROVE ResultsAreTrue
  <2>1. TypeOK /\ ClientsSound /\ AnswersTrue /\ AppliesBounded
    BY <1>1 DEF Inv
  <2>2. SUFFICES ASSUME NEW r \in DOMAIN op
                 PROVE  /\ outcome[r] = "ok" /\ ~ Reads(r) => Applied(r) # {}
                        /\ Attempts(r) = 1 /\ outcome[r] = "error" /\ ~ Ingests(r) => Applied(r) = {}
                        /\ Cardinality(Applied(r)) <= Attempts(r)
    BY DEF ResultsAreTrue
  <2>3. IsFiniteSet(Applied(r)) /\ Cardinality(Applied(r)) \in Nat
    BY <2>1, AppliedFinite
  <2>4. Unapplied(r) \subseteq Conns
    BY DEF Unapplied
  <2>5. Cardinality(Unapplied(r)) \in Nat
    BY <2>4, Counts
  <2>6. Sent(r) \in Nat /\ Attempts(r) \in Nat /\ Sent(r) <= Attempts(r)
    BY <2>1, SentType
  <2>7. Cardinality(Applied(r)) + Cardinality(Unapplied(r))
          + One(~ Ingests(r) /\ outcome[r] = "error") <= Attempts(r)
    BY <2>1, <2>3, <2>5, <2>6 DEF AppliesBounded, One
  <2>8. Attempts(r) = 1 /\ outcome[r] = "error" /\ ~ Ingests(r) => Cardinality(Applied(r)) = 0
    BY <2>3, <2>5, <2>7 DEF One
  <2>9. Cardinality(Applied(r)) = 0 => Applied(r) = {}
    BY <2>3, FS_EmptySet
  <2>10. Cardinality(Applied(r)) <= Attempts(r)
    BY <2>3, <2>5, <2>6, <2>7 DEF One
  <2>11. outcome[r] = "ok" /\ ~ Reads(r) => Applied(r) # {}
    BY <2>1 DEF AnswersTrue, Landed
  <2> QED BY <2>8, <2>9, <2>10, <2>11
<1> QED BY Invariance, <1>1, PTL

(* Of one client's calls that are not retried, only one reported as failed can be applied after
   a later one. *)
THEOREM AcknowledgedInOrder == Spec => []AckedInOrder
<1>1. Inv => AckedInOrder
  BY DEF Inv
<1> QED BY Invariance, <1>1, PTL
=============================================================================
