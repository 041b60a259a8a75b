------------------------- MODULE ControlLinkProofs -------------------------
(***************************************************************************)
(* Proofs about ControlLink: what a call of the client may rely on, for    *)
(* any number of sessions, requests, retries and frames on the line.       *)
(***************************************************************************)
EXTENDS ControlLink, ControlSessionProofs

-----------------------------------------------------------------------------
(* Channels, and the types of the line and the client.                     *)

\* The frames on one direction of the line.
Frames(q) == {q[i] : i \in 1 .. Len(q)}

\* Nothing but members of B follows a member of A.
Ordered(q, A, B) == \A i, j \in 1 .. Len(q) : i < j /\ q[i] \in A => q[j] \in B

\* What Append does to what is on the line, in order.
LEMMA Appended ==
    ASSUME NEW S, NEW q \in Seq(S), NEW x \in S
    PROVE  /\ Append(q, x) \in Seq(S)
           /\ Frames(Append(q, x)) = Frames(q) \cup {x}
           /\ \A A, B : Ordered(q, A, B) /\ (x \in B \/ Frames(q) \cap A = {})
                          => Ordered(Append(q, x), A, B)
<1> DEFINE n == Len(q)
<1>1. /\ Append(q, x) \in Seq(S) /\ Len(Append(q, x)) = n + 1 /\ n \in Nat
      /\ \A i \in 1 .. n : Append(q, x)[i] = q[i]
      /\ Append(q, x)[n + 1] = x
  OBVIOUS
<1>2. Frames(Append(q, x)) = Frames(q) \cup {x}
  <2> HIDE DEF n
  <2>1. 1 .. n + 1 = 1 .. n \cup {n + 1}
    BY <1>1
  <2>2. QED
    BY <1>1, <2>1 DEF Frames, n
<1>3. ASSUME NEW A, NEW B, Ordered(q, A, B), x \in B \/ Frames(q) \cap A = {}
      PROVE  Ordered(Append(q, x), A, B)
  BY <1>1, <1>3 DEF Ordered, Frames
<1>4. QED
  BY <1>1, <1>2, <1>3

\* Its halves: which frames there are ...
LEMMA AppendedFrames ==
    ASSUME NEW S, NEW q \in Seq(S), NEW x \in S, NEW q2, q2 = Append(q, x)
    PROVE  q2 \in Seq(S) /\ Frames(q2) = Frames(q) \cup {x}
BY Appended

\* ... and in which order.
LEMMA AppendedOrder ==
    ASSUME NEW S, NEW q \in Seq(S), NEW x \in S, NEW q2, q2 = Append(q, x),
           NEW A, NEW B, Ordered(q, A, B), x \in B \/ Frames(q) \cap A = {}
    PROVE  Ordered(q2, A, B)
BY Appended

\* And what Head and Tail do.
LEMMA Popped ==
    ASSUME NEW S, NEW q \in Seq(S), q /= << >>
    PROVE  /\ Tail(q) \in Seq(S) /\ Head(q) \in S
           /\ Head(q) \in Frames(q) /\ Frames(Tail(q)) \subseteq Frames(q)
           /\ \A A, B : Ordered(q, A, B) => /\ Ordered(Tail(q), A, B)
                                            /\ Head(q) \in A => Frames(Tail(q)) \subseteq B
<1>1. /\ Tail(q) \in Seq(S) /\ Head(q) \in S /\ Len(q) \in Nat /\ Len(q) >= 1
      /\ Head(q) = q[1] /\ Len(Tail(q)) = Len(q) - 1
      /\ \A i \in 1 .. Len(q) - 1 : Tail(q)[i] = q[i + 1]
  OBVIOUS
<1>2. Head(q) \in Frames(q) /\ Frames(Tail(q)) \subseteq Frames(q)
  BY <1>1 DEF Frames
<1>3. ASSUME NEW A, NEW B, Ordered(q, A, B)
      PROVE  /\ Ordered(Tail(q), A, B)
             /\ Head(q) \in A => Frames(Tail(q)) \subseteq B
  BY <1>1, <1>3 DEF Ordered, Frames
<1>4. QED
  BY <1>1, <1>2, <1>3

\* Frames are of the type they are made for.
LEMMA Members ==
    ASSUME NEW S, NEW q \in Seq(S)
    PROVE  /\ Frames(q) \subseteq S
           /\ \A x \in S : x \in {q[i] : i \in DOMAIN q} <=> x \in Frames(q)
BY DEF Frames

Client == [pc : {"idle", "hello", "request"}, session : 0 .. MaxSession,
           next_hello_id : 0 .. MaxId + 1, next_request_id : 0 .. MaxId + 1,
           frame : Frame \cup {NoFrame}, tries : 0 .. MaxTries]

\* Types of the line and the client.
LinkTypeOK ==
    /\ up \in Seq(Frame) /\ down \in Seq(Response)
    /\ client \in Client
    /\ client.pc = "idle" => client.frame = NoFrame
    /\ client.pc = "hello" => client.frame \in Hello
    /\ client.pc = "request" => client.frame \in Request /\ client.session /= 0
    /\ nonces \in 0 .. MaxNonce /\ calls \in 0 .. MaxCalls
    /\ told \subseteq Frame \X Response

\* A step of the device is a step of ControlSession.
LEMMA DeviceStep ==
    ASSUME TypeOK, up \in Seq(Frame), DeviceReads \/ DeviceFinishes \/ DeviceOther
    PROVE  Next
<1>1. CASE DeviceReads
  <2>1. Head(up) \in Frame
    BY <1>1, Popped DEF DeviceReads
  <2>2. \A f \in Hello : f.type = "hello"
    BY DEF Hello
  <2>3. \A f \in Request : f.type = "request"
    BY DEF Request
  <2>4. CASE Head(up).type = "hello" /\ Greet(Head(up))
    <3>1. Head(up) \in Hello
      BY <2>1, <2>3, <2>4 DEF Frame
    <3>2. QED
      BY <2>4, <3>1 DEF Next, Task, Receive
  <2>5. CASE Head(up).type = "request" /\ Inspect(Head(up))
    <3>1. Head(up) \in Request
      BY <2>1, <2>2, <2>5 DEF Frame
    <3>2. QED
      BY <2>5, <3>1 DEF Next, Task, Receive
  <2>6. QED
    BY <1>1, <2>4, <2>5 DEF DeviceReads, Inspect
<1>2. CASE DeviceFinishes
  BY <1>2 DEF DeviceFinishes, Next, Task
<1>3. CASE DeviceOther
  BY <1>3 DEF DeviceOther, Next, Task, Callback
<1>4. QED
  BY <1>1, <1>2, <1>3

\* The rest of the system leaves the device alone.
LEMMA LinkStep ==
    ASSUME TypeOK, up \in Seq(Frame), [LinkNext]_link_vars
    PROVE  [Next]_vars /\ TypeOK'
<1>1. CASE DeviceReads \/ DeviceFinishes \/ DeviceOther
  BY <1>1, DeviceStep, TypeStep
<1>2. CASE Host
  <2>1. UNCHANGED device
    BY <1>2 DEF Host, Connect, Call, Retry, GiveUp, Restart, Established, Answers, Unrecognised,
                Lose, Unmatched, Arrived
  <2>2. QED
    BY <2>1, TypeStep DEF device
<1>3. CASE Damaged
  BY <1>3, TypeStep DEF Damaged, device
<1>4. CASE UNCHANGED link_vars
  BY <1>4, TypeStep DEF link_vars, device
<1>5. QED
  BY <1>1, <1>2, <1>3, <1>4 DEF LinkNext

\* A write that fits puts the frame behind all others.
LEMMA PutFacts ==
    ASSUME NEW S, NEW q \in Seq(S), NEW x \in S, NEW q2, Len(q) < Capacity /\ q2 = Append(q, x)
    PROVE  q2 \in Seq(S) /\ Frames(q2) = Frames(q) \cup {x}
BY Appended

\* The client between calls.
LEMMA ReturnsType ==
    ASSUME NEW state \in Client
    PROVE  /\ Returns(state) \in Client
           /\ Returns(state).pc = "idle" /\ Returns(state).frame = NoFrame
           /\ Returns(state).session = state.session
           /\ Returns(state).next_request_id = state.next_request_id
           /\ Returns(state).next_hello_id = state.next_hello_id
<1>1. 0 \in 0 .. MaxTries /\ NoFrame \in Frame \cup {NoFrame}
  BY LineAssumption
<1>2. QED
  BY <1>1 DEF Returns, Client

\* What an arrival takes from the line.
LEMMA ArrivedFacts ==
    ASSUME LinkTypeOK, NEW r, Arrived(r)
    PROVE  /\ r \in Response /\ r \in Frames(down)
           /\ down' \in Seq(Response) /\ Frames(down') \subseteq Frames(down)
           /\ UNCHANGED <<device, up, counts>>
BY Popped DEF Arrived, LinkTypeOK

\* The reply of a step that writes one is put on the line or lost.
LEMMA RepliesType ==
    ASSUME LinkTypeOK, reply' \in Response, Replies
    PROVE  /\ down' \in Seq(Response)
           /\ Frames(down') \subseteq Frames(down) \cup {reply'}
<1>1. CASE down' = down
  BY <1>1 DEF LinkTypeOK
<1>2. CASE down' = Append(down, reply')
  BY <1>2, Appended DEF LinkTypeOK
<1>3. QED
  BY <1>1, <1>2 DEF Replies, Put

\* Every step of the client, the line and the device keeps the types.
LEMMA LinkTypeStep == TypeOK /\ LinkTypeOK /\ [LinkNext]_link_vars => LinkTypeOK'
<1> SUFFICES ASSUME TypeOK, LinkTypeOK, [LinkNext]_link_vars PROVE LinkTypeOK'
  OBVIOUS
<1>0. up \in Seq(Frame) /\ down \in Seq(Response) /\ client \in Client
  BY DEF LinkTypeOK
<1>t. TypeOK'
  BY <1>0, LinkStep
<1>1. CASE Connect
  <2> DEFINE f == [type |-> "hello", nonce |-> nonces', id |-> client.next_hello_id]
  <2>1. nonces' \in 1 .. MaxNonce /\ client.next_hello_id \in Id /\ client.next_hello_id + 1 \in 0 .. MaxId + 1
    <3>1. nonces \in 0 .. MaxNonce /\ client.next_hello_id \in 0 .. MaxId + 1
      BY <1>0 DEF LinkTypeOK, Client
    <3>2. nonces < MaxNonce /\ nonces' = nonces + 1 /\ client.next_hello_id <= MaxId
      BY <1>1 DEF Connect
    <3>3. QED
      BY <3>1, <3>2, LineAssumption, Assumptions DEF Id
  <2>2. f \in Hello /\ f \in Frame
    BY <2>1, LineAssumption DEF Hello, Frame
  <2>3. up' \in Seq(Frame)
    BY <1>1, <1>0, <2>2, PutFacts DEF Connect, Put
  <2>4. client' = [client EXCEPT !.pc = "hello", !.session = 0, !.frame = f, !.tries = 1,
                                 !.next_hello_id = client.next_hello_id + 1]
    BY <1>1 DEF Connect
  <2> HIDE DEF f
  <2>5. 1 \in 0 .. MaxTries /\ 0 \in 0 .. MaxSession
    BY LineAssumption, Assumptions
  <2>6. client' \in Client /\ client'.pc = "hello" /\ client'.frame = f
    BY <2>1, <2>2, <2>4, <2>5, <1>0 DEF Client
  <2>7. QED
    BY <1>1, <2>1, <2>2, <2>3, <2>6 DEF Connect, LinkTypeOK
<1>2. ASSUME NEW c \in Command, Call(c) PROVE LinkTypeOK'
  <2> DEFINE f == [type |-> "request", session |-> client.session,
                   id |-> client.next_request_id, command |-> c]
  <2>1. /\ client.session \in Session /\ client.next_request_id \in Id
        /\ client.next_request_id + 1 \in 0 .. MaxId + 1
    BY <1>2, <1>0, Assumptions DEF Call, Client, Id, Session
  <2>2. f \in Request /\ f \in Frame
    BY <2>1 DEF Request, Frame
  <2>3. up' \in Seq(Frame)
    BY <1>2, <1>0, <2>2, PutFacts DEF Call, Put
  <2>4. client' = [client EXCEPT !.pc = "request", !.frame = f, !.tries = 1,
                                 !.next_request_id = client.next_request_id + 1]
    BY <1>2 DEF Call
  <2> HIDE DEF f
  <2>5. 1 \in 0 .. MaxTries
    BY LineAssumption
  <2>6. /\ client' \in Client /\ client'.pc = "request" /\ client'.frame = f
        /\ client'.session = client.session
    BY <2>1, <2>2, <2>4, <2>5, <1>0 DEF Client
  <2>7. calls' \in 0 .. MaxCalls
    BY <1>2, LineAssumption DEF Call, LinkTypeOK
  <2>8. QED
    BY <1>2, <2>1, <2>2, <2>3, <2>6, <2>7 DEF Call, LinkTypeOK
<1>3. CASE Retry
  <2>1. client.frame \in Frame /\ client.tries + 1 \in 0 .. MaxTries
    BY <1>3, <1>0, LineAssumption DEF Retry, Waiting, LinkTypeOK, Client, Frame
  <2>2. up' \in Seq(Frame)
    BY <1>3, <1>0, <2>1, PutFacts DEF Retry, Put
  <2>3. client' \in Client /\ client'.pc = client.pc /\ client'.frame = client.frame
        /\ client'.session = client.session
    BY <1>3, <1>0, <2>1 DEF Retry, Client
  <2>4. QED
    BY <1>3, <2>2, <2>3 DEF Retry, LinkTypeOK, counts
<1>4. CASE GiveUp
  BY <1>4, <1>0, ReturnsType DEF GiveUp, LinkTypeOK, line, counts
<1>5. CASE Restart
  <2>1. Started \in Client
    BY LineAssumption, Assumptions DEF Started, Client
  <2>2. QED
    BY <1>5, <2>1 DEF Restart, Started, LinkTypeOK, line, counts
<1>6. ASSUME NEW r, Established(r) \/ Answers(r) \/ Unrecognised(r) \/ Lose(r) \/ Unmatched(r)
      PROVE  LinkTypeOK'
  <2>1. Arrived(r) /\ r \in Response /\ r.session \in 0 .. MaxSession
    <3>1. Arrived(r)
      BY <1>6 DEF Established, Answers, Unrecognised, Lose, Unmatched
    <3>2. r \in Response
      BY <3>1, ArrivedFacts
    <3>3. QED
      BY <3>1, <3>2, Assumptions DEF Response, Session
  <2>2. /\ client' \in Client
        /\ client'.pc = "idle" => client'.frame = NoFrame
        /\ client'.pc /= "idle" => client' = client
    <3> DEFINE Kept == /\ client' \in Client
                       /\ client'.pc = "idle" => client'.frame = NoFrame
                       /\ client'.pc /= "idle" => client' = client
    <3>0. 0 \in 0 .. MaxSession /\ 0 \in 0 .. MaxId + 1
      BY Assumptions
    <3>r. /\ Returns(client) \in Client
          /\ Returns(client).pc = "idle" /\ Returns(client).frame = NoFrame
      BY <1>0, ReturnsType
    <3>1. CASE client' = Returns(client)
      BY <3>1, <3>r
    <3>2. CASE client' = client
      BY <3>2 DEF LinkTypeOK
    <3>3. CASE client' = [Returns(client) EXCEPT !.session = r.session, !.next_request_id = 0]
      BY <3>3, <3>0, <3>r, <2>1 DEF Client
    <3>4. CASE client' = [Returns(client) EXCEPT !.session = 0]
      BY <3>4, <3>0, <3>r DEF Client
    <3>5. QED
      <4> HIDE DEF Kept
      <4>1. Established(r) => Kept
        BY <3>3 DEF Established, Kept
      <4>2. Answers(r) => Kept
        BY <3>1, <3>4 DEF Answers, Kept
      <4>3. Unrecognised(r) \/ Lose(r) \/ Unmatched(r) => Kept
        BY <3>1, <3>2, <3>4 DEF Unrecognised, Lose, Unmatched, Kept
      <4>4. QED
        BY <1>6, <4>1, <4>2, <4>3 DEF Kept
  <2>3. told' \subseteq Frame \X Response
    <3>1. client.frame \in Frame
      BY <2>1 DEF Arrived, Waiting, LinkTypeOK, Client, Frame
    <3>2. QED
      BY <3>1, <1>6, <2>1 DEF Established, Answers, Unrecognised, Lose, Unmatched, Told, LinkTypeOK
  <2>4. QED
    BY <2>1, <2>2, <2>3, ArrivedFacts DEF LinkTypeOK, counts
<1>7. CASE Damaged
  BY <1>7, Popped DEF Damaged, LinkTypeOK, counts
<1>8. CASE DeviceReads
  <2>1. up' \in Seq(Frame)
    BY <1>8, <1>0, Popped DEF DeviceReads
  <2>2. down' \in Seq(Response)
    BY <1>8, <1>0, <1>t, RepliesType DEF DeviceReads, TypeOK
  <2>3. QED
    BY <1>8, <2>1, <2>2 DEF DeviceReads, LinkTypeOK, counts
<1>9. CASE DeviceFinishes
  BY <1>9, <1>t, RepliesType DEF DeviceFinishes, TypeOK, LinkTypeOK, counts
<1>10. CASE DeviceOther
  BY <1>10 DEF DeviceOther, LinkTypeOK, line, counts
<1>11. CASE UNCHANGED link_vars
  BY <1>11 DEF link_vars, LinkTypeOK, line, counts
<1>12. QED
  BY <1>1, <1>2, <1>3, <1>4, <1>5, <1>6, <1>7, <1>8, <1>9, <1>10, <1>11 DEF LinkNext, Host

\* The client, both channels and the history keep their types.
THEOREM LinkTypeCorrect == LinkSpec => [](TypeOK /\ LinkTypeOK)
<1>1. LinkInit => TypeOK /\ LinkTypeOK
  <2> SUFFICES ASSUME LinkInit PROVE TypeOK /\ LinkTypeOK
    OBVIOUS
  <2>1. TypeOK
    BY InitType DEF LinkInit
  <2>2. Started \in Client
    BY LineAssumption, Assumptions DEF Started, Client
  <2>3. QED
    BY <2>1, <2>2, LineAssumption DEF LinkInit, LinkTypeOK, Started
<1>2. TypeOK /\ LinkTypeOK /\ [LinkNext]_link_vars => TypeOK' /\ LinkTypeOK'
  BY LinkTypeStep, LinkStep DEF LinkTypeOK
<1>3. QED
  BY <1>1, <1>2, PTL DEF LinkSpec

\* The device at the end of this line behaves as ControlSession says, so what
\* is proved there for any host holds with this client.
THEOREM DeviceCorrect == LinkSpec => Spec
<1>1. LinkInit => Init
  BY DEF LinkInit
<1>2. TypeOK /\ LinkTypeOK /\ [LinkNext]_link_vars => [Next]_vars
  BY LinkStep DEF LinkTypeOK
<1>3. QED
  BY <1>1, <1>2, LinkTypeCorrect, PTL DEF LinkSpec, Spec

-----------------------------------------------------------------------------
(* What the device says of a frame is so.                                  *)

\* A frame is a hello or a request.
LEMMA FrameKinds ==
    /\ \A f \in Hello : f.type = "hello" /\ f \in Frame /\ f \notin Request
    /\ \A f \in Request : f.type = "request" /\ f \in Frame /\ f \notin Hello
    /\ \A f \in Frame : f \in Hello \/ f \in Request
<1>1. (\A f \in Hello : f.type = "hello") /\ (\A f \in Request : f.type = "request")
  BY DEF Hello, Request
<1>2. QED
  BY <1>1 DEF Frame

\* What a response says of the frame it is about is so.
Honest(r) ==
    /\ r.session < next_owner
    /\ r.about \in Frame
    /\ r.about \in Hello => r.code /= "SESSION_MISMATCH" /\ (r.code = "ok" <=> r.session /= 0)
    /\ r.about \in Request =>
         /\ r.session \in {0, r.about.session}
         /\ r.code = "ok" => r.session /= 0
         /\ r.code = "ok" /\ r.about.command \in {"report", "action"} =>
              runs[KeyOf(r.about)] = 1

\* So it is for what the device would replay, and what it is about to write.
Truthful ==
    /\ retry_cache.kind /= "none" => Honest(retry_cache.response)
    /\ hello_cache.valid => Honest(hello_cache.response) /\ hello_cache.response.about \in Hello
    /\ \A k \in Key : runs[k] \in {0, 1}
    /\ pc = "finish" => <<work.outcome, runs[KeyOf(work.request)]>> \in Outcome(work.request.command)
    /\ retry_cache.kind = "transition" => session = 0

\* Sessions are numbered and the epoch moves upwards.
LEMMA Upwards ==
    ASSUME TypeOK, [Next]_vars
    PROVE  next_owner' >= next_owner /\ epoch' >= epoch
<1>0. next_owner \in Nat /\ epoch \in Nat
  BY Assumptions DEF TypeOK, Epoch
<1>1. next_owner' \in {next_owner, next_owner + 1}
  BY DEF Next, Task, Callback, Service, Receive, Greet, Inspect, Finish, HelloRetry, HelloConflict,
         HelloFresh, HelloExhausted, TransitionRetry, Refuse, Replay, Accept, Perform, Idle,
         FinishAccepted, FinishUncached, FinishCached, ServiceLifecycle, ServiceFailure,
         ServiceNothing, Lease, Lifecycle, Notify, ReportFailed, vars, authority, ClearAuthority,
         Serviced
<1>2. epoch' \in {epoch, epoch + 1}
  BY DEF Next, Task, Callback, Service, Receive, Greet, Inspect, Finish, HelloRetry, HelloConflict,
         HelloFresh, HelloExhausted, TransitionRetry, Refuse, Replay, Accept, Perform, Idle,
         FinishAccepted, FinishUncached, FinishCached, ServiceLifecycle, ServiceFailure,
         ServiceNothing, Lease, Lifecycle, Notify, ReportFailed, vars, Received, Finished, Serviced
<1>3. QED
  BY <1>0, <1>1, <1>2

\* Perform counts what was not performed before.
LEMMA PerformFacts ==
    ASSUME Promise, Perform
    PROVE  /\ pc = "perform" /\ pc' = "finish"
           /\ work.request \in Request /\ KeyOf(work.request) \in Key
           /\ work.request.command \in Command
           /\ runs[KeyOf(work.request)] = 0
           /\ \E o \in Outcome(work.request.command) :
                /\ work' = [work EXCEPT !.outcome = o[1]]
                /\ runs' = [runs EXCEPT ![KeyOf(work.request)] = o[2]]
                /\ o[2] \in {0, 1}
<1>1. /\ work.request \in Request /\ KeyOf(work.request) \in Key
      /\ runs[KeyOf(work.request)] = 0 /\ work.request.command \in Command
  BY Parts DEF Perform, Promise, Ledger, WorkIsNew, Working, Request
<1>2. PICK o \in Outcome(work.request.command) :
        /\ work' = [work EXCEPT !.outcome = o[1]]
        /\ runs' = [runs EXCEPT ![KeyOf(work.request)] = @ + o[2]]
  BY DEF Perform
<1>3. o[2] \in {0, 1}
  BY <1>1, <1>2, OutcomeType
<1>4. runs' = [runs EXCEPT ![KeyOf(work.request)] = o[2]]
  <2>1. runs[KeyOf(work.request)] + o[2] = o[2]
    BY <1>1, <1>3
  <2>2. QED
    BY <1>2, <2>1
<1>5. QED
  BY <1>1, <1>2, <1>3, <1>4 DEF Perform

\* Nothing else counts.
LEMMA RunsStep ==
    ASSUME [Next]_vars, ~Perform
    PROVE  runs' = runs
BY DEF Next, Task, Callback, Service, Receive, Greet, Inspect, Finish, HelloRetry, HelloConflict,
       HelloFresh, HelloExhausted, TransitionRetry, Refuse, Replay, Accept, Idle,
       FinishAccepted, FinishUncached, FinishCached, ServiceLifecycle, ServiceFailure,
       ServiceNothing, Lease, Lifecycle, Notify, ReportFailed, vars, history, Serviced

\* What is performed stays performed.
LEMMA RunsUp ==
    ASSUME Promise, Promise', [Next]_vars, NEW k \in Key
    PROVE  /\ runs[k] /= 0 => runs'[k] = runs[k]
           /\ runs[k] \in {0, 1} => runs'[k] \in {0, 1}
           /\ runs'[k] /= runs[k] => pc = "perform" /\ k = KeyOf(work.request)
<1>1. runs \in [Key -> Nat]
  BY DEF Promise, TypeOK
<1>2. QED
  BY <1>1, RunsStep, PerformFacts

\* An honest response stays honest.
LEMMA HonestStable ==
    ASSUME Promise, Promise', [Next]_vars, NEW r \in Response, Honest(r)
    PROVE  Honest(r)'
<1>1. next_owner' >= next_owner /\ next_owner \in Nat /\ next_owner' \in Nat /\ r.session \in Nat
  BY Upwards, Assumptions DEF Promise, TypeOK, Response, Session
<1>2. r.about \in Request => KeyOf(r.about) \in Key
  BY Parts DEF Promise
<1>3. QED
  BY <1>1, <1>2, RunsUp DEF Honest

\* A cached response that is replayed is still honest.
LEMMA HonestCaches ==
    ASSUME Promise, Promise', Truthful, [Next]_vars
    PROVE  /\ \A r : retry_cache.kind /= "none" /\ r = retry_cache.response =>
                r \in Response /\ Honest(r) /\ Honest(r)'
           /\ \A r : hello_cache.valid /\ r = hello_cache.response =>
                r \in Response /\ Honest(r) /\ Honest(r)'
<1>1. Completed \subseteq Response
  BY DEF Completed, Response, Code, Frame
<1>2. retry_cache.kind /= "none" => retry_cache.response \in Completed
  BY Parts DEF Promise, TypeOK, Cached, NoRetry
<1>3. hello_cache.response \in Response
  BY DEF Promise, TypeOK
<1>4. ASSUME NEW r, retry_cache.kind /= "none" /\ r = retry_cache.response
      PROVE  r \in Response /\ Honest(r)
  BY <1>1, <1>2, <1>4 DEF Truthful
<1>5. ASSUME NEW r, hello_cache.valid /\ r = hello_cache.response
      PROVE  r \in Response /\ Honest(r)
  BY <1>3, <1>5 DEF Truthful
<1>6. QED
  BY <1>4, <1>5, HonestStable

\* The reply to a frame that is answered at once.
LEMMA ReadReply ==
    ASSUME Promise, Promise', Truthful, [Next]_vars, NEW f \in Frame, NEW r, r = reply',
           \/ f \in Hello /\ Greet(f)
           \/ f \in Request /\ (TransitionRetry(f) \/ Refuse(f) \/ Replay(f))
    PROVE  r.about = f /\ r \in Response /\ Honest(r)'
<1>0. r \in Response
  BY DEF Promise, TypeOK
<1>n. /\ next_owner \in Nat /\ next_owner' \in Nat /\ next_owner >= 1
      /\ next_owner' >= next_owner
      /\ session \in Nat /\ (session /= 0 => session = next_owner - 1)
  BY Upwards, Assumptions DEF Promise, TypeOK, Ledger, Newest
<1>1. ASSUME f \in Hello, HelloRetry(f) PROVE r.about = f /\ Honest(r)'
  BY <1>1, HonestCaches DEF HelloRetry, Repeated
<1>2. ASSUME f \in Hello, HelloConflict(f) \/ HelloExhausted(f) PROVE r.about = f /\ Honest(r)'
  <2>1. r.about = f /\ r.session = 0 /\ r.code \in {"CLIENT_NONCE_CONFLICT", "INTERNAL_ERROR"}
    BY <1>2 DEF HelloConflict, HelloExhausted, Write
  <2>2. QED
    BY <1>2, <2>1, <1>n, FrameKinds DEF Honest
<1>3. ASSUME f \in Hello, HelloFresh(f) PROVE r.about = f /\ Honest(r)'
  <2>1. r.about = f /\ r.session = next_owner /\ r.code = "ok" /\ next_owner' = next_owner + 1
    BY <1>3 DEF HelloFresh, Write
  <2>2. QED
    BY <1>3, <2>1, <1>n, FrameKinds DEF Honest
<1>4. ASSUME f \in Request, TransitionRetry(f) \/ Replay(f) PROVE r.about = f /\ Honest(r)'
  <2>1. retry_cache.kind /= "none" /\ r = retry_cache.response
    BY <1>4 DEF TransitionRetry, Replay, Proven, New
  <2>2. retry_cache.response.about = f
    <3>1. CASE TransitionRetry(f)
      BY <3>1, <1>4 DEF TransitionRetry, Proven
    <3>2. CASE Replay(f)
      <4>1. /\ retry_cache.response.about \in Request
            /\ retry_cache.response.about.session = session
        BY <3>2, Parts DEF Promise, Ledger, CachesFollow, Replay, New
      <4>2. /\ f.id = retry_cache.response.about.id /\ f.session = session
            /\ f.command = retry_cache.response.about.command
        BY <3>2 DEF Replay, SameBytes, Current
      <4>3. QED
        BY <4>1, <4>2, <1>4 DEF Request
    <3>3. QED
      BY <1>4, <3>1, <3>2
  <2>3. QED
    BY <2>1, <2>2, HonestCaches
<1>5. ASSUME f \in Request, Refuse(f) PROVE r.about = f /\ Honest(r)'
  <2>1. /\ r.about = f /\ r.session \in {0, f.session} /\ r.session \in Nat
        /\ r.code \in {"SESSION_MISMATCH", "REQUEST_ID_STALE", "REQUEST_ID_CONFLICT"}
        /\ r.session < next_owner
    BY <1>5, <1>n DEF Refuse, Write, Current
  <2>2. QED
    BY <1>5, <2>1, <1>n, FrameKinds DEF Honest
<1>6. QED
  BY <1>0, <1>1, <1>2, <1>3, <1>4, <1>5 DEF Greet

\* The reply to the request at work.
LEMMA FinishReply ==
    ASSUME Promise, Promise', Truthful, [Next]_vars, Finish, NEW r, r = reply'
    PROVE  /\ work.request \in Request /\ r.about = work.request
           /\ r \in Response /\ Honest(r)'
<1>0. r \in Response
  BY DEF Promise, TypeOK
<1>n. /\ next_owner \in Nat /\ next_owner' = next_owner /\ next_owner >= 1
      /\ session \in Nat /\ (session /= 0 => session = next_owner - 1)
  BY Assumptions DEF Promise, TypeOK, Ledger, Newest, Finish, FinishAccepted, FinishUncached,
                     FinishCached, authority
<1>1. /\ pc = "finish" /\ work.request \in Request
      /\ session /= 0 /\ work.request.session = session
      /\ runs' = runs
  BY DEF Finish, FinishAccepted, FinishUncached, FinishCached, Finished, Promise, Ledger, WorkIsNew,
         Working, history
<1>2. <<work.outcome, runs[KeyOf(work.request)]>> \in Outcome(work.request.command)
  BY <1>1 DEF Truthful
<1>3. /\ r.about = work.request /\ r.session \in {0, session}
      /\ r.code = "ok" => r.session = session /\ work.outcome \in {"accepted", "done"}
  BY DEF Finish, FinishAccepted, FinishUncached, FinishCached, Write
<1>4. r.code = "ok" /\ work.request.command \in {"report", "action"} =>
        runs[KeyOf(work.request)] = 1
  BY <1>2, <1>3 DEF Outcome
<1>5. QED
  BY <1>0, <1>n, <1>1, <1>3, <1>4, FrameKinds DEF Honest

\* The device never remembers or prepares an answer that is not so.
LEMMA TruthfulStep == Promise /\ Promise' /\ Truthful /\ [Next]_vars => Truthful'
<1> SUFFICES ASSUME Promise, Promise', Truthful, [Next]_vars PROVE Truthful'
  OBVIOUS
<1>1. (retry_cache.kind /= "none" => Honest(retry_cache.response))'
  <2>1. retry_cache' = retry_cache \/ retry_cache' = NoRetry
        \/ (Finish /\ retry_cache'.response = reply')
    BY DEF Next, Task, Callback, Service, Receive, Greet, Inspect, Finish, HelloRetry,
         HelloConflict, HelloFresh, HelloExhausted, TransitionRetry, Refuse, Replay, Accept,
         Perform, Idle, FinishAccepted, FinishUncached, FinishCached, ServiceLifecycle,
         ServiceFailure, ServiceNothing, Lease, Lifecycle, Notify, ReportFailed, vars, authority,
         ClearAuthority
  <2>2. \A r : r = retry_cache'.response /\ retry_cache' = retry_cache /\ retry_cache.kind /= "none"
              => Honest(r)'
    BY HonestCaches
  <2>3. \A r : r = reply' /\ Finish => Honest(r)'
    BY FinishReply
  <2>4. QED
    BY <2>1, <2>2, <2>3 DEF NoRetry, Honest
<1>2. (hello_cache.valid => Honest(hello_cache.response) /\ hello_cache.response.about \in Hello)'
  <2>1. hello_cache' = hello_cache \/ hello_cache' = NoHello
        \/ (\E f \in Hello : HelloFresh(f) /\ hello_cache'.response = reply')
    BY DEF Next, Task, Callback, Service, Receive, Greet, Inspect, Finish, HelloRetry,
         HelloConflict, HelloFresh, HelloExhausted, TransitionRetry, Refuse, Replay, Accept,
         Perform, Idle, FinishAccepted, FinishUncached, FinishCached, ServiceLifecycle,
         ServiceFailure, ServiceNothing, Lease, Lifecycle, Notify, ReportFailed, vars, authority,
         ClearAuthority
  <2>2. \A r : r = hello_cache'.response /\ hello_cache' = hello_cache /\ hello_cache.valid
              => Honest(r)'
    BY HonestCaches
  <2>3. \A f \in Hello : \A r : r = reply' /\ HelloFresh(f) => Honest(r)' /\ r.about = f
    BY ReadReply, FrameKinds DEF Greet
  <2>4. QED
    BY <2>1, <2>2, <2>3 DEF NoHello, Honest, Truthful
<1>3. (\A k \in Key : runs[k] \in {0, 1})'
  BY RunsUp DEF Truthful
<1>4. (pc = "finish" =>
         <<work.outcome, runs[KeyOf(work.request)]>> \in Outcome(work.request.command))'
  <2>1. CASE Perform
    <3>1. work \in Work /\ runs \in [Key -> Nat]
      BY <2>1 DEF Perform, Promise, TypeOK
    <3>2. PICK o \in Outcome(work.request.command) :
            /\ work' = [work EXCEPT !.outcome = o[1]]
            /\ runs' = [runs EXCEPT ![KeyOf(work.request)] = o[2]]
      BY <2>1, PerformFacts
    <3>3. work'.request = work.request /\ work'.outcome = o[1]
      BY <3>1, <3>2 DEF Work
    <3>4. runs'[KeyOf(work.request)] = o[2]
      BY <2>1, <3>1, <3>2, PerformFacts
    <3>5. o = <<o[1], o[2]>>
      BY <2>1, PerformFacts, Assumptions DEF Outcome
    <3>6. QED
      BY <3>2, <3>3, <3>4, <3>5
  <2>2. CASE UNCHANGED <<pc, work, runs>>
    BY <2>2 DEF Truthful
  <2>3. CASE pc' /= "finish"
    BY <2>3
  <2>4. QED
    BY <2>1, <2>2, <2>3
    DEF Next, Task, Callback, Service, Receive, Greet, Inspect, Finish, HelloRetry,
         HelloConflict, HelloFresh, HelloExhausted, TransitionRetry, Refuse, Replay, Accept,
         Idle, FinishAccepted, FinishUncached, FinishCached, ServiceLifecycle,
         ServiceFailure, ServiceNothing, Lease, Lifecycle, Notify, ReportFailed, vars,
         Received, Finished, Serviced, history
<1>5. (retry_cache.kind = "transition" => session = 0)'
  <2>1. CASE UNCHANGED <<retry_cache, session>>
    BY <2>1 DEF Truthful
  <2>2. CASE session' = 0
    BY <2>2
  <2>3. CASE retry_cache'.kind /= "transition"
    BY <2>3
  <2>4. CASE FinishAccepted
    <3>1. session_epoch /= epoch
      BY <2>4 DEF FinishAccepted, Finished, Promise, Ledger, WorkIsNew, Working
    <3>2. QED
      BY <2>4, <3>1 DEF FinishAccepted
  <2>5. QED
    BY <2>1, <2>2, <2>3, <2>4
    DEF Next, Task, Callback, Service, Receive, Greet, Inspect, Finish, HelloRetry,
         HelloConflict, HelloFresh, HelloExhausted, TransitionRetry, Refuse, Replay, Accept,
         Perform, Idle, FinishUncached, FinishCached, ServiceLifecycle,
         ServiceFailure, ServiceNothing, Lease, Lifecycle, Notify, ReportFailed, vars, authority,
         ClearAuthority, NoRetry
<1>6. QED
  BY <1>1, <1>2, <1>3, <1>4, <1>5 DEF Truthful

-----------------------------------------------------------------------------
(* What is about, and what each step does to it.                           *)

\* Requests on the line, at work, or with an answer on the line.
Sent == Frames(up) \cap Request
Answering == {r.about : r \in Frames(down)} \cap Request
AtWork == IF Working THEN {work.request} ELSE {}
Around == Sent \cup Answering \cup AtWork

About(f) == {r \in Response : r.about = f}
AboutHello == {r \in Response : r.about \in Hello}

\* Connect draws a nonce and puts a hello behind all other frames.
LEMMA ConnectFacts ==
    ASSUME LinkTypeOK, LinkTypeOK', Connect
    PROVE  /\ client'.pc = "hello" /\ client'.session = 0 /\ client'.frame \in Hello
           /\ client'.frame.nonce = nonces + 1 /\ nonces' = nonces + 1
           /\ up' = Append(up, client'.frame)
           /\ UNCHANGED <<device, down, told>>
BY DEF Connect, Put, LinkTypeOK, Client

\* Call takes the next number of the session.
LEMMA CallFacts ==
    ASSUME LinkTypeOK, LinkTypeOK', NEW c \in Command, Call(c)
    PROVE  /\ client.session /= 0
           /\ client'.pc = "request" /\ client'.session = client.session
           /\ client'.frame \in Request
           /\ client'.frame.session = client.session
           /\ client'.frame.id = client.next_request_id
           /\ client'.next_request_id = client.next_request_id + 1
           /\ up' = Append(up, client'.frame)
           /\ UNCHANGED <<device, down, nonces, told>>
BY DEF Call, Put, LinkTypeOK, Client

\* Retry puts the same frame behind all others.
LEMMA RetryFacts ==
    ASSUME LinkTypeOK, Retry
    PROVE  /\ client.pc /= "idle" /\ client.frame \in Frame
           /\ client'.pc = client.pc /\ client'.session = client.session
           /\ client'.frame = client.frame /\ client'.next_request_id = client.next_request_id
           /\ up' = Append(up, client.frame)
           /\ UNCHANGED <<device, down, nonces, told>>
BY FrameKinds DEF Retry, Put, Waiting, LinkTypeOK, Client, counts

\* The device reads one frame: it answers, or it starts to work.
LEMMA ReadFacts ==
    ASSUME LinkTypeOK, Promise, Promise', Truthful, DeviceReads
    PROVE  /\ up /= << >> /\ Head(up) \in Frame /\ up' = Tail(up)
           /\ UNCHANGED <<client, counts, told>>
           /\ pc = "receive" /\ ~Working /\ runs' = runs /\ epoch' = epoch
           /\ \/ /\ ~Working'
                 /\ \/ Head(up) \in Hello /\ Greet(Head(up))
                    \/ /\ Head(up) \in Request /\ UNCHANGED authority
                       /\ TransitionRetry(Head(up)) \/ Refuse(Head(up)) \/ Replay(Head(up))
                 /\ \E r \in Response :
                      /\ r = reply' /\ r.about = Head(up) /\ Honest(r)'
                      /\ down' = down \/ down' = Append(down, r)
              \/ /\ Head(up) \in Request /\ Accept(Head(up)) /\ Working' /\ work'.request = Head(up)
                 /\ UNCHANGED <<down, authority>>
<1> DEFINE f == Head(up)
<1>1. up /= << >> /\ f \in Frame /\ up' = Tail(up) /\ UNCHANGED <<client, counts, told>>
  BY Popped DEF DeviceReads, LinkTypeOK
<1> HIDE DEF f
<1>s. [Next]_vars
  BY DeviceStep DEF LinkTypeOK, Promise
<1>2. CASE f \in Hello /\ Greet(f) /\ Replies
  <2>1. pc = "receive" /\ pc' = "again" /\ epoch' = epoch /\ runs' = runs
    BY <1>2 DEF Greet, HelloRetry, HelloConflict, HelloFresh, HelloExhausted, Received, history
  <2>2. \E r \in Response : r = reply' /\ r.about = f /\ Honest(r)'
    BY <1>2, <1>1, <1>s, ReadReply
  <2>3. QED
    BY <1>1, <1>2, <2>1, <2>2 DEF f, Working, Replies, Put
<1>3. CASE f \in Request /\ (TransitionRetry(f) \/ Refuse(f) \/ Replay(f)) /\ Replies
  <2>1. pc = "receive" /\ pc' = "again" /\ epoch' = epoch /\ runs' = runs /\ UNCHANGED authority
    BY <1>3 DEF TransitionRetry, Refuse, Replay, Received, history
  <2>2. \E r \in Response : r = reply' /\ r.about = f /\ Honest(r)'
    BY <1>3, <1>1, <1>s, ReadReply
  <2>3. QED
    BY <1>1, <1>3, <2>1, <2>2 DEF f, Working, Replies, Put
<1>4. CASE f \in Request /\ Accept(f) /\ UNCHANGED down
  <2>1. /\ pc = "receive" /\ pc' = "perform" /\ epoch' = epoch /\ runs' = runs
        /\ UNCHANGED authority /\ work'.request = f
    BY <1>4 DEF Accept, history
  <2>2. QED
    BY <1>1, <1>4, <2>1 DEF f, Working
<1>5. QED
  <2>1. (f.type = "hello" /\ f \notin Request) \/ (f.type = "request" /\ f \notin Hello)
    BY <1>1, FrameKinds
  <2>2. QED
    BY <1>1, <1>2, <1>3, <1>4, <2>1, FrameKinds DEF DeviceReads, f

\* The device ends its work with an answer to it.
LEMMA FinishFacts ==
    ASSUME LinkTypeOK, Promise, Promise', Truthful, DeviceFinishes
    PROVE  /\ UNCHANGED <<up, client, counts, told>>
           /\ pc = "finish" /\ Working /\ ~Working' /\ runs' = runs /\ epoch' = epoch
           /\ work.request \in Request /\ Finish
           /\ hello_cache' = hello_cache \/ ~hello_cache'.valid
           /\ \E r \in Response :
                /\ r = reply' /\ r.about = work.request /\ Honest(r)'
                /\ down' = down \/ down' = Append(down, r)
<1>1. Finish /\ Replies /\ UNCHANGED <<up, client, counts, told>> /\ [Next]_vars
  BY DeviceStep DEF DeviceFinishes, LinkTypeOK, Promise
<1>2. /\ pc = "finish" /\ pc' = "again" /\ runs' = runs /\ epoch' = epoch
      /\ hello_cache' = hello_cache \/ ~hello_cache'.valid
  BY <1>1 DEF Finish, FinishAccepted, FinishUncached, FinishCached, Finished, history, authority, NoHello
<1>3. \E r \in Response : r = reply' /\ r.about = work.request /\ Honest(r)'
  BY <1>1, FinishReply
<1>4. work.request \in Request
  BY <1>1, FinishReply
<1>5. QED
  BY <1>1, <1>2, <1>3, <1>4 DEF Working, Replies, Put

\* What else the device does leaves the line alone and its work in place.
LEMMA OtherFacts ==
    ASSUME DeviceOther, Promise
    PROVE  /\ UNCHANGED <<line, client, counts, told>>
           /\ Working <=> Working'
           /\ Working => work'.request = work.request
           /\ hello_cache' = hello_cache \/ ~hello_cache'.valid
           /\ runs' = runs \/ Perform
<1>1. UNCHANGED <<line, client, counts, told>>
  BY DEF DeviceOther
<1>2. CASE Perform
  <2>1. work \in Work
    BY <1>2 DEF Perform, Promise, TypeOK
  <2>2. QED
    BY <1>1, <1>2, <2>1, PerformFacts DEF Working, Perform, authority, Work
<1>3. CASE Service \/ Idle
  BY <1>1, <1>3 DEF Working, Service, Idle, ServiceLifecycle, ServiceFailure, ServiceNothing, Lease,
                    Serviced, ClearAuthority, NoHello, authority, history
<1>4. CASE Lifecycle
  BY <1>1, <1>4 DEF Working, Lifecycle, authority, history
<1>5. QED
  BY <1>2, <1>3, <1>4 DEF DeviceOther

-----------------------------------------------------------------------------
(* Hellos.                                                                 *)

\* Whatever the host does with what arrives, it takes it from the line.
LEMMA HostFacts ==
    ASSUME LinkTypeOK, NEW r,
           Established(r) \/ Answers(r) \/ Unrecognised(r) \/ Lose(r) \/ Unmatched(r)
    PROVE  /\ down /= << >> /\ r = Head(down) /\ down' = Tail(down)
           /\ client.pc /= "idle" /\ client.frame \in Frame
           /\ UNCHANGED <<device, up, nonces>>
           /\ Unmatched(r) \/ client'.pc = "idle"
           /\ Established(r) => client'.session = r.session /\ client'.next_request_id = 0
           /\ Established(r) \/ client'.session = 0
              \/ /\ client'.session = client.session
                 /\ client'.next_request_id = client.next_request_id
<1>1. Arrived(r)
  BY DEF Established, Answers, Unrecognised, Lose, Unmatched
<1>2. client.pc /= "idle" /\ client.frame \in Frame
  BY <1>1, FrameKinds DEF Arrived, Waiting, LinkTypeOK, Client
<1>3. /\ Returns(client).pc = "idle" /\ Returns(client).session = client.session
      /\ Returns(client).next_request_id = client.next_request_id
      /\ Returns(client) \in Client
  BY ReturnsType DEF LinkTypeOK
<1>4. Unmatched(r) \/ client'.pc = "idle"
  BY <1>3 DEF Established, Answers, Unrecognised, Lose, Client
<1>5. Established(r) => client'.session = r.session /\ client'.next_request_id = 0
  BY <1>3 DEF Established, Client
<1>6. \/ Established(r) \/ client'.session = 0
      \/ /\ client'.session = client.session
         /\ client'.next_request_id = client.next_request_id
  <2>1. CASE Answers(r)
    BY <2>1, <1>3 DEF Answers, Client
  <2>2. CASE Unrecognised(r) \/ Unmatched(r)
    BY <2>2, <1>3 DEF Unrecognised, Unmatched
  <2>3. CASE Lose(r)
    BY <2>3, <1>3 DEF Lose, Client
  <2>4. QED
    BY <2>1, <2>2, <2>3
<1>7. QED
  BY <1>1, <1>2, <1>4, <1>5, <1>6 DEF Arrived, counts

\* No hello on the line is of a program yet to come.
Numbered ==
    /\ \A f \in Frames(up) \cap Hello : f.nonce <= nonces
    /\ \A r \in Frames(down) \cap AboutHello : r.about.nonce <= nonces
    /\ hello_cache.valid => hello_cache.response.about.nonce <= nonces
    /\ client.pc = "hello" => client.frame.nonce = nonces
    /\ client.pc = "hello" => client.session = 0

\* A nonce is drawn once, so no step makes a hello look newer than it is.
LEMMA NumberedStep ==
    ASSUME Promise, Promise', Truthful, LinkTypeOK, LinkTypeOK', Numbered, [LinkNext]_link_vars
    PROVE  Numbered'
<1>0. /\ up \in Seq(Frame) /\ down \in Seq(Response) /\ nonces \in Nat
      /\ \A f \in Hello : f.nonce \in Nat
  BY LineAssumption DEF LinkTypeOK, Hello
<1>1. CASE Connect
  <2>1. client'.frame \in Frame /\ nonces' = nonces + 1 /\ client'.frame.nonce = nonces'
    BY <1>1, ConnectFacts, FrameKinds
  <2>2. Frames(up') = Frames(up) \cup {client'.frame}
    BY <1>0, <1>1, <2>1, ConnectFacts, AppendedFrames
  <2>3. hello_cache.valid => hello_cache.response.about.nonce \in Nat
    BY <1>0 DEF Truthful
  <2>4. \A r \in Frames(down) \cap AboutHello : r.about.nonce \in Nat
    BY <1>0 DEF AboutHello
  <2>5. UNCHANGED <<down, hello_cache>>
    BY <1>1, ConnectFacts DEF device, vars, authority
  <2>6. QED
    BY <1>0, <1>1, ConnectFacts, <2>1, <2>2, <2>3, <2>4, <2>5 DEF Numbered
<1>2. ASSUME NEW c \in Command, Call(c) PROVE Numbered'
  <2>1. client'.frame \in Frame /\ client'.frame \notin Hello
    BY <1>2, CallFacts, FrameKinds
  <2>2. Frames(up') = Frames(up) \cup {client'.frame}
    BY <1>0, <1>2, <2>1, CallFacts, AppendedFrames
  <2>3. QED
    BY <1>2, CallFacts, <2>1, <2>2 DEF Numbered, device, vars, authority
<1>3. CASE Retry
  <2>1. Frames(up') = Frames(up) \cup {client.frame}
    BY <1>0, <1>3, RetryFacts, AppendedFrames
  <2>2. client.frame \in Hello => client.pc = "hello"
    BY <1>3, RetryFacts, FrameKinds DEF LinkTypeOK, Client
  <2>3. QED
    BY <1>0, <1>3, RetryFacts, <2>1, <2>2 DEF Numbered, device, vars, authority
<1>4. CASE GiveUp \/ Restart
  <2>1. client'.pc = "idle"
    BY <1>4, ReturnsType DEF GiveUp, Restart, Started, LinkTypeOK
  <2>2. QED
    BY <1>4, <2>1 DEF GiveUp, Restart, Numbered, device, vars, authority, line, counts
<1>5. ASSUME NEW r, Established(r) \/ Answers(r) \/ Unrecognised(r) \/ Lose(r) \/ Unmatched(r)
      PROVE  Numbered'
  <2>1. Frames(down') \subseteq Frames(down) /\ UNCHANGED <<device, up, nonces>>
    BY <1>0, <1>5, HostFacts, Popped
  <2>2. client'.pc = "idle" \/ client' = client
    BY <1>5, HostFacts DEF Unmatched
  <2>3. QED
    BY <2>1, <2>2 DEF Numbered, device, vars, authority
<1>6. CASE Damaged
  <2>1. Frames(down') \subseteq Frames(down) /\ Frames(up') \subseteq Frames(up)
    BY <1>0, <1>6, Popped DEF Damaged
  <2>2. QED
    BY <1>6, <2>1 DEF Damaged, Numbered, device, vars, authority, counts
<1>7. CASE DeviceReads
  <2>1. Frames(up') \subseteq Frames(up) /\ Head(up) \in Frames(up)
    BY <1>0, <1>7, ReadFacts, Popped
  <2>2. \A r \in Frames(down') : r \in Frames(down) \/ r.about = Head(up)
    BY <1>0, <1>7, ReadFacts, AppendedFrames
  <2>3. hello_cache'.valid => \/ hello_cache' = hello_cache
                              \/ hello_cache'.response.about = Head(up) /\ Head(up) \in Hello
    BY <1>7, ReadFacts DEF Greet, HelloRetry, HelloConflict, HelloFresh, HelloExhausted, authority,
                           ClearAuthority, NoHello, Write
  <2>4. UNCHANGED <<client, nonces>>
    BY <1>7, ReadFacts DEF counts
  <2>5. QED
    BY <2>1, <2>2, <2>3, <2>4 DEF Numbered, AboutHello
<1>8. CASE DeviceFinishes
  <2>1. \A r \in Frames(down') : r \in Frames(down) \/ r.about \in Request
    BY <1>0, <1>8, FinishFacts, AppendedFrames
  <2>2. QED
    BY <1>8, <2>1, FinishFacts, FrameKinds DEF Numbered, AboutHello, counts
<1>9. CASE DeviceOther
  BY <1>9, OtherFacts DEF Numbered, line, counts
<1>10. CASE UNCHANGED link_vars
  BY <1>10 DEF link_vars, Numbered, line, counts, device, vars, authority
<1>11. QED
  BY <1>1, <1>2, <1>3, <1>4, <1>5, <1>6, <1>7, <1>8, <1>9, <1>10 DEF LinkNext, Host

Unused(s) == \A k \in Key : k[1] = s => runs[k] = 0

\* Hello h was answered: the answer is on its way, or kept for a retry.
Met(h) ==
    \/ Frames(down) \cap About(h) /= {}
    \/ hello_cache.valid /\ hello_cache.response.about = h

\* The client waits for its hello h: behind it and behind the answers to it
\* there is no request, and once it was answered there is none anywhere; the
\* session it is given was never used.
GreetingOf(h) ==
    /\ Ordered(up, {h}, Hello)
    /\ Ordered(down, About(h), AboutHello)
    /\ Met(h) => Sent = {} /\ ~Working
    /\ \A r \in Frames(down) \cap About(h) : Unused(r.session)
    /\ hello_cache.valid /\ hello_cache.response.about = h => Unused(hello_cache.response.session)

Greeting == client.pc = "hello" => GreetingOf(client.frame)

\* A session that was just made was never used.
LEMMA HelloReply ==
    ASSUME Promise, Truthful, NEW h \in Hello, Greet(h), NEW r, r = reply'
    PROVE  \/ hello_cache.valid /\ hello_cache.response.about = h /\ r = hello_cache.response
           \/ Unused(r.session)
<1>1. CASE HelloRetry(h)
  BY <1>1 DEF HelloRetry, Repeated
<1>2. CASE HelloConflict(h) \/ HelloExhausted(h)
  BY <1>2, Assumptions DEF HelloConflict, HelloExhausted, Write, Unused, Key, Session
<1>3. CASE HelloFresh(h)
  <2>1. r.session = next_owner
    BY <1>3 DEF HelloFresh, Write
  <2>2. \A k \in Key : runs[k] /= 0 => k[1] < next_owner
    BY DEF Promise, Ledger, UsedAreCached, Used
  <2>3. QED
    BY <2>1, <2>2, Assumptions DEF Unused, Promise, TypeOK
<1>4. QED
  BY <1>1, <1>2, <1>3 DEF Greet

\* A hello is cached only with the answer that was just written to it.
LEMMA HelloCacheStep ==
    ASSUME Promise, Truthful, NEW h \in Hello, Greet(h)
    PROVE  \/ hello_cache' = hello_cache
           \/ ~hello_cache'.valid
           \/ hello_cache'.response = reply' /\ reply'.about = h
BY DEF Greet, HelloRetry, HelloConflict, HelloFresh, HelloExhausted, authority, ClearAuthority,
       NoHello, Write

\* Nothing a hello has to wait behind comes up while it is on its way.
LEMMA GreetingStep ==
    ASSUME Promise, Promise', Truthful, LinkTypeOK, LinkTypeOK', Numbered, Greeting,
           [LinkNext]_link_vars
    PROVE  Greeting'
<1> SUFFICES ASSUME client'.pc = "hello", NEW h \in Hello, h = client'.frame
             PROVE  GreetingOf(h)'
  BY DEF Greeting, LinkTypeOK
<1>0. /\ up \in Seq(Frame) /\ down \in Seq(Response) /\ nonces \in Nat
      /\ h \in Frame /\ h \notin Request /\ h.nonce \in Nat
  BY LineAssumption, FrameKinds DEF LinkTypeOK, Hello
<1>k. client' = client => GreetingOf(h)
  BY DEF Greeting
<1>1. CASE Connect
  <2>1. h.nonce = nonces + 1
    BY <1>1, ConnectFacts
  <2>2. UNCHANGED <<down, hello_cache, runs, pc, work>> /\ up' = Append(up, h)
    BY <1>1, ConnectFacts DEF device, vars, authority, history
  <2>3. Frames(up) \cap {h} = {}
    BY <1>0, <2>1 DEF Numbered
  <2>4. Frames(down) \cap About(h) = {} /\ ~Met(h)
    BY <1>0, <2>1 DEF Numbered, About, AboutHello, Met
  <2>5. Ordered(up, {h}, Hello) /\ Ordered(down, About(h), AboutHello)
    BY <2>3, <2>4 DEF Ordered, Frames
  <2>6. Ordered(up', {h}, Hello)
    BY <1>0, <2>2, <2>5, AppendedOrder
  <2>7. QED
    BY <2>2, <2>4, <2>5, <2>6 DEF GreetingOf, Met
<1>2. ASSUME NEW c \in Command, Call(c) PROVE FALSE
  BY <1>2, CallFacts
<1>3. CASE Retry
  <2>1. client.pc = "hello" /\ client.frame = h
    BY <1>3, RetryFacts
  <2>2. UNCHANGED <<down, hello_cache, runs, pc, work>> /\ up' = Append(up, h)
    BY <1>3, <2>1, RetryFacts DEF device, vars, authority, history
  <2>3. GreetingOf(h)
    BY <2>1 DEF Greeting
  <2>4. Ordered(up', {h}, Hello)
    BY <1>0, <2>2, <2>3, AppendedOrder DEF GreetingOf
  <2>5. Frames(up') = Frames(up) \cup {h}
    <3>1. up' = Append(up, h) /\ up \in Seq(Frame) /\ h \in Frame
      BY <1>0, <2>2
    <3>2. Frames(Append(up, h)) = Frames(up) \cup {h}
      BY <3>1, Appended
    <3>3. QED
      BY <3>1, <3>2
  <2>6. Sent' = Sent /\ Working' = Working
    BY <1>0, <2>2, <2>5 DEF Sent, Working
  <2>7. QED
    BY <2>2, <2>3, <2>4, <2>6 DEF GreetingOf, Unused, Met
<1>4. CASE GiveUp \/ Restart
  BY <1>4, ReturnsType DEF GiveUp, Restart, Started, LinkTypeOK
<1>5. ASSUME UNCHANGED <<client, runs>>,
             \/ hello_cache' = hello_cache
             \/ ~hello_cache'.valid,
             Ordered(up, {h}, Hello) => Ordered(up', {h}, Hello),
             Ordered(down, About(h), AboutHello) => Ordered(down', About(h), AboutHello),
             Frames(up') \subseteq Frames(up),
             Frames(down') \cap About(h) \subseteq Frames(down) \cap About(h),
             Met(h) /\ Working' => Working
      PROVE  GreetingOf(h)'
  <2>1. Sent' \subseteq Sent
    BY <1>5 DEF Sent
  <2>2. Met(h)' => Met(h)
    BY <1>5 DEF Met
  <2>3. GreetingOf(h)
    BY <1>5, <1>k
  <2>4. (Met(h) => Sent = {} /\ ~Working)'
    BY <1>5, <2>1, <2>2, <2>3 DEF GreetingOf
  <2>5. (\A r \in Frames(down) \cap About(h) : Unused(r.session))'
    BY <1>5, <2>3 DEF GreetingOf, Unused
  <2>6. QED
    BY <1>5, <2>3, <2>4, <2>5 DEF GreetingOf, Unused
<1>6. ASSUME NEW r, Established(r) \/ Answers(r) \/ Unrecognised(r) \/ Lose(r) \/ Unmatched(r)
      PROVE  GreetingOf(h)'
  <2>1. client' = client /\ UNCHANGED <<device, up>> /\ down /= << >> /\ down' = Tail(down)
    BY <1>6, HostFacts DEF Unmatched
  <2>2. UNCHANGED <<runs, hello_cache, pc, work>> /\ Working' = Working
    BY <2>1 DEF device, vars, authority, history, Working
  <2>3. Frames(down') \subseteq Frames(down)
    BY <1>0, <2>1, Popped
  <2>4. Ordered(down, About(h), AboutHello) => Ordered(down', About(h), AboutHello)
    BY <1>0, <2>1, Popped
  <2>5. QED
    BY <1>5, <2>1, <2>2, <2>3, <2>4
<1>7. CASE Damaged
  <2>1. UNCHANGED <<client, runs, hello_cache, pc, work>> /\ Working' = Working
    BY <1>7 DEF Damaged, device, vars, authority, history, Working
  <2>2. /\ Frames(up') \subseteq Frames(up) /\ Frames(down') \subseteq Frames(down)
    <3>1. CASE up /= << >> /\ up' = Tail(up) /\ UNCHANGED down
      BY <1>0, <3>1, Popped
    <3>2. CASE down /= << >> /\ down' = Tail(down) /\ UNCHANGED up
      BY <1>0, <3>2, Popped
    <3>3. QED
      BY <1>7, <3>1, <3>2 DEF Damaged
  <2>3. /\ Ordered(up, {h}, Hello) => Ordered(up', {h}, Hello)
        /\ Ordered(down, About(h), AboutHello) => Ordered(down', About(h), AboutHello)
    <3>1. CASE up /= << >> /\ up' = Tail(up) /\ UNCHANGED down
      BY <1>0, <3>1, Popped
    <3>2. CASE down /= << >> /\ down' = Tail(down) /\ UNCHANGED up
      BY <1>0, <3>2, Popped
    <3>3. QED
      BY <1>7, <3>1, <3>2 DEF Damaged
  <2>4. QED
    BY <1>5, <2>1, <2>2, <2>3
<1>8. CASE DeviceReads
  <2> DEFINE f == Head(up)
  <2>0. /\ client' = client /\ up /= << >> /\ up' = Tail(up)
        /\ f \in Frame /\ f \in Frames(up) /\ ~Working /\ runs' = runs
        /\ Frames(up') \subseteq Frames(up)
    BY <1>0, <1>8, ReadFacts, Popped
  <2>1. GreetingOf(h)
    BY <2>0, <1>k
  <2>2. Ordered(up', {h}, Hello) /\ (f = h => Frames(up') \subseteq Hello)
    BY <1>0, <2>0, <2>1, Popped DEF GreetingOf
  <2>3. Sent' \subseteq Sent /\ (f = h => Sent' = {}) /\ (f \in Request => f \in Sent)
    BY <2>0, <2>2, FrameKinds DEF Sent
  <2>4. CASE f \in Request /\ Accept(f) /\ UNCHANGED <<down, authority>>
    <3>1. ~Met(h)
      BY <2>1, <2>3, <2>4 DEF GreetingOf
    <3>2. UNCHANGED <<down, hello_cache>>
      BY <2>4 DEF authority
    <3>3. Frames(down') = Frames(down) /\ ~Met(h)'
      BY <3>1, <3>2 DEF Frames, Met
    <3>4. QED
      BY <2>0, <2>1, <2>2, <3>2, <3>3 DEF GreetingOf, Met
  <2>5. ASSUME ~Working', NEW r \in Response, r = reply', r.about = f,
               down' = down \/ down' = Append(down, r),
               \/ f \in Hello /\ Greet(f)
               \/ f \in Request /\ UNCHANGED authority
        PROVE  GreetingOf(h)'
    <3>1. Frames(down') \subseteq Frames(down) \cup {r}
      BY <1>0, <2>5, AppendedFrames
    <3>2. Ordered(down', About(h), AboutHello)
      <4>1. r \in AboutHello \/ Frames(down) \cap About(h) = {}
        BY <2>1, <2>3, <2>5 DEF AboutHello, GreetingOf, Met
      <4>2. QED
        BY <1>0, <2>1, <2>5, <4>1, AppendedOrder DEF GreetingOf
    <3>3. \/ hello_cache' = hello_cache
          \/ ~hello_cache'.valid
          \/ hello_cache'.response = r /\ f \in Hello /\ Greet(f)
      BY <2>5, HelloCacheStep DEF authority
    <3>4. Met(h)' => f = h \/ Met(h)
      <4>1. Frames(down') \cap About(h) /= {} => f = h \/ Frames(down) \cap About(h) /= {}
        BY <2>5, <3>1 DEF About
      <4>2. hello_cache'.valid /\ hello_cache'.response.about = h =>
                f = h \/ (hello_cache.valid /\ hello_cache.response.about = h)
        BY <2>5, <3>3
      <4>3. QED
        BY <4>1, <4>2 DEF Met
    <3>5. Met(h)' => Sent' = {} /\ ~Working'
      BY <2>1, <2>3, <2>5, <3>4 DEF GreetingOf
    <3>6. f = h => Unused(r.session)
      <4> SUFFICES ASSUME f = h PROVE Unused(r.session)
        OBVIOUS
      <4>1. Greet(h)
        BY <1>0, <2>5
      <4> HIDE DEF f
      <4>2. \/ hello_cache.valid /\ hello_cache.response.about = h /\ r = hello_cache.response
            \/ Unused(r.session)
        BY <2>5, <4>1, HelloReply
      <4>3. QED
        BY <2>1, <4>2 DEF GreetingOf
    <3> HIDE DEF f
    <3>7. \A x \in Frames(down') \cap About(h) : Unused(x.session)
      <4>1. \A x \in Frames(down) \cap About(h) : Unused(x.session)
        BY <2>1 DEF GreetingOf
      <4>2. r \in About(h) => Unused(r.session)
        BY <2>5, <3>6 DEF About
      <4>3. QED
        BY <3>1, <4>1, <4>2
    <3>8. hello_cache'.valid /\ hello_cache'.response.about = h => Unused(hello_cache'.response.session)
      BY <2>1, <2>5, <3>3, <3>6 DEF GreetingOf
    <3>9. (\A x \in Frames(down) \cap About(h) : Unused(x.session))'
      BY <2>0, <3>7 DEF Unused
    <3>10. (hello_cache.valid /\ hello_cache.response.about = h => Unused(hello_cache.response.session))'
      BY <2>0, <3>8 DEF Unused
    <3>11. QED
      BY <2>2, <3>2, <3>5, <3>9, <3>10 DEF GreetingOf
  <2>6. QED
    BY <1>8, <2>4, <2>5, ReadFacts
<1>9. CASE DeviceFinishes
  <2>1. PICK r \in Response : r.about \in Request /\ (down' = down \/ down' = Append(down, r))
    BY <1>9, FinishFacts
  <2>2. /\ UNCHANGED <<client, up, runs>> /\ Working /\ ~Working'
        /\ hello_cache' = hello_cache \/ ~hello_cache'.valid
    BY <1>9, FinishFacts
  <2>3. ~Met(h)
    BY <2>2, <1>k DEF GreetingOf
  <2>4. Frames(down) \cap About(h) = {} /\ r \notin About(h)
    BY <2>1, <2>3, <1>0 DEF Met, About
  <2>5. Ordered(down, About(h), AboutHello) => Ordered(down', About(h), AboutHello)
    BY <1>0, <2>1, <2>4, AppendedOrder
  <2>6. Frames(down') \cap About(h) \subseteq Frames(down) \cap About(h)
    BY <1>0, <2>1, <2>4, AppendedFrames
  <2>7. QED
    BY <1>5, <2>2, <2>5, <2>6
<1>10. CASE DeviceOther
  <2>1. /\ UNCHANGED <<line, client>> /\ (Working <=> Working')
        /\ hello_cache' = hello_cache \/ ~hello_cache'.valid
        /\ runs' = runs \/ Perform
    BY <1>10, OtherFacts
  <2>2. Perform => Working
    BY DEF Perform, Working
  <2>3. UNCHANGED <<up, down>>
    BY <2>1 DEF line
  <2>4. CASE runs' = runs
    BY <1>5, <2>1, <2>3, <2>4
  <2>5. CASE Working
    <3>1. ~Met(h) /\ GreetingOf(h)
      BY <2>1, <2>5, <1>k DEF GreetingOf
    <3>2. ~Met(h)'
      BY <2>1, <2>3, <3>1 DEF Met
    <3>3. QED
      BY <2>3, <3>1, <3>2 DEF GreetingOf, Met
  <2>6. QED
    BY <2>1, <2>2, <2>4, <2>5
<1>11. CASE UNCHANGED link_vars
  <2>1. UNCHANGED <<client, up, down, runs, hello_cache, pc, work>> /\ Working' = Working
    BY <1>11 DEF link_vars, line, counts, device, vars, authority, history, Working
  <2>2. QED
    BY <1>5, <2>1
<1>12. QED
  BY <1>1, <1>2, <1>3, <1>4, <1>6, <1>7, <1>8, <1>9, <1>10, <1>11 DEF LinkNext, Host

-----------------------------------------------------------------------------
(* Answers on their way, requests that are about.                          *)

\* What is on its way to the host, and what callers learned, is so.
Delivered ==
    /\ \A r \in Frames(down) : Honest(r)
    /\ \A t \in told : Honest(t[2])

\* No step makes an answer untrue that was true when it was written.
LEMMA DeliveredStep ==
    ASSUME Promise, Promise', Truthful, LinkTypeOK, LinkTypeOK', Delivered, [LinkNext]_link_vars
    PROVE  Delivered'
<1>0. up \in Seq(Frame) /\ down \in Seq(Response) /\ told \subseteq Frame \X Response
  BY DEF LinkTypeOK
<1>1. [Next]_vars
  BY LinkStep DEF Promise, LinkTypeOK
<1>2. (\A r \in Frames(down) : r \in Response /\ Honest(r)') /\ (\A t \in told : Honest(t[2])')
  <2>1. Frames(down) \subseteq Response /\ (\A t \in told : t[2] \in Response)
    BY <1>0, Members
  <2>2. \A r \in Response : Honest(r) => Honest(r)'
    BY <1>1, HonestStable
  <2>3. QED
    BY <2>1, <2>2 DEF Delivered
<1>3. ASSUME \A r \in Frames(down') : r \in Frames(down) \/ Honest(r)',
             \A t \in told' : t \in told \/ t[2] \in Frames(down)
      PROVE  Delivered'
  BY <1>2, <1>3 DEF Delivered
<1>4. CASE Connect \/ (\E c \in Command : Call(c)) \/ Retry
  <2>1. UNCHANGED <<down, told>>
    BY <1>4 DEF Connect, Call, Retry
  <2>2. QED
    BY <1>3, <2>1
<1>5. CASE GiveUp \/ Restart
  BY <1>3, <1>5 DEF GiveUp, Restart, line
<1>6. ASSUME NEW r, Established(r) \/ Answers(r) \/ Unrecognised(r) \/ Lose(r) \/ Unmatched(r)
      PROVE  Delivered'
  <2>1. Frames(down') \subseteq Frames(down) /\ r \in Frames(down)
    <3>1. down /= << >> /\ r = Head(down) /\ down' = Tail(down)
      BY <1>6, HostFacts
    <3>2. QED
      BY <1>0, <3>1, Popped
  <2>2. told' = told \/ told' = told \cup {<<client.frame, r>>}
    BY <1>6 DEF Established, Answers, Unrecognised, Lose, Unmatched, Told
  <2>3. \A t \in told' : t \in told \/ t[2] = r
    BY <2>2
  <2>4. QED
    BY <1>3, <2>1, <2>3
<1>7. CASE Damaged
  <2>1. Frames(down') \subseteq Frames(down) /\ told' = told
    BY <1>0, <1>7, Popped DEF Damaged
  <2>2. QED
    BY <1>3, <2>1
<1>8. CASE DeviceReads
  <2>1. CASE down' = down
    BY <1>3, <1>8, <2>1, ReadFacts
  <2>2. ASSUME NEW r \in Response, Honest(r)', down' = Append(down, r) PROVE Delivered'
    <3>1. Frames(Append(down, r)) = Frames(down) \cup {r}
      BY <1>0, Appended
    <3>2. QED
      BY <1>3, <1>8, <2>2, <3>1, ReadFacts
  <2>3. QED
    BY <1>8, <2>1, <2>2, ReadFacts
<1>9. CASE DeviceFinishes
  <2>1. CASE down' = down
    BY <1>3, <1>9, <2>1, FinishFacts
  <2>2. ASSUME NEW r \in Response, Honest(r)', down' = Append(down, r) PROVE Delivered'
    <3>1. Frames(Append(down, r)) = Frames(down) \cup {r}
      BY <1>0, Appended
    <3>2. QED
      BY <1>3, <1>9, <2>2, <3>1, FinishFacts
  <2>3. QED
    BY <1>9, <2>1, <2>2, FinishFacts
<1>10. CASE DeviceOther
  BY <1>3, <1>10 DEF DeviceOther, line
<1>11. CASE UNCHANGED link_vars
  BY <1>3, <1>11 DEF link_vars, line
<1>12. QED
  BY <1>4, <1>5, <1>6, <1>7, <1>8, <1>9, <1>10, <1>11 DEF LinkNext, Host

\* Steps of all but a client that writes.
Quiet ==
    \/ GiveUp \/ Restart \/ Damaged \/ DeviceReads \/ DeviceFinishes \/ DeviceOther
    \/ UNCHANGED link_vars
    \/ \E r : Established(r) \/ Answers(r) \/ Unrecognised(r) \/ Lose(r) \/ Unmatched(r)

\* No request comes about but by the client's writes.
LEMMA AroundShrinks ==
    ASSUME Promise, Promise', Truthful, LinkTypeOK, LinkTypeOK', Quiet
    PROVE  Around' \subseteq Around
<1>0. up \in Seq(Frame) /\ down \in Seq(Response)
  BY DEF LinkTypeOK
<1>1. ASSUME Frames(up') \subseteq Frames(up), Frames(down') \subseteq Frames(down),
             Working' => Working /\ work'.request = work.request
      PROVE  Around' \subseteq Around
  <2>1. Sent' \subseteq Sent /\ Answering' \subseteq Answering
    BY <1>1 DEF Sent, Answering
  <2>2. AtWork' \subseteq AtWork
    BY <1>1 DEF AtWork
  <2>3. QED
    BY <2>1, <2>2 DEF Around
<1>2. CASE GiveUp \/ Restart \/ UNCHANGED link_vars
  BY <1>1, <1>2 DEF GiveUp, Restart, link_vars, line, device, vars, Working
<1>3. ASSUME NEW r, Established(r) \/ Answers(r) \/ Unrecognised(r) \/ Lose(r) \/ Unmatched(r)
      PROVE  Around' \subseteq Around
  <2>1. Frames(down') \subseteq Frames(down) /\ UNCHANGED <<device, up>>
    BY <1>0, <1>3, HostFacts, Popped
  <2>2. QED
    BY <1>1, <2>1 DEF device, vars, Working
<1>4. CASE Damaged
  <2>1. Frames(up') \subseteq Frames(up) /\ Frames(down') \subseteq Frames(down)
    <3>1. CASE up /= << >> /\ up' = Tail(up) /\ UNCHANGED down
      BY <1>0, <3>1, Popped
    <3>2. CASE down /= << >> /\ down' = Tail(down) /\ UNCHANGED up
      BY <1>0, <3>2, Popped
    <3>3. QED
      BY <1>4, <3>1, <3>2 DEF Damaged
  <2>2. UNCHANGED device
    BY <1>4 DEF Damaged
  <2>3. QED
    BY <1>1, <2>1, <2>2 DEF device, vars, Working
<1>5. CASE DeviceReads
  <2> DEFINE f == Head(up)
  <2>1. Frames(up') \subseteq Frames(up) /\ f \in Frames(up) /\ ~Working
    BY <1>0, <1>5, ReadFacts, Popped
  <2>2. \/ ~Working' /\ \E r \in Response : r.about = f /\ (down' = down \/ down' = Append(down, r))
        \/ f \in Request /\ Working' /\ work'.request = f /\ down' = down
    BY <1>5, ReadFacts
  <2> HIDE DEF f
  <2>3. Sent' \subseteq Sent /\ (f \in Request => f \in Sent)
    BY <2>1 DEF Sent
  <2>4. Answering' \subseteq Answering \cup {g \in Request : g = f}
    <3>1. CASE down' = down
      BY <3>1 DEF Answering
    <3>2. ASSUME NEW r \in Response, r.about = f, down' = Append(down, r)
          PROVE  Answering' \subseteq Answering \cup {g \in Request : g = f}
      <4>1. Frames(Append(down, r)) = Frames(down) \cup {r}
        BY <1>0, Appended
      <4>2. QED
        BY <3>2, <4>1 DEF Answering
    <3>3. QED
      BY <2>2, <3>1, <3>2
  <2>5. AtWork' \subseteq {g \in Request : g = f}
    BY <2>2 DEF AtWork
  <2>6. QED
    BY <2>3, <2>4, <2>5 DEF Around
<1>6. CASE DeviceFinishes
  <2>1. up' = up /\ Working /\ ~Working' /\ work.request \in Request
    BY <1>6, FinishFacts
  <2>2. \E r \in Response : r.about = work.request /\ (down' = down \/ down' = Append(down, r))
    BY <1>6, FinishFacts
  <2>3. Answering' \subseteq Answering \cup {work.request}
    <3>1. CASE down' = down
      BY <3>1 DEF Answering
    <3>2. ASSUME NEW r \in Response, r.about = work.request, down' = Append(down, r)
          PROVE  Answering' \subseteq Answering \cup {work.request}
      <4>1. Frames(Append(down, r)) = Frames(down) \cup {r}
        BY <1>0, Appended
      <4>2. QED
        BY <3>2, <4>1 DEF Answering
    <3>3. QED
      BY <2>2, <3>1, <3>2
  <2>4. Sent' = Sent /\ AtWork' = {} /\ AtWork = {work.request}
    BY <2>1 DEF Sent, AtWork
  <2>5. QED
    BY <2>3, <2>4 DEF Around
<1>7. CASE DeviceOther
  BY <1>1, <1>7, OtherFacts DEF line
<1>8. QED
  BY <1>2, <1>3, <1>4, <1>5, <1>6, <1>7 DEF Quiet

\* A write adds what it writes.
LEMMA AroundGrows ==
    ASSUME LinkTypeOK, NEW f \in Frame, up' = Append(up, f), UNCHANGED <<device, down>>
    PROVE  Around' = Around \cup ({f} \cap Request)
<1>1. Frames(Append(up, f)) = Frames(up) \cup {f}
  BY Appended DEF LinkTypeOK
<1>2. Sent' = Sent \cup ({f} \cap Request)
  BY <1>1 DEF Sent
<1>3. Answering' = Answering /\ AtWork' = AtWork
  BY DEF Answering, AtWork, Working, device, vars
<1>4. QED
  BY <1>2, <1>3 DEF Around

-----------------------------------------------------------------------------
(* Sessions of the client.                                                 *)

\* While the client has session s and next numbers a request n, no other
\* request is about, none with a number to come, and none was performed.
Own(s, n) ==
    /\ \A g \in Around : g.session = s /\ g.id < n
    /\ \A k \in Key : k[1] = s /\ k[2] >= n => runs[k] = 0

\* The call f of the client is one of these, and the only one of its number.
Alone(f, s, n) ==
    /\ f.session = s /\ f.id < n
    /\ \A g \in Around : g.id = f.id => g = f

Connected ==
    client.session /= 0 =>
      /\ client.session < next_owner
      /\ Own(client.session, client.next_request_id)
      /\ client.pc = "request" => Alone(client.frame, client.session, client.next_request_id)

\* A hello that is answered finds nothing about, in a session never used.
LEMMA EstablishedFacts ==
    ASSUME LinkTypeOK, LinkTypeOK', Promise, Promise', Truthful, Delivered, Greeting,
           NEW r, Established(r)
    PROVE  /\ r.session < next_owner /\ client'.session = r.session
           /\ Around' = {} /\ Unused(r.session) /\ UNCHANGED <<runs, next_owner>>
<1> DEFINE h == client.frame
<1>0. up \in Seq(Frame) /\ down \in Seq(Response)
  BY DEF LinkTypeOK
<1>1. /\ down /= << >> /\ r = Head(down) /\ down' = Tail(down) /\ client'.session = r.session
      /\ UNCHANGED <<device, up>>
  BY HostFacts
<1>2. r \in Response /\ r \in Frames(down) /\ Frames(down') \subseteq Frames(down)
  BY <1>0, <1>1, Popped
<1>3. client.pc = "hello" /\ h \in Hello /\ GreetingOf(h) /\ Honest(r)
  BY <1>2 DEF Established, Greeted, LinkTypeOK, Greeting, Delivered
<1>4. r.about = h
  <2>1. r.about.type = "hello" /\ r.about.nonce = h.nonce /\ r.about.id = h.id
    BY DEF Established, Greeted, Correlated
  <2>2. r.about \in Hello
    BY <1>3, <2>1, FrameKinds DEF Honest
  <2>3. QED
    BY <1>3, <2>1, <2>2 DEF Hello
<1> HIDE DEF h
<1>5. r \in Frames(down) \cap About(h)
  BY <1>2, <1>4 DEF About
<1>6. Sent = {} /\ ~Working /\ Unused(r.session)
  BY <1>3, <1>5 DEF GreetingOf, Met
<1>7. Frames(down') \subseteq AboutHello
  BY <1>0, <1>1, <1>3, <1>5, Popped DEF GreetingOf
<1>8. Sent' = {} /\ AtWork' = {} /\ Answering' = {}
  BY <1>1, <1>6, <1>7, FrameKinds DEF Sent, AtWork, Working, Answering, AboutHello, device, vars
<1>9. QED
  BY <1>1, <1>3, <1>6, <1>8 DEF Around, Honest, device, vars, authority, history

\* The numbers of a session stay its own.
LEMMA ConnectedStep ==
    ASSUME Promise, Promise', Truthful, LinkTypeOK, LinkTypeOK', Numbered, Delivered, Greeting,
           Connected, [LinkNext]_link_vars
    PROVE  Connected'
<1> SUFFICES ASSUME client'.session /= 0 PROVE Connected'
  BY DEF Connected
<1>s. [Next]_vars
  BY LinkStep DEF Promise, LinkTypeOK
<1>n. /\ next_owner' >= next_owner /\ next_owner \in Nat /\ next_owner' \in Nat
      /\ client.session \in Nat /\ client'.session \in Nat
      /\ client.next_request_id \in Nat /\ client'.next_request_id \in Nat
  <2>1. TypeOK /\ TypeOK' /\ client \in Client /\ client' \in Client
    BY DEF Promise, LinkTypeOK
  <2>2. next_owner' >= next_owner /\ next_owner \in Nat /\ next_owner' \in Nat
    BY <1>s, <2>1, Upwards, Assumptions DEF TypeOK
  <2>3. QED
    BY <2>1, <2>2, Assumptions DEF Client
<1>r. Around \subseteq Request
  BY DEF Around, Sent, Answering, AtWork, Promise, Ledger, WorkIsNew
<1>i. \A g \in Request : g.id \in Nat
  BY Parts DEF Promise
<1>1. ASSUME client'.session = client.session, client'.next_request_id = client.next_request_id,
             client'.pc = "request" => client'.frame = client.frame /\ client.pc = "request",
             Around' \subseteq Around
      PROVE  Connected'
  <2> DEFINE s == client.session
             n == client.next_request_id
  <2>1. s /= 0 /\ s < next_owner /\ Own(s, n) /\ (client.pc = "request" => Alone(client.frame, s, n))
    BY <1>1 DEF Connected
  <2>2. \A k \in Key : runs'[k] /= runs[k] => k[1] = s /\ k[2] < n
    <3> SUFFICES ASSUME NEW k \in Key, runs'[k] /= runs[k] PROVE k[1] = s /\ k[2] < n
      OBVIOUS
    <3>1. pc = "perform" /\ k = KeyOf(work.request)
      BY <1>s, RunsUp
    <3>2. work.request \in Around
      BY <3>1 DEF Around, AtWork, Working
    <3>3. QED
      BY <2>1, <3>1, <3>2 DEF Own, KeyOf
  <2>3. \A k \in Key : k[1] = s /\ k[2] >= n => runs'[k] = 0
    <3>1. (\A k \in Key : k[2] \in Nat) /\ n \in Nat
      BY <1>n, Assumptions DEF Key, Id
    <3> HIDE DEF s, n
    <3>2. \A k \in Key : k[1] = s /\ k[2] >= n => runs[k] = 0 /\ ~(k[2] < n)
      BY <2>1, <3>1 DEF Own
    <3>3. QED
      BY <2>2, <3>2
  <2>4. s = client'.session /\ n = client'.next_request_id
    BY <1>1
  <2> HIDE DEF s, n
  <2>5. Own(client.session, client.next_request_id)'
    BY <1>1, <2>1, <2>3, <2>4 DEF Own
  <2>6. client'.pc = "request" => Alone(client.frame, client.session, client.next_request_id)'
    BY <1>1, <2>1, <2>4 DEF Alone
  <2>7. QED
    BY <1>n, <2>1, <2>4, <2>5, <2>6 DEF Connected
<1>2. CASE Connect
  BY <1>2, ConnectFacts
<1>3. ASSUME NEW c \in Command, Call(c) PROVE Connected'
  <2> DEFINE s == client.session
             n == client.next_request_id
             f == client'.frame
  <2>1. /\ s /= 0 /\ client'.session = s /\ f \in Request /\ f.session = s /\ f.id = n
        /\ client'.next_request_id = n + 1 /\ up' = Append(up, f) /\ UNCHANGED <<device, down>>
    BY <1>3, CallFacts
  <2>2. s < next_owner /\ Own(s, n)
    BY <2>1 DEF Connected
  <2>3. n \in Nat /\ f \in Frame
    BY <1>n, <2>1, FrameKinds
  <2> HIDE DEF s, n, f
  <2>4. Around' = Around \cup {f}
    BY <2>1, <2>3, AroundGrows
  <2>5. \A g \in Around' : g.session = s /\ g.id < n + 1 /\ (g.id = n => g = f)
    BY <1>r, <1>i, <2>1, <2>2, <2>3, <2>4 DEF Own
  <2>6. \A k \in Key : k[1] = s /\ k[2] >= n + 1 => runs'[k] = 0
    <3>1. \A k \in Key : k[2] \in Nat
      BY Assumptions DEF Key, Id
    <3>2. runs' = runs
      BY <2>1 DEF device, vars, history
    <3>3. QED
      BY <2>2, <2>3, <3>1, <3>2 DEF Own
  <2>7. next_owner' = next_owner
    BY <2>1 DEF device, vars, authority
  <2>8. f = client'.frame
    BY DEF f
  <2>9. n < n + 1
    BY <2>3
  <2>10. QED
    BY <2>1, <2>2, <2>5, <2>6, <2>7, <2>8, <2>9 DEF Connected, Own, Alone
<1>4. CASE Retry
  <2> DEFINE f == client.frame
  <2>1. /\ client.pc /= "idle" /\ f \in Frame /\ client'.pc = client.pc
        /\ client'.session = client.session /\ client'.frame = f
        /\ client'.next_request_id = client.next_request_id
        /\ up' = Append(up, f) /\ UNCHANGED <<device, down>>
    BY <1>4, RetryFacts
  <2>2. client.pc = "request" /\ f \in Request
    BY <2>1 DEF Numbered, LinkTypeOK, Client
  <2>3. /\ client.session < next_owner /\ Own(client.session, client.next_request_id)
        /\ Alone(f, client.session, client.next_request_id)
    BY <2>1, <2>2 DEF Connected
  <2> HIDE DEF f
  <2>4. Around' = Around \cup {f}
    BY <2>1, <2>2, AroundGrows
  <2>5. UNCHANGED <<runs, next_owner>>
    BY <2>1 DEF device, vars, history, authority
  <2>6. QED
    BY <2>1, <2>3, <2>4, <2>5 DEF Connected, Own, Alone
<1>5. ASSUME NEW r, Established(r) PROVE Connected'
  <2>1. /\ r.session < next_owner /\ client'.session = r.session /\ Around' = {}
        /\ Unused(r.session) /\ UNCHANGED <<runs, next_owner>> /\ client'.pc = "idle"
    BY <1>5, EstablishedFacts, HostFacts DEF Unmatched, Established
  <2>2. QED
    BY <2>1 DEF Connected, Own, Unused
<1>6. CASE GiveUp \/ Restart
  <2>1. client' = Returns(client)
    BY <1>6 DEF GiveUp, Restart, Started
  <2>2. /\ client'.pc = "idle" /\ client'.session = client.session
        /\ client'.next_request_id = client.next_request_id
    BY <2>1, ReturnsType DEF LinkTypeOK
  <2>3. Around' \subseteq Around
    BY <1>6, AroundShrinks DEF Quiet
  <2>4. QED
    BY <1>1, <2>2, <2>3
<1>7. ASSUME NEW r, Answers(r) \/ Unrecognised(r) \/ Lose(r) \/ Unmatched(r), ~Established(r)
      PROVE  Connected'
  <2>1. Around' \subseteq Around
    BY <1>7, AroundShrinks DEF Quiet
  <2>2. /\ client'.session = client.session /\ client'.next_request_id = client.next_request_id
        /\ Unmatched(r) \/ client'.pc = "idle"
    BY <1>7, HostFacts
  <2>3. Unmatched(r) => client' = client
    BY DEF Unmatched
  <2>4. QED
    BY <1>1, <2>1, <2>2, <2>3
<1>8. CASE Damaged \/ DeviceReads \/ DeviceFinishes \/ DeviceOther \/ UNCHANGED link_vars
  <2>1. Around' \subseteq Around
    BY <1>8, AroundShrinks DEF Quiet
  <2>2. client' = client
    BY <1>8 DEF Damaged, DeviceReads, DeviceFinishes, DeviceOther, link_vars
  <2>3. QED
    BY <1>1, <2>1, <2>2
<1>9. QED
  BY <1>2, <1>3, <1>4, <1>5, <1>6, <1>7, <1>8 DEF LinkNext, Host

-----------------------------------------------------------------------------
(* The call it waits for.                                                  *)

\* Request f was not performed and no session is left in which it could be.
Dead(f) ==
    /\ f.session < next_owner
    /\ session = f.session => session_epoch /= epoch
    /\ Working => KeyOf(work.request) /= KeyOf(f)
    /\ runs[KeyOf(f)] = 0

\* Work is taken up only by accepting a request.
LEMMA WorkStep ==
    ASSUME [Next]_vars, Working'
    PROVE  \/ Working /\ work'.request = work.request
           \/ \E g \in Request : Accept(g) /\ work'.request = g
<1>1. CASE Perform
  BY <1>1 DEF Perform, Working
<1>2. CASE \E g \in Request : Accept(g)
  BY <1>2 DEF Accept
<1>3. CASE UNCHANGED <<pc, work>>
  BY <1>3 DEF Working
<1>4. CASE pc' \notin {"perform", "finish"}
  BY <1>4 DEF Working
<1>5. QED
  BY <1>1, <1>2, <1>3, <1>4
  DEF Next, Task, Callback, Service, Receive, Greet, Inspect, Finish, HelloRetry, HelloConflict,
      HelloFresh, HelloExhausted, TransitionRetry, Refuse, Replay, Idle, FinishAccepted,
      FinishUncached, FinishCached, ServiceLifecycle, ServiceFailure, ServiceNothing, Lease,
      Lifecycle, Notify, ReportFailed, vars, Received, Finished, Serviced

\* A session ends, or is the one that was just made.
LEMMA SessionStep ==
    ASSUME [Next]_vars
    PROVE  \/ UNCHANGED <<session, session_epoch>>
           \/ session' = 0
           \/ session' = next_owner
BY DEF Next, Task, Callback, Service, Receive, Greet, Inspect, Finish, HelloRetry, HelloConflict,
       HelloFresh, HelloExhausted, TransitionRetry, Refuse, Replay, Accept, Perform, Idle,
       FinishAccepted, FinishUncached, FinishCached, ServiceLifecycle, ServiceFailure,
       ServiceNothing, Lease, Lifecycle, Notify, ReportFailed, vars, authority, ClearAuthority

\* Nothing brings it back.
LEMMA DeadStable ==
    ASSUME Promise, Promise', [Next]_vars, NEW f \in Request, Dead(f)
    PROVE  Dead(f)'
<1>0. /\ epoch \in Nat /\ epoch' \in Nat /\ session_epoch \in Nat /\ next_owner \in Nat
      /\ next_owner' \in Nat /\ session_epoch <= epoch
      /\ epoch' >= epoch /\ next_owner' >= next_owner
      /\ f.session \in Nat /\ f.session /= 0 /\ KeyOf(f) \in Key
  <2>1. TypeOK /\ TypeOK' /\ Newest
    BY DEF Promise, Ledger
  <2>2. f.session \in Session /\ KeyOf(f) \in Key
    BY <2>1, Parts
  <2>3. f.session \in Nat /\ f.session /= 0
    BY <2>2, Assumptions DEF Session
  <2>4. epoch' >= epoch /\ next_owner' >= next_owner
    BY <2>1, Upwards
  <2>5. QED
    BY <2>1, <2>2, <2>3, <2>4, Assumptions DEF TypeOK, Newest, Epoch
<1>1. (f.session < next_owner)'
  BY <1>0 DEF Dead
<1>2. (session = f.session => session_epoch /= epoch)'
  BY <1>0, SessionStep DEF Dead
<1>3. (Working => KeyOf(work.request) /= KeyOf(f))'
  <2>1. ASSUME NEW g \in Request, Accept(g) PROVE KeyOf(g) /= KeyOf(f)
    BY <2>1 DEF Accept, Current, Dead, KeyOf
  <2>2. QED
    BY <2>1, WorkStep DEF Dead
<1>4. runs'[KeyOf(f)] = 0
  <2>1. pc = "perform" => Working
    BY DEF Working
  <2>2. QED
    BY <1>0, <2>1, RunsUp DEF Dead
<1>5. QED
  BY <1>1, <1>2, <1>3, <1>4 DEF Dead

Accepted(f) == pc = "finish" /\ work.request = f /\ work.outcome = "accepted"

\* A transition that happened can be proven to its client.
Shown(f) == runs[KeyOf(f)] /= 0 /\ f.command = "transition" => Proven(f) \/ Accepted(f)

\* Only a new session drops the proof of a transition, and the answer to a
\* request of another session cannot replace it.
LEMMA ShownStep ==
    ASSUME Promise, Promise', Truthful, [Next]_vars, NEW f \in Request, Shown(f),
           Working /\ KeyOf(work.request) = KeyOf(f) => work.request = f,
           runs[KeyOf(f)] /= 0 => \A h \in Hello : ~HelloFresh(h)
    PROVE  Shown(f)'
<1> SUFFICES ASSUME runs'[KeyOf(f)] /= 0, f.command = "transition"
             PROVE  Proven(f)' \/ Accepted(f)'
  BY DEF Shown
<1>0. KeyOf(f) \in Key
  BY Parts DEF Promise
<1>1. CASE Perform
  <2>1. PICK o \in Outcome(work.request.command) :
          /\ work' = [work EXCEPT !.outcome = o[1]]
          /\ runs' = [runs EXCEPT ![KeyOf(work.request)] = o[2]]
    BY <1>1, PerformFacts
  <2>2. /\ pc = "perform" /\ pc' = "finish" /\ work \in Work /\ runs \in [Key -> Nat]
        /\ retry_cache' = retry_cache
    BY <1>1 DEF Perform, Promise, TypeOK, authority
  <2>3. CASE KeyOf(work.request) = KeyOf(f)
    <3>1. work.request = f
      BY <2>2, <2>3 DEF Working
    <3>2. o[2] /= 0
      BY <1>0, <2>1, <2>2, <3>1
    <3>3. o[1] = "accepted"
      BY <2>1, <3>1, <3>2 DEF Outcome
    <3>4. QED
      BY <2>1, <2>2, <3>1, <3>3 DEF Accepted, Work
  <2>4. CASE KeyOf(work.request) /= KeyOf(f)
    <3>1. runs[KeyOf(f)] /= 0
      BY <1>0, <2>1, <2>2, <2>4
    <3>2. QED
      BY <2>2, <3>1 DEF Shown, Accepted, Proven
  <2>5. QED
    BY <2>3, <2>4
<1>2. CASE ~Perform
  <2>0. runs[KeyOf(f)] /= 0 /\ (Proven(f) \/ Accepted(f))
    BY <1>2, RunsStep DEF Shown
  <2>1. CASE Finish
    <3>1. Working /\ pc = "finish" /\ session /= 0
      BY <2>1 DEF Finish, FinishAccepted, FinishUncached, FinishCached, Finished, Working, Promise,
                  Ledger, WorkIsNew
    <3>2. Accepted(f)
      BY <2>0, <3>1 DEF Proven, Truthful
    <3>3. ~Lost /\ work.outcome = "accepted"
      BY <3>2 DEF Accepted, Lost
    <3>4. FinishAccepted
      BY <2>1, <3>3 DEF Finish, FinishUncached, FinishCached
    <3>5. QED
      BY <3>2, <3>4 DEF FinishAccepted, Accepted, Proven, Write
  <2>2. CASE ~Finish
    <3>1. retry_cache' = retry_cache \/ (retry_cache.kind = "normal" /\ retry_cache' = NoRetry)
      BY <1>2, <2>0, <2>2
      DEF Next, Task, Callback, Service, Receive, Greet, Inspect, HelloRetry, HelloConflict,
          HelloExhausted, TransitionRetry, Refuse, Replay, Accept, Idle, ServiceLifecycle,
          ServiceFailure, ServiceNothing, Lease, Lifecycle, Notify, ReportFailed, vars, authority,
          ClearAuthority
    <3>2. Proven(f) => Proven(f)'
      BY <3>1 DEF Proven
    <3>3. Accepted(f) => UNCHANGED <<pc, work>>
      BY <1>2, <2>2
      DEF Accepted, Next, Task, Callback, Service, Receive, Greet, Inspect, HelloRetry,
          HelloConflict, HelloFresh, HelloExhausted, TransitionRetry, Refuse, Replay, Accept, Idle,
          ServiceLifecycle, ServiceFailure, ServiceNothing, Lease, Lifecycle, Notify, ReportFailed,
          vars, Received, Serviced
    <3>4. QED
      BY <2>0, <3>2, <3>3 DEF Accepted
  <2>3. QED
    BY <2>1, <2>2
<1>3. QED
  BY <1>1, <1>2

Refuses(r, f) ==
    r.about = f /\ f.command = "transition" /\ r.session = 0 /\ r.code = "SESSION_MISMATCH"

Taken(f) == runs[KeyOf(f)] /= 0 \/ f \in AtWork

\* The client waits for an answer to f: no hello is behind it on the line, or
\* on the line at all once the device took it; if it was a transition, its
\* proof is kept until then; a refusal of it is final.
PendingOf(f) ==
    /\ Ordered(up, {f}, Request)
    /\ Taken(f) => Frames(up) \subseteq Request
    /\ Shown(f)
    /\ \A r \in Frames(down) : Refuses(r, f) => Dead(f)

Pending == client.pc = "request" => PendingOf(client.frame)

\* A transition is refused only when no session is left to perform it in, and
\* when it was not performed: its proof would have been found first.
LEMMA RefusedDead ==
    ASSUME Promise, Truthful, NEW f \in Request, NEW r, r = reply', Refuses(r, f),
           f.session < next_owner, Shown(f), KeyOf(f) \in Key,
           TransitionRetry(f) \/ Refuse(f) \/ Replay(f) \/ Finish
    PROVE  Dead(f)'
<1>1. CASE Finish
  <2>1. /\ pc = "finish" /\ r.about = work.request
    BY <1>1 DEF Finish, FinishAccepted, FinishUncached, FinishCached, Finished, Write
  <2>2. work.request = f /\ work.request.command = "transition"
    BY <2>1 DEF Refuses
  <2>3. <<work.outcome, runs[KeyOf(f)]>> \in Outcome("transition")
    BY <2>1, <2>2 DEF Truthful
  <2>4. work.outcome \in {"accepted", "done", "failed"}
    BY <2>3 DEF Outcome
  <2>5. ~Lost
    BY <2>2, <2>4 DEF Lost
  <2>6. r.code \in {"ok", "failed"}
    BY <1>1, <2>4, <2>5 DEF Finish, FinishAccepted, FinishUncached, FinishCached, Write
  <2>7. QED
    BY <2>6 DEF Refuses
<1>2. CASE TransitionRetry(f) \/ Replay(f)
  <2>1. retry_cache.kind /= "none" /\ r = retry_cache.response
    BY <1>2 DEF TransitionRetry, Replay, Proven, New
  <2>2. r.code \in {"ok", "failed"}
    BY <2>1, Parts DEF Promise, Cached, Completed
  <2>3. QED
    BY <2>2 DEF Refuses
<1>3. CASE Refuse(f)
  <2>1. /\ ~Proven(f) /\ ~Current(f) /\ pc = "receive" /\ pc' = "again"
        /\ UNCHANGED <<epoch, session, session_epoch, next_owner, runs>>
    BY <1>3 DEF Refuse, Refuses, Write, Current, Received, authority, history
  <2>2. runs[KeyOf(f)] = 0
    BY <2>1 DEF Shown, Accepted, Refuses
  <2>3. f.session /= 0
    BY Assumptions DEF Request, Session
  <2>4. QED
    BY <2>1, <2>2, <2>3 DEF Dead, Current, Working
<1>4. QED
  BY <1>1, <1>2, <1>3

\* A session starts only with a hello that is read.
LEMMA FreshIsRead ==
    ASSUME LinkTypeOK, Promise, Promise', Truthful, NEW h \in Hello, HelloFresh(h),
           DeviceReads \/ DeviceFinishes \/ DeviceOther
    PROVE  DeviceReads /\ Head(up) \in Hello
<1>1. pc = "receive" /\ pc' = "again" /\ reply'.about = h
  BY DEF HelloFresh, Received, Write
<1>2. ~DeviceFinishes
  BY <1>1, FinishFacts
<1>3. ~DeviceOther
  <2>1. ~Service /\ ~Idle /\ ~Perform
    BY <1>1 DEF Service, ServiceLifecycle, ServiceFailure, ServiceNothing, Serviced, Lease, Idle,
                Perform
  <2>2. ~Lifecycle
    BY <1>1 DEF Lifecycle
  <2>3. QED
    BY <2>1, <2>2 DEF DeviceOther
<1>4. DeviceReads
  BY <1>2, <1>3
<1>5. ~Accept(Head(up))
  BY <1>1 DEF Accept
<1>6. Head(up) \in Frame /\ \E r \in Response : r = reply' /\ r.about = Head(up)
  BY <1>4, <1>5, ReadFacts
<1>7. QED
  BY <1>1, <1>4, <1>6

\* Old refusals stay final.
LEMMA RefusalsStable ==
    ASSUME Promise, Promise', [Next]_vars, NEW f \in Request,
           \A r \in Frames(down) : Refuses(r, f) => Dead(f)
    PROVE  \A r \in Frames(down) : Refuses(r, f) => Dead(f)'
BY DeadStable

\* What the client waits for stays so, whatever the device does next.
LEMMA PendingAtDevice ==
    ASSUME Promise, Promise', Truthful, LinkTypeOK, LinkTypeOK', NEW f \in Request,
           PendingOf(f), f.session < next_owner, \A g \in Around : g.id = f.id => g = f,
           DeviceReads \/ DeviceFinishes \/ DeviceOther
    PROVE  PendingOf(f)'
<1>0. up \in Seq(Frame) /\ down \in Seq(Response) /\ KeyOf(f) \in Key /\ [Next]_vars
  BY DeviceStep, Parts DEF LinkTypeOK, Promise
<1>w. Working /\ KeyOf(work.request) = KeyOf(f) => work.request = f
  BY DEF Around, AtWork, KeyOf
<1>1. Shown(f)'
  <2>1. ASSUME runs[KeyOf(f)] /= 0, NEW h \in Hello, HelloFresh(h) PROVE FALSE
    <3>1. Frames(up) \subseteq Request
      BY <2>1 DEF PendingOf, Taken
    <3>2. DeviceReads /\ Head(up) \in Hello
      BY <2>1, FreshIsRead
    <3>3. up /= << >>
      BY <3>2 DEF DeviceReads
    <3>4. Head(up) \in Frames(up)
      BY <1>0, <3>3, Popped
    <3>5. QED
      BY <3>1, <3>2, <3>4, FrameKinds
  <2>2. QED
    BY <1>0, <1>w, <2>1, ShownStep DEF PendingOf
<1>2. CASE DeviceReads
  <2> DEFINE g == Head(up)
  <2>1. up /= << >> /\ up' = Tail(up) /\ g \in Frame /\ runs' = runs /\ ~Working
    BY <1>2, ReadFacts
  <2>2. /\ Ordered(up', {f}, Request) /\ Frames(up') \subseteq Frames(up)
        /\ g = f => Frames(up') \subseteq Request
    BY <1>0, <2>1, Popped DEF PendingOf
  <2>3. \/ /\ ~Working'
           /\ (g \in Hello \/ TransitionRetry(g) \/ Refuse(g) \/ Replay(g))
           /\ \E r \in Response : r = reply' /\ r.about = g /\ (down' = down \/ down' = Append(down, r))
        \/ work'.request = g /\ down' = down
    BY <1>2, ReadFacts
  <2> HIDE DEF g
  <2>4. (Taken(f) => Frames(up) \subseteq Request)'
    <3>1. f \in AtWork' => g = f
      BY <2>3 DEF AtWork
    <3>2. QED
      BY <2>1, <2>2, <3>1 DEF PendingOf, Taken
  <2>5. \A r \in Frames(down) : Refuses(r, f) => Dead(f)'
    BY <1>0, RefusalsStable DEF PendingOf
  <2>6. \A r \in Frames(down') : Refuses(r, f) => Dead(f)'
    <3>1. CASE down' = down
      BY <2>5, <3>1
    <3>2. ASSUME NEW r \in Response, r = reply', r.about = g, down' = Append(down, r),
                 g \in Hello \/ TransitionRetry(g) \/ Refuse(g) \/ Replay(g)
          PROVE  \A q \in Frames(down') : Refuses(q, f) => Dead(f)'
      <4>1. Frames(Append(down, r)) = Frames(down) \cup {r}
        BY <1>0, Appended
      <4>2. Refuses(r, f) => Dead(f)'
        <5> SUFFICES ASSUME Refuses(r, f) PROVE Dead(f)'
          OBVIOUS
        <5>1. g = f /\ f \notin Hello
          BY <3>2, FrameKinds DEF Refuses
        <5>2. TransitionRetry(f) \/ Refuse(f) \/ Replay(f)
          BY <3>2, <5>1
        <5>3. QED
          BY <1>0, <3>2, <5>2, RefusedDead DEF PendingOf
      <4>3. QED
        BY <2>5, <3>2, <4>1, <4>2
    <3>3. QED
      BY <2>3, <3>1, <3>2
  <2>7. QED
    BY <1>1, <2>2, <2>4, <2>6 DEF PendingOf
<1>3. CASE DeviceFinishes
  <2>1. up' = up /\ runs' = runs /\ ~Working' /\ Finish
    BY <1>3, FinishFacts
  <2>2. (Ordered(up, {f}, Request) /\ (Taken(f) => Frames(up) \subseteq Request))'
    BY <2>1 DEF PendingOf, Taken, AtWork
  <2>3. \A r \in Frames(down) : Refuses(r, f) => Dead(f)'
    BY <1>0, RefusalsStable DEF PendingOf
  <2>4. \A r \in Frames(down') : Refuses(r, f) => Dead(f)'
    <3>1. PICK r \in Response : r = reply' /\ (down' = down \/ down' = Append(down, r))
      BY <1>3, FinishFacts
    <3>2. Frames(Append(down, r)) = Frames(down) \cup {r}
      BY <1>0, Appended
    <3>3. Refuses(r, f) => Dead(f)'
      BY <1>0, <2>1, <3>1, RefusedDead DEF PendingOf
    <3>4. QED
      BY <2>3, <3>1, <3>2, <3>3
  <2>5. QED
    BY <1>1, <2>2, <2>4 DEF PendingOf
<1>4. CASE DeviceOther
  <2>1. /\ UNCHANGED <<up, down>> /\ (Working <=> Working')
        /\ Working => work'.request = work.request
    BY <1>4, OtherFacts DEF line
  <2>2. Taken(f)' => Taken(f)
    <3>1. f \in AtWork' => f \in AtWork
      BY <2>1 DEF AtWork
    <3>2. runs'[KeyOf(f)] /= runs[KeyOf(f)] => f \in AtWork
      BY <1>0, <1>w, RunsUp DEF AtWork, Working
    <3>3. QED
      BY <3>1, <3>2 DEF Taken
  <2>3. (Ordered(up, {f}, Request) /\ (Taken(f) => Frames(up) \subseteq Request))'
    BY <2>1, <2>2 DEF PendingOf
  <2>4. \A r \in Frames(down) : Refuses(r, f) => Dead(f)'
    BY <1>0, RefusalsStable DEF PendingOf
  <2>5. QED
    BY <1>1, <2>1, <2>3, <2>4 DEF PendingOf
<1>5. QED
  BY <1>2, <1>3, <1>4

\* Nor does it matter what the line loses and what the client reads.
LEMMA PendingElsewhere ==
    ASSUME NEW f \in Request, PendingOf(f), UNCHANGED device,
           Ordered(up', {f}, Request),
           Frames(up') \subseteq Frames(up) \cup Request, Frames(down') \subseteq Frames(down)
    PROVE  PendingOf(f)'
<1>1. Taken(f)' = Taken(f) /\ Dead(f)' = Dead(f) /\ Shown(f)' = Shown(f)
  BY DEF Taken, AtWork, Working, Dead, Shown, Proven, Accepted, device, vars, history, authority
<1>2. QED
  BY <1>1 DEF PendingOf

\* Every step keeps what holds of the call the client waits for.
LEMMA PendingStep ==
    ASSUME Promise, Promise', Truthful, LinkTypeOK, LinkTypeOK', Connected, Pending,
           [LinkNext]_link_vars
    PROVE  Pending'
<1> SUFFICES ASSUME client'.pc = "request", NEW f \in Request, f = client'.frame
             PROVE  PendingOf(f)'
  BY DEF Pending, LinkTypeOK
<1>0. up \in Seq(Frame) /\ down \in Seq(Response) /\ f \in Frame /\ f \notin Hello
  BY FrameKinds DEF LinkTypeOK
<1>k. client' = client => /\ PendingOf(f) /\ f.session < next_owner
                          /\ \A g \in Around : g.id = f.id => g = f
  BY DEF Pending, Connected, LinkTypeOK, Alone
<1>1. CASE Connect
  BY <1>1, ConnectFacts
<1>2. ASSUME NEW c \in Command, Call(c) PROVE PendingOf(f)'
  <2>1. /\ client.session /= 0 /\ f.session = client.session /\ f.id = client.next_request_id
        /\ up' = Append(up, f) /\ UNCHANGED <<device, down>>
    BY <1>2, CallFacts
  <2>2. Own(f.session, f.id) /\ f.session < next_owner
    BY <2>1 DEF Connected
  <2>3. f \notin Around
    <3>1. f.id \in Nat
      BY Parts DEF Promise
    <3>2. QED
      BY <2>2, <3>1 DEF Own
  <2>4. runs[KeyOf(f)] = 0
    <3>1. KeyOf(f) \in Key /\ f.id \in Nat
      BY Parts DEF Promise
    <3>2. QED
      BY <2>2, <3>1 DEF Own, KeyOf
  <2>5. ~Taken(f)' /\ Shown(f)'
    BY <2>1, <2>3, <2>4 DEF Taken, Around, AtWork, Working, Shown, device, vars, history
  <2>6. Frames(up) \cap {f} = {} /\ \A r \in Frames(down) : r.about /= f
    BY <2>3 DEF Around, Sent, Answering
  <2>7. Ordered(up', {f}, Request)
    <3>1. Ordered(up, {f}, Request)
      BY <2>6 DEF Ordered, Frames
    <3>2. QED
      BY <1>0, <2>1, <3>1, AppendedOrder
  <2>8. QED
    BY <2>1, <2>5, <2>6, <2>7 DEF PendingOf, Refuses
<1>3. CASE Retry
  <2>1. client.pc = "request" /\ client.frame = f /\ up' = Append(up, f) /\ UNCHANGED <<device, down>>
    BY <1>3, RetryFacts
  <2>2. PendingOf(f)
    BY <2>1 DEF Pending
  <2>3. Ordered(up', {f}, Request)
    BY <1>0, <2>1, <2>2, AppendedOrder DEF PendingOf
  <2>4. Frames(Append(up, f)) = Frames(up) \cup {f}
    BY <1>0, Appended
  <2>5. QED
    BY <2>1, <2>2, <2>3, <2>4, PendingElsewhere
<1>4. CASE GiveUp \/ Restart
  BY <1>4, ReturnsType DEF GiveUp, Restart, Started, LinkTypeOK
<1>5. ASSUME NEW r, Established(r) \/ Answers(r) \/ Unrecognised(r) \/ Lose(r) \/ Unmatched(r)
      PROVE  PendingOf(f)'
  <2>1. client' = client /\ UNCHANGED <<device, up>> /\ down /= << >> /\ down' = Tail(down)
    BY <1>5, HostFacts DEF Unmatched
  <2>2. Frames(down') \subseteq Frames(down)
    BY <1>0, <2>1, Popped
  <2>3. PendingOf(f) /\ Ordered(up', {f}, Request) /\ Frames(up') = Frames(up)
    BY <1>k, <2>1 DEF PendingOf
  <2>4. QED
    BY <2>1, <2>2, <2>3, PendingElsewhere
<1>6. CASE Damaged
  <2>1. client' = client /\ UNCHANGED device /\ PendingOf(f)
    BY <1>6, <1>k DEF Damaged
  <2>2. /\ Ordered(up', {f}, Request)
        /\ Frames(up') \subseteq Frames(up) /\ Frames(down') \subseteq Frames(down)
    <3>1. CASE up /= << >> /\ up' = Tail(up) /\ UNCHANGED down
      BY <1>0, <2>1, <3>1, Popped DEF PendingOf
    <3>2. CASE down /= << >> /\ down' = Tail(down) /\ UNCHANGED up
      BY <1>0, <2>1, <3>2, Popped DEF PendingOf
    <3>3. QED
      BY <1>6, <3>1, <3>2 DEF Damaged
  <2>3. QED
    BY <2>1, <2>2, PendingElsewhere
<1>7. CASE DeviceReads \/ DeviceFinishes \/ DeviceOther
  <2>1. client' = client
    BY <1>7 DEF DeviceReads, DeviceFinishes, DeviceOther
  <2>2. QED
    BY <1>k, <1>7, <2>1, PendingAtDevice
<1>8. CASE UNCHANGED link_vars
  <2>1. UNCHANGED <<client, device, up, down>>
    BY <1>8 DEF link_vars, line
  <2>2. PendingOf(f) /\ Ordered(up', {f}, Request) /\ Frames(up') = Frames(up) /\ Frames(down') = Frames(down)
    BY <1>k, <2>1 DEF PendingOf
  <2>3. QED
    BY <2>1, <2>2, PendingElsewhere
<1>9. QED
  BY <1>1, <1>2, <1>3, <1>4, <1>5, <1>6, <1>7, <1>8 DEF LinkNext, Host

-----------------------------------------------------------------------------
(* What callers learn.                                                     *)

\* What a caller with frame f learned from response r.
LearnedOf(f, r) ==
    /\ f \in Hello => r.code = "SESSION_MISMATCH"
    /\ r.code = "ok" => r.session /= 0
    /\ f \in Request /\ (r.session /= 0 => f.command /= "query") => r.about = f
    /\ f \in Request /\ r.about = f /\ f.command = "transition" /\ r.session = 0 => Dead(f)

Learned == \A t \in told : LearnedOf(t[1], t[2])

\* A client learns nothing but from an answer to what it asked.
LEMMA LearnedStep ==
    ASSUME Promise, Promise', Truthful, LinkTypeOK, LinkTypeOK', Delivered, Connected, Pending,
           Learned, [LinkNext]_link_vars
    PROVE  Learned'
<1>0. up \in Seq(Frame) /\ down \in Seq(Response) /\ told \subseteq Frame \X Response
  BY DEF LinkTypeOK
<1>1. \A t \in told : LearnedOf(t[1], t[2])'
  <2>1. [Next]_vars
    BY LinkStep DEF Promise, LinkTypeOK
  <2>2. \A f \in Request : Dead(f) => Dead(f)'
    BY <2>1, DeadStable
  <2>3. QED
    BY <2>2 DEF Learned, LearnedOf
<1>2. ASSUME told' = told PROVE Learned'
  BY <1>1, <1>2 DEF Learned
<1>3. ASSUME NEW r, Answers(r) \/ Lose(r) PROVE Learned'
  <2> DEFINE f == client.frame
  <2>1. /\ Arrived(r) /\ told' = told \cup {<<f, r>>} /\ Correlated(r)
        /\ \/ client.pc = "request" /\ r.session = client.session /\ Recognised(r)
           \/ r.code = "SESSION_MISMATCH"
    BY <1>3 DEF Answers, Lose, Told, Satisfied, SessionLost
  <2>2. r \in Response /\ r \in Frames(down) /\ UNCHANGED device
    BY <2>1, ArrivedFacts
  <2>3. Honest(r) /\ r.about \in Frame
    BY <2>2 DEF Delivered, Honest
  <2>4. /\ client.pc = "hello" => f \in Hello /\ f \notin Request
        /\ client.pc = "request" => f \in Request /\ f \notin Hello /\ client.session /= 0
        /\ client.pc \in {"hello", "request"}
    BY <2>1, FrameKinds DEF LinkTypeOK, Client, Arrived, Waiting
  <2>5. f \in Request /\ r.about \in Request => r.about = f
    <3> SUFFICES ASSUME f \in Request, r.about \in Request PROVE r.about = f
      OBVIOUS
    <3>1. r.about \in Around
      BY <2>2 DEF Around, Answering
    <3>2. client.session /= 0 /\ client.pc = "request"
      BY <2>4
    <3>3. QED
      BY <2>1, <3>1, <3>2 DEF Connected, Alone, Correlated
  <2>6. f \in Request /\ (r.session /= 0 => f.command /= "query") => r.about \in Request
    <3> SUFFICES ASSUME f \in Request, r.session /= 0 => f.command /= "query", r.about \in Hello
                 PROVE FALSE
      BY <2>3, FrameKinds
    <3>1. r.code /= "SESSION_MISMATCH" /\ (r.code = "ok" <=> r.session /= 0)
      BY <2>3 DEF Honest
    <3>2. r.session /= 0 /\ Recognised(r)
      BY <2>1, <2>4, <3>1
    <3>3. r.about.type = "hello"
      BY FrameKinds
    <3>4. QED
      BY <3>1, <3>2, <3>3 DEF Recognised
  <2>7. r.code = "ok" => r.session /= 0
    BY <2>3, FrameKinds DEF Honest
  <2>8. f \in Request /\ r.about = f /\ f.command = "transition" /\ r.session = 0 => Dead(f)
    <3> SUFFICES ASSUME f \in Request, r.about = f, f.command = "transition", r.session = 0
                 PROVE Dead(f)
      OBVIOUS
    <3>1. client.pc = "request" /\ PendingOf(f)
      BY <2>4 DEF Pending
    <3>2. r.code = "SESSION_MISMATCH"
      BY <2>1, <2>4
    <3>3. QED
      BY <2>2, <3>1, <3>2 DEF PendingOf, Refuses
  <2>9. \A g \in {f} : Dead(g) => Dead(g)'
    BY <2>2 DEF Dead, Working, device, vars, authority, history
  <2>10. f \in Hello => r.code = "SESSION_MISMATCH"
    BY <2>1, <2>4
  <2>11. \A g : g = f => LearnedOf(g, r)'
    BY <2>5, <2>6, <2>7, <2>8, <2>9, <2>10 DEF LearnedOf
  <2>12. \A t \in told' : t \in told \/ (t[1] = f /\ t[2] = r)
    BY <2>1
  <2> HIDE DEF f
  <2>13. QED
    BY <1>1, <2>11, <2>12 DEF Learned
<1>4. CASE \/ Connect \/ (\E c \in Command : Call(c)) \/ Retry \/ GiveUp \/ Restart \/ Damaged
           \/ DeviceReads \/ DeviceFinishes \/ DeviceOther \/ UNCHANGED link_vars
           \/ \E r : Established(r) \/ Unrecognised(r) \/ Unmatched(r)
  BY <1>2, <1>4 DEF Connect, Call, Retry, GiveUp, Restart, Damaged, DeviceReads, DeviceFinishes,
                    DeviceOther, link_vars, Established, Unrecognised, Unmatched
<1>5. QED
  BY <1>3, <1>4 DEF LinkNext, Host

\* The inductive invariant.
Exchange ==
    Truthful /\ Numbered /\ Delivered /\ Greeting /\ Connected /\ Pending /\ Learned

\* The inductive invariant: what the device says is so, and what is on the
\* line, at work or in the caches fits the call the client waits for.
THEOREM ExchangeCorrect == LinkSpec => [](Promise /\ LinkTypeOK /\ Exchange)
<1>1. LinkInit => Exchange
  <2> SUFFICES ASSUME LinkInit PROVE Exchange
    OBVIOUS
  <2>1. /\ up = << >> /\ down = << >> /\ told = {} /\ client.pc = "idle" /\ client.session = 0
        /\ ~hello_cache.valid /\ retry_cache.kind = "none" /\ pc = "service"
        /\ runs = [k \in Key |-> 0]
    BY DEF LinkInit, Init, Started, NoHello, NoRetry
  <2>2. Frames(up) = {} /\ Frames(down) = {}
    BY <2>1 DEF Frames
  <2>3. QED
    BY <2>1, <2>2 DEF Exchange, Truthful, Numbered, Delivered, Greeting, Connected, Pending, Learned
<1>2. /\ Promise /\ Promise' /\ LinkTypeOK /\ LinkTypeOK' /\ Exchange /\ [LinkNext]_link_vars
      => Exchange'
  <2> SUFFICES ASSUME Promise, Promise', LinkTypeOK, LinkTypeOK', Exchange, [LinkNext]_link_vars
               PROVE  Exchange'
    OBVIOUS
  <2>1. [Next]_vars
    BY LinkStep DEF Promise, LinkTypeOK
  <2>2. Truthful'
    BY <2>1, TruthfulStep DEF Exchange
  <2>3. Numbered' /\ Delivered' /\ Greeting'
    BY NumberedStep, DeliveredStep, GreetingStep DEF Exchange
  <2>4. Connected' /\ Pending' /\ Learned'
    BY ConnectedStep, PendingStep, LearnedStep DEF Exchange
  <2>5. QED
    BY <2>2, <2>3, <2>4 DEF Exchange
<1>3. LinkSpec => []Promise
  BY DeviceCorrect, PromiseCorrect, PTL
<1>4. QED
  BY <1>1, <1>2, <1>3, LinkTypeCorrect, PTL DEF LinkSpec

\* hidbot.Client: a typed call ends only by the answer to its own request,
\* though _wait_for_response compares an id and a session only.
THEOREM AnswerOfItsRequestCorrect == LinkSpec => []AnswerOfItsRequest
<1>1. LinkTypeOK /\ Exchange => AnswerOfItsRequest
  <2> SUFFICES ASSUME LinkTypeOK, Exchange, NEW t \in told, t[1].type = "request",
                      t[2].session /= 0 => t[1].command /= "query"
               PROVE  t[2].about = t[1]
    BY DEF AnswerOfItsRequest
  <2>1. t[1] \in Request
    BY FrameKinds DEF LinkTypeOK
  <2>2. QED
    BY <2>1 DEF Exchange, Learned, LearnedOf
<1>2. QED
  BY <1>1, ExchangeCorrect, PTL

\* A report or action that the caller is told is done was performed once,
\* for any number of retries, losses and sessions.
THEOREM DoneOnceCorrect == LinkSpec => []DoneOnce
<1>1. LinkTypeOK /\ Exchange => DoneOnce
  <2> SUFFICES ASSUME LinkTypeOK, Exchange, NEW t \in told, t[2].code = "ok",
                      t[1].command \in {"report", "action"}
               PROVE  runs[KeyOf(t[1])] = 1
    BY DEF DoneOnce
  <2>1. LearnedOf(t[1], t[2]) /\ Honest(t[2]) /\ t[1] \in Frame
    BY DEF Exchange, Learned, Delivered, LinkTypeOK
  <2>2. t[1] \in Request
    BY <2>1, FrameKinds DEF LearnedOf
  <2>3. t[2].about = t[1]
    BY <2>1, <2>2 DEF LearnedOf
  <2>4. QED
    BY <2>1, <2>2, <2>3 DEF Honest
<1>2. QED
  BY <1>1, ExchangeCorrect, PTL

\* inspect_transition_retry: a transition that ends in SESSION_MISMATCH was not
\* and will not be performed.
THEOREM RefusedIsUndoneCorrect == LinkSpec => []RefusedIsUndone
<1>1. LinkTypeOK /\ Exchange => RefusedIsUndone
  <2> SUFFICES ASSUME LinkTypeOK, Exchange, NEW t \in told, t[2].about = t[1],
                      t[1].type = "request", t[1].command = "transition", t[2].session = 0
               PROVE  runs[KeyOf(t[1])] = 0
    BY DEF RefusedIsUndone
  <2>1. LearnedOf(t[1], t[2]) /\ t[1] \in Request
    BY FrameKinds DEF Exchange, Learned, LinkTypeOK
  <2>2. QED
    BY <2>1 DEF LearnedOf, Dead
<1>2. QED
  BY <1>1, ExchangeCorrect, PTL
=============================================================================
