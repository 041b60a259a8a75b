---------------------------- MODULE ControlLink ----------------------------
(***************************************************************************)
(* hidbot.Client, the serial line and the device of ControlSession.  The   *)
(* client numbers hellos and requests from 0, writes a frame up to         *)
(* MaxTries times and takes the first response that correlates; the line   *)
(* keeps the order of frames and may lose any of them.  A new program on   *)
(* the same line starts to count again, with frames of the old one about.  *)
(*                                                                         *)
(* Of the device's other contexts only the lifecycle callbacks are kept: a *)
(* late failure or notification ends a session, which the lease may do at  *)
(* every pass anyway.                                                      *)
(***************************************************************************)
EXTENDS ControlSession, Sequences

CONSTANTS
    MaxTries,       \* max_attempts
    Capacity,       \* frames on the line, each way
    MaxNonce,       \* hellos of all programs, each with a nonce of its own
    MaxCalls        \* calls of all programs

ASSUME LineAssumption ==
    /\ MaxTries \in Nat \ {0} /\ Capacity \in Nat
    /\ MaxNonce \in Nat /\ MaxCalls \in Nat /\ Nonce = 1 .. MaxNonce

VARIABLES
    up, down,       \* frames to the device, machine frames to the host
    client,         \* its call, session, next ids, the frame it waits for, attempts
    nonces, calls,  \* nonces drawn and calls made so far
    told            \* history: <<frame, response>> the callers learned of

device == vars
line == <<up, down>>
counts == <<nonces, calls>>
link_vars == <<device, line, client, counts, told>>

Started == [pc |-> "idle", session |-> 0, next_hello_id |-> 0, next_request_id |-> 0,
            frame |-> NoFrame, tries |-> 0]

Put(channel, next, frame) == Len(channel) < Capacity /\ next = Append(channel, frame)

Returns(state) == [state EXCEPT !.pc = "idle", !.frame = NoFrame, !.tries = 0]
-----------------------------------------------------------------------------
(* Client                                                                  *)

\* connect, _hello_locked: the old session is forgotten, a nonce is drawn.
Connect ==
    /\ client.pc = "idle"
    /\ client.next_hello_id <= MaxId /\ nonces < MaxNonce
    /\ nonces' = nonces + 1
    /\ LET f == [type |-> "hello", nonce |-> nonces', id |-> client.next_hello_id] IN
         /\ Put(up, up', f)
         /\ client' = [client EXCEPT !.pc = "hello", !.session = 0, !.frame = f, !.tries = 1,
                                     !.next_hello_id = @ + 1]
    /\ UNCHANGED <<device, down, calls, told>>

\* _allocate_request_id_locked and the first write.
Call(command) ==
    /\ client.pc = "idle" /\ client.session /= 0
    /\ client.next_request_id <= MaxId /\ calls < MaxCalls
    /\ LET f == [type |-> "request", session |-> client.session,
                 id |-> client.next_request_id, command |-> command] IN
         /\ Put(up, up', f)
         /\ client' = [client EXCEPT !.pc = "request", !.frame = f, !.tries = 1,
                                     !.next_request_id = @ + 1]
    /\ calls' = calls + 1
    /\ UNCHANGED <<device, down, nonces, told>>

Waiting == client.pc /= "idle"

\* The deadline of an attempt passed: the same bytes are written again.
Retry ==
    /\ Waiting /\ client.tries < MaxTries
    /\ Put(up, up', client.frame)
    /\ client' = [client EXCEPT !.tries = @ + 1]
    /\ UNCHANGED <<device, down, counts, told>>

\* RequestTimeoutError: the session is kept.
GiveUp ==
    /\ Waiting /\ client.tries = MaxTries
    /\ client' = Returns(client)
    /\ UNCHANGED <<device, line, counts, told>>

Arrived(r) ==
    /\ Waiting /\ down /= <<>>
    /\ r = Head(down) /\ down' = Tail(down)
    /\ UNCHANGED <<device, up, counts>>

Correlated(r) == r.about.id = client.frame.id

\* A hello of this call, with its nonce.
Greeted(r) ==
    /\ client.pc = "hello" /\ Correlated(r)
    /\ r.code = "ok" /\ r.about.type = "hello" /\ r.about.nonce = client.frame.nonce

\* Mutant: any response of the session will do.
SatisfiedInSession(r) == client.pc = "request" /\ r.session = client.session

\* _wait_for_response looks at the id and the session of a response only.
Satisfied(r) == client.pc = "request" /\ Correlated(r) /\ r.session = client.session

\* Either kind of call.
SessionLost(r) == Correlated(r) /\ r.code = "SESSION_MISMATCH"

Established(r) ==
    /\ Arrived(r) /\ Greeted(r)
    /\ client' = [Returns(client) EXCEPT !.session = r.session, !.next_request_id = 0]
    /\ UNCHANGED told

\* Mutant: no call looks at what it got.
RecognisedAlways(r) == client.pc = "request"

\* The validators of the typed calls know a result that is not theirs; ping,
\* info and usb_status, the queries here, return what they got.
Recognised(r) == client.frame.command = "query" \/ r.code /= "ok" \/ r.about.type = "request"

Told(r) == told' = told \cup {<<client.frame, r>>}

\* An answer, or RemoteError; a transition ends the session.
Answers(r) ==
    /\ Arrived(r) /\ Satisfied(r) /\ Recognised(r)
    /\ Told(r)
    /\ client' = IF client.frame.command = "transition" /\ r.code = "ok"
                   THEN [Returns(client) EXCEPT !.session = 0] ELSE Returns(client)

\* ProtocolError of a validator: the caller learns nothing of the request.
Unrecognised(r) ==
    /\ Arrived(r) /\ Satisfied(r) /\ ~Recognised(r)
    /\ client' = Returns(client)
    /\ UNCHANGED told

\* SessionLostError
Lose(r) ==
    /\ Arrived(r) /\ SessionLost(r)
    /\ Told(r)
    /\ client' = [Returns(client) EXCEPT !.session = 0]

\* record_unmatched, which raises only beyond what fits on this line.
Unmatched(r) ==
    /\ Arrived(r) /\ ~Greeted(r) /\ ~Satisfied(r) /\ ~SessionLost(r)
    /\ UNCHANGED <<client, told>>

\* Another program takes over the line, or the same one starts again.
Restart ==
    /\ client' = Started
    /\ UNCHANGED <<device, line, counts, told>>

Host ==
    \/ Connect \/ (\E c \in Command : Call(c)) \/ Retry \/ GiveUp \/ Restart
    \/ \E r \in {down[i] : i \in DOMAIN down} :
         Established(r) \/ Answers(r) \/ Unrecognised(r) \/ Lose(r) \/ Unmatched(r)
-----------------------------------------------------------------------------
(* The line, and the device at its other end.                              *)

\* The framing at the end that reads drops what is damaged; a client that has
\* its response drops what arrived in the same chunk.
Damaged ==
    /\ \/ up /= <<>> /\ up' = Tail(up) /\ UNCHANGED down
       \/ down /= <<>> /\ down' = Tail(down) /\ UNCHANGED up
    /\ UNCHANGED <<device, client, counts, told>>

\* What the device writes into a full line is lost.
Replies == IF Len(down) < Capacity THEN Put(down, down', reply') ELSE UNCHANGED down

\* One frame is read and handled; a request to perform is answered later.
DeviceReads ==
    /\ up /= <<>> /\ up' = Tail(up)
    /\ LET f == Head(up) IN
         \/ f.type = "hello" /\ Greet(f) /\ Replies
         \/ /\ f.type = "request"
            /\ \/ (TransitionRetry(f) \/ Refuse(f) \/ Replay(f)) /\ Replies
               \/ Accept(f) /\ UNCHANGED down
    /\ UNCHANGED <<client, counts, told>>

DeviceFinishes ==
    /\ Finish /\ Replies
    /\ UNCHANGED <<up, client, counts, told>>

DeviceOther ==
    /\ Service \/ Idle \/ Perform \/ Lifecycle
    /\ UNCHANGED <<line, client, counts, told>>
-----------------------------------------------------------------------------
LinkInit ==
    /\ Init
    /\ up = <<>> /\ down = <<>> /\ client = Started /\ nonces = 0 /\ calls = 0 /\ told = {}

LinkNext == Host \/ Damaged \/ DeviceReads \/ DeviceFinishes \/ DeviceOther

LinkSpec == LinkInit /\ [][LinkNext]_link_vars

(* A typed call only ever ends, with a result or with the loss of its      *)
(* session, by the device's answer to that very request, whatever is still *)
(* on the line of earlier calls and sessions, of repeated hellos and of    *)
(* the program before this one. ping, info and usb_status check no schema. *)
AnswerOfItsRequest ==
    \A t \in told : LET f == t[1]  r == t[2] IN
        f.type = "request" /\ (r.session /= 0 => f.command /= "query") => r.about = f

(* What the caller is told was done was done, and only once, however often *)
(* the frame was written and whatever was lost.                            *)
DoneOnce ==
    \A t \in told : LET f == t[1]  r == t[2] IN
        r.code = "ok" /\ f.command \in {"report", "action"} => runs[KeyOf(f)] = 1

(* A transition that the device refuses with SESSION_MISMATCH did not      *)
(* happen and will not: a retry after a lost response is answered by the   *)
(* proof, never by the loss of the session that the transition caused.     *)
RefusedIsUndone ==
    \A t \in told : LET f == t[1]  r == t[2] IN
        r.about = f /\ f.type = "request" /\ f.command = "transition" /\ r.session = 0
            => runs[KeyOf(f)] = 0

(* uart-control-plane.md: the host accepts a response only when all of it  *)
(* matches, its schema included.                                           *)
EveryAnswerOfItsRequest == \A t \in told : t[2].session /= 0 => t[2].about = t[1]

(* uart-control-plane.md: a session:null error cannot complete a request;  *)
(* a hello, which the device never answers so, included.                   *)
HelloNotRejected == \A t \in told : t[1].type = "request"
=============================================================================
