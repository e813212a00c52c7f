---------------------------- MODULE StreamSession ----------------------------
(***************************************************************************)
(* One streaming request from its first event to the release of its slots: *)
(* the upstream, the translator that may sit on it (Messages over an       *)
(* OpenAI row), the pump that reads one event ahead, the generators above  *)
(* it, the translator that may sit there (Responses), and the client, who  *)
(* may leave at any time.  Over an Anthropic row the events of a Messages  *)
(* answer pass as they are, its end included: nothing adds one.            *)
(***************************************************************************)
EXTENDS Integers, Sequences, FiniteSets

CONSTANTS
    Surfaces,   \* "direct" (chat), "native" (Messages over an Anthropic
                \* row), "translated" (over an OpenAI row), "responses"
    MaxChunks,  \* bound on the chunks the upstream sends before its end
    ToolIds     \* indices of the tool calls it makes

ASSUME SessionAssumption ==
    /\ Surfaces \subseteq {"direct", "native", "translated", "responses"}
    /\ MaxChunks \in Nat \ {0}
    /\ ToolIds \subseteq Nat

A == INSTANCE AnthropicBridge
R == INSTANCE ResponsesBridge

Chunks ==
    [kind : {"none", "think", "text"}, at : {0}, args : {FALSE}]
        \cup [kind : {"tool"}, at : ToolIds, args : BOOLEAN]
Data(c) == [type |-> "data", kind |-> c.kind, at |-> c.at, args |-> c.args]
Frame(type) == [type |-> type, kind |-> "none", at |-> 0, args |-> FALSE]
NoFrame == Frame("none")

VARIABLES
    surface,   \* how the client asked
    wire,      \* the upstream: "open", "done" once it sent its end, "ended",
               \* or "cut" if it stopped without one
    n,         \* chunks it sent
    kinds,     \* kinds of the chunks it sent
    tr,        \* the translator below the pump; tr.out waits to be pulled
    pc,        \* the pump
    pending,   \* the event it holds back
    hand,      \* what it yields before it pulls again
    last,      \* does it end after that?
    outcomes,  \* outcomes recorded for the attempt, in order
    released,  \* how often both slots were given back
    resp,      \* the Responses translator above the pump
    client,    \* "there", "gone", or "cut" by an aborted body
    got        \* what the client received

reading == <<wire, n, kinds, tr>>
pump == <<pc, pending, hand, last>>
ledgers == <<outcomes, released>>
vars == <<surface, reading, pump, ledgers, resp, client, got>>

Terminators == {"done", "message_stop", "completed"}
EndFrame == Frame(IF surface \in {"native", "translated"} THEN "message_stop" ELSE "done")
Got(types) == \E i \in 1..Len(got) : got[i].type \in types

TypeOK ==
    /\ surface \in Surfaces
    /\ wire \in {"open", "done", "ended", "cut"}
    /\ n \in 0..MaxChunks
    /\ kinds \subseteq {c.kind : c \in Chunks}
    /\ pc \in {"empty", "pull", "yield", "sent", "abandoned", "closed"}
    /\ last \in BOOLEAN
    /\ outcomes \in Seq({"success", "failure"})
    /\ released = IF pc = "closed" THEN 1 ELSE 0
    /\ client \in {"there", "gone", "cut"}

\* What the pump may pull once the upstream sent a chunk, or its end: [DONE],
\* a native message_stop.
AfterChunk(t, c) ==
    IF surface = "translated" THEN A!Read(t, c) ELSE [t EXCEPT !.out = <<Data(c)>>]
AfterDone(t) ==
    IF surface = "translated" THEN A!Finish(t) ELSE [t EXCEPT !.out = <<EndFrame>>]
WireAfterDone == IF surface = "translated" THEN "ended" ELSE "done"

\* open_stream has pulled the first event: of a chunk, or of an empty answer;
\* or there was none, as only a native answer may be.
FirstOf(t) == pending = Head(t.out) /\ tr = [t EXCEPT !.out = Tail(@)]
NoEvent ==
    /\ surface = "native"
    /\ pending = NoFrame /\ tr = A!Fresh /\ kinds = {} /\ n = 0 /\ wire = "cut"
Init ==
    /\ surface \in Surfaces
    /\ \/ \E c \in Chunks :
            FirstOf(AfterChunk(A!Fresh, c)) /\ kinds = {c.kind} /\ n = 1 /\ wire = "open"
       \/ FirstOf(AfterDone(A!Fresh)) /\ kinds = {} /\ n = 0 /\ wire = WireAfterDone
       \/ NoEvent
    /\ pc = (IF wire = "cut" THEN "empty" ELSE "pull") /\ hand = << >> /\ last = FALSE
    /\ outcomes = << >> /\ released = 0
    /\ resp = R!Fresh
    /\ client = "there" /\ got = << >>

-----------------------------------------------------------------------------
(* Upstream *)

Awaiting == pc = "pull" /\ tr.out = << >> /\ ~tr.crashed

ReadChunk ==
    /\ Awaiting /\ wire = "open" /\ n < MaxChunks
    /\ \E c \in Chunks :
        /\ kinds' = kinds \cup {c.kind}
        /\ tr' = AfterChunk(tr, c)
    /\ n' = n + 1
    /\ UNCHANGED <<surface, wire, pump, ledgers, resp, client, got>>

\* [DONE], the upstream's own or the one its reader adds at the end of file;
\* message_stop, if a native upstream sends it.  The translator stops reading
\* there; the other readers go on, and an upstream is taken to send nothing
\* after its own end.
ReadDone ==
    /\ Awaiting /\ wire = "open"
    /\ tr' = AfterDone(tr)
    /\ wire' = WireAfterDone
    /\ UNCHANGED <<surface, n, kinds, pump, ledgers, resp, client, got>>

-----------------------------------------------------------------------------
(* StreamSession._pump *)

\* Its `finally`, whoever runs it.
Close ==
    /\ pc' = "closed"
    /\ released' = released + 1

\* The next event is there: hand on the one held back.
PullNext ==
    /\ pc = "pull" /\ tr.out # << >>
    /\ pending' = Head(tr.out)
    /\ tr' = [tr EXCEPT !.out = Tail(@)]
    /\ hand' = <<pending>>
    /\ pc' = "yield"
    /\ UNCHANGED <<surface, wire, n, kinds, last, ledgers, resp, client, got>>

\* There is no event to hand on: success, and the end.
PullNothing ==
    /\ pc = "empty"
    /\ outcomes' = Append(outcomes, "success") /\ last' = TRUE
    /\ Close
    /\ UNCHANGED <<surface, reading, pending, hand, resp, client, got>>

\* The upstream ends: after its end, or a native one at any time.
Stops ==
    \/ wire \in {"done", "ended"} /\ wire' = "ended"
    \/ wire = "open" /\ surface = "native" /\ wire' = "cut"

\* Mutant of PullEnds: success is recorded after the last chunk was handed on.
PullEndsLate ==
    /\ Awaiting /\ Stops
    /\ hand' = <<pending>> /\ pending' = NoFrame /\ last' = TRUE
    /\ pc' = "yield"
    /\ UNCHANGED <<surface, n, kinds, tr, ledgers, resp, client, got>>

\* The upstream ended: the attempt is settled before its last event leaves.
PullEnds ==
    /\ Awaiting /\ Stops
    /\ outcomes' = Append(outcomes, "success")
    /\ hand' = <<pending>> /\ pending' = NoFrame /\ last' = TRUE
    /\ pc' = "yield"
    /\ UNCHANGED <<surface, n, kinds, tr, released, resp, client, got>>

\* Mutant of ErrorFrames: the error, and no terminator (the Messages surface
\* before Phase 7).
ErrorFrameOnly == <<Frame("error")>>

\* Mutant of ErrorFrames: the terminator alone, as after a complete answer.
EndFrameOnly == <<EndFrame>>

ErrorFrames == <<Frame("error"), EndFrame>>

\* A classified error, also one that follows the upstream's end: no other
\* backend is tried, the error frames follow the event held back.
PullFails ==
    /\ Awaiting /\ wire \in {"open", "done"}
    /\ wire' = "ended"
    /\ outcomes' = Append(outcomes, "failure")
    /\ hand' = <<pending>> \o ErrorFrames /\ pending' = NoFrame /\ last' = TRUE
    /\ pc' = "yield"
    /\ UNCHANGED <<surface, n, kinds, tr, released, resp, client, got>>

\* An exception of the translator is not classified: it passes through the
\* pump, which records nothing, and aborts the body.
PullCrashes ==
    /\ pc = "pull" /\ tr.crashed /\ tr.out = << >>
    /\ Close
    /\ client' = "cut"
    /\ UNCHANGED <<surface, reading, pending, hand, last, outcomes, resp, got>>

\* The consumer asks for more.
Resume ==
    /\ pc = "sent"
    /\ hand' = Tail(hand)
    /\ IF Len(hand) > 1 THEN pc' = "yield" /\ UNCHANGED released
       ELSE IF last THEN Close
       ELSE pc' = "pull" /\ UNCHANGED released
    /\ UNCHANGED <<surface, reading, pending, last, outcomes, resp, client, got>>

-----------------------------------------------------------------------------
(* Above the pump *)

\* started_stream's replay passes the pump's frames on.
Deliver ==
    /\ pc = "yield" /\ surface # "responses"
    /\ got' = Append(got, Head(hand))
    /\ pc' = "sent"
    /\ UNCHANGED <<surface, reading, pending, hand, last, ledgers, resp, client>>

\* The Responses translator reads a frame and yields the events it makes of it.
Translate ==
    /\ pc = "yield" /\ surface = "responses" /\ Head(hand).type # "done"
    /\ LET s == R!Read(resp, Head(hand)) IN
        /\ got' = got \o s.out
        /\ resp' = [s EXCEPT !.out = << >>]
    /\ pc' = "sent"
    /\ UNCHANGED <<surface, reading, pending, hand, last, ledgers, client>>

\* It stops at [DONE]; closing the chat generator abandons the pump at its
\* yield, and the finalizer hook of the loop closes it later.
TranslateDone ==
    /\ pc = "yield" /\ surface = "responses" /\ Head(hand).type = "done"
    /\ got' = got \o R!Finish(resp).out
    /\ pc' = "abandoned"
    /\ UNCHANGED <<surface, reading, pending, hand, last, ledgers, resp, client>>

\* Mutant of Leave: the pump is closed at once and again by the finalizer.
LeaveTwice ==
    /\ client = "there" /\ (Awaiting \/ pc = "sent")
    /\ client' = "gone"
    /\ released' = released + 1
    /\ pc' = IF pc = "pull" THEN "closed" ELSE "abandoned"
    /\ UNCHANGED <<surface, reading, pending, hand, last, outcomes, resp, got>>

\* Mutant of Leave: a suspended pump is dropped without its `finally`.
LeaveForgotten ==
    /\ client = "there" /\ (Awaiting \/ pc = "sent")
    /\ client' = "gone"
    /\ pc' = "closed"
    /\ released' = released + (IF pc = "sent" THEN 0 ELSE 1)
    /\ UNCHANGED <<surface, reading, pending, hand, last, outcomes, resp, got>>

\* The client leaves: the cancellation reaches the pump if it is awaiting the
\* upstream; if it is suspended at its yield it is only abandoned there.
Leave ==
    /\ client = "there" /\ (Awaiting \/ pc = "sent")
    /\ client' = "gone"
    /\ IF pc = "pull" THEN Close ELSE pc' = "abandoned" /\ UNCHANGED released
    /\ UNCHANGED <<surface, reading, pending, hand, last, outcomes, resp, got>>

Finalize ==
    /\ pc = "abandoned"
    /\ Close
    /\ UNCHANGED <<surface, reading, pending, hand, last, outcomes, resp, client, got>>

\* Everything is over.
Closed == pc = "closed" /\ UNCHANGED vars

Step ==
    \/ ReadChunk \/ ReadDone
    \/ PullNothing \/ PullNext \/ PullEnds \/ PullFails \/ PullCrashes \/ Resume
    \/ Deliver \/ Translate \/ TranslateDone \/ Finalize

Next == Step \/ Leave \/ Closed

Spec == Init /\ [][Next]_vars

\* The upstream answers within its read timeout, the client reads or leaves,
\* and the loop runs its finalizers.
FairSpec == Spec /\ WF_vars(Step)
-----------------------------------------------------------------------------
(* Properties *)

\* D16: when a client, or a translator that stops reading there, sees the
\* terminator, the attempt is already settled; it is settled only once.
SettledBeforeEnd ==
    /\ Len(outcomes) <= 1
    /\ Got(Terminators) => Len(outcomes) = 1

\* A failure after the first byte is told to the client that waited for the
\* end, and only then; not on /v1/responses, whose translator drops it.
FailureTold ==
    surface # "responses" =>
        /\ Got({"error"}) => outcomes = <<"failure">>
        /\ pc = "closed" /\ client = "there" /\ outcomes = <<"failure">> => Got({"error"})

\* Does the client see the blocks (items) of a message as the protocol says:
\* each starts once, in index order, takes deltas of its kind only while it is
\* open, and stops once, before the message does?
Before(i, type, at) == {j \in 1..(i - 1) : got[j].type = type /\ got[j].at = at}
BlocksInOrder ==
    \A i \in 1..Len(got) : LET e == got[i] IN
        /\ e.type \in {"message_start", "created"} => i = 1
        /\ e.type = "start" =>
            /\ Before(i, "start", e.at) = {}
            /\ e.at = Cardinality({j \in 1..(i - 1) : got[j].type = "start"})
        /\ e.type = "delta" =>
            /\ \E j \in Before(i, "start", e.at) : got[j].kind = e.kind
            /\ Before(i, "stop", e.at) = {}
        /\ e.type = "stop" =>
            /\ Before(i, "start", e.at) # {}
            /\ Before(i, "stop", e.at) = {}
BlocksAllStop ==
    Got({"message_stop", "completed"}) /\ ~Got({"error"}) =>
        \A i \in 1..Len(got) : got[i].type = "start" =>
            \E j \in 1..Len(got) : got[j].type = "stop" /\ got[j].at = got[i].at

\* A message with text and tool calls trips the Anthropic translator.
Mixed == surface = "translated" /\ {"text", "tool"} \subseteq kinds

\* The translators keep the block protocol of both dialects, in any order of
\* reasoning, text and tool calls the Responses translator meets.
BlocksWellFormed == ~Mixed => BlocksInOrder /\ BlocksAllStop

\* The last frame a client that waits receives is a terminator.
EndsWith(q, types) == q # << >> /\ q[Len(q)].type \in types
EndsWithTerminator ==
    pc = "closed" /\ client # "gone" => EndsWith(got, Terminators)

\* It is on every surface, after an error too; save for mixed answers, which
\* trip the translator, and for a native one whose upstream sent no end.
EndsUnlessMixed == ~Mixed /\ wire # "cut" => EndsWithTerminator

\* Both slots come back, and only once: the pump's finally, the abandoned
\* generator's finalizer and the leaving client never release them twice.
SlotsReturn == <>[](released = 1)
=============================================================================
