------------------------ MODULE StreamSessionProofs ------------------------
(* Streams of any length, with any tool calls, on every surface: when the    *)
(* attempt is settled, what a waiting client is told, the slots, and the     *)
(* order of the blocks the client sees.                                      *)
EXTENDS StreamSession, SequenceTheorems, FiniteSetTheorems, TLAPS

---------------------------------------------------------------------------
(* Sequences of frames, of which only the types matter *)

Types(q) == {q[i].type : i \in 1..Len(q)}
Parts(q) == {q[i] : i \in 1..Len(q)}
IsSeq(q) == q \in Seq(Parts(q))

LEMMA SeqIsSeq ==
    ASSUME NEW S, NEW q \in Seq(S)
    PROVE  IsSeq(q) /\ Len(q) \in Nat
<1>1. Len(q) \in Nat /\ DOMAIN q = 1..Len(q) /\ q \in [1..Len(q) -> S]
  BY LenProperties
<1>2. q \in [1..Len(q) -> Parts(q)]
  BY <1>1 DEF Parts
<1> QED BY <1>1, <1>2, SeqDef DEF IsSeq

LEMMA SingleSeq ==
    ASSUME NEW e
    PROVE  IsSeq(<<e>>) /\ Len(<<e>>) = 1 /\ Types(<<e>>) = {e.type}
<1>1. <<e>> \in Seq({e}) /\ Len(<<e>>) = 1 /\ <<e>>[1] = e
  OBVIOUS
<1>2. Types(<<e>>) = {e.type}
  <2>1. 1..Len(<<e>>) = {1}
    BY <1>1
  <2> QED BY <1>1, <2>1 DEF Types
<1> QED BY <1>1, <1>2, SeqIsSeq

LEMMA EmptyIsSeq == IsSeq(<< >>) /\ Types(<< >>) = {} /\ Len(<< >>) = 0
<1>1. << >> \in Seq({}) /\ Len(<< >>) = 0
  OBVIOUS
<1>2. Types(<< >>) = {}
  <2>1. 1..Len(<< >>) = {}
    BY <1>1
  <2> QED BY <2>1 DEF Types
<1> QED BY <1>1, <1>2, SeqIsSeq

LEMMA ConcatSeq ==
    ASSUME NEW p, NEW q, IsSeq(p), IsSeq(q)
    PROVE  /\ IsSeq(p \o q) /\ Len(p \o q) = Len(p) + Len(q) /\ Len(p) \in Nat /\ Len(q) \in Nat
           /\ Types(p \o q) = Types(p) \cup Types(q)
           /\ \A i \in 1..(Len(p) + Len(q)) : (p \o q)[i] = IF i <= Len(p) THEN p[i] ELSE q[i - Len(p)]
<1> DEFINE S == Parts(p) \cup Parts(q)
<1>1. p \in Seq(S) /\ q \in Seq(S)
  BY SeqMonotonic DEF IsSeq
<1> HIDE DEF S
<1>2. /\ p \o q \in Seq(S) /\ Len(p \o q) = Len(p) + Len(q) /\ Len(p) \in Nat /\ Len(q) \in Nat
      /\ \A i \in 1..(Len(p) + Len(q)) : (p \o q)[i] = IF i <= Len(p) THEN p[i] ELSE q[i - Len(p)]
  BY <1>1, ConcatProperties, LenProperties
<1>3. IsSeq(p \o q)
  BY <1>2, SeqIsSeq
<1>4. Types(p \o q) \subseteq Types(p) \cup Types(q)
  <2> SUFFICES ASSUME NEW i \in 1..(Len(p) + Len(q)) PROVE (p \o q)[i].type \in Types(p) \cup Types(q)
    BY <1>2 DEF Types
  <2>1. CASE i <= Len(p)
    <3>1. i \in 1..Len(p) /\ (p \o q)[i] = p[i]
      BY <1>2, <2>1
    <3> QED BY <3>1 DEF Types
  <2>2. CASE ~(i <= Len(p))
    <3>1. i - Len(p) \in 1..Len(q) /\ (p \o q)[i] = q[i - Len(p)]
      BY <1>2, <2>2
    <3> QED BY <3>1 DEF Types
  <2> QED BY <2>1, <2>2
<1>5. Types(p) \subseteq Types(p \o q)
  <2> SUFFICES ASSUME NEW i \in 1..Len(p) PROVE p[i].type \in Types(p \o q)
    BY DEF Types
  <2>1. i \in 1..Len(p \o q) /\ (p \o q)[i] = p[i]
    BY <1>2
  <2> QED BY <2>1 DEF Types
<1>6. Types(q) \subseteq Types(p \o q)
  <2> SUFFICES ASSUME NEW i \in 1..Len(q) PROVE q[i].type \in Types(p \o q)
    BY DEF Types
  <2>1. i + Len(p) \in 1..Len(p \o q) /\ (p \o q)[i + Len(p)] = q[i]
    BY <1>2
  <2> QED BY <2>1 DEF Types
<1> QED BY <1>2, <1>3, <1>4, <1>5, <1>6

LEMMA AppendSeq ==
    ASSUME NEW q, IsSeq(q), NEW e
    PROVE  IsSeq(Append(q, e)) /\ Types(Append(q, e)) = Types(q) \cup {e.type}
<1> DEFINE S == Parts(q) \cup {e}
<1>1. q \in Seq(S) /\ e \in S
  BY SeqMonotonic DEF IsSeq
<1> HIDE DEF S
<1>2. /\ Append(q, e) \in Seq(S) /\ Len(Append(q, e)) = Len(q) + 1 /\ Len(q) \in Nat
      /\ \A i \in 1..Len(q) : Append(q, e)[i] = q[i]
      /\ Append(q, e)[Len(q) + 1] = e
  BY <1>1, AppendProperties, LenProperties
<1>3. 1..Len(Append(q, e)) = 1..Len(q) \cup {Len(q) + 1}
  BY <1>2
<1>4. Types(Append(q, e)) = Types(q) \cup {e.type}
  BY <1>2, <1>3 DEF Types
<1> QED BY <1>2, <1>4, SeqIsSeq

\* The terminator is the last frame of q, if it is in it at all.
EndLast(q) == \A i \in 1..Len(q) : q[i].type \in Terminators => i = Len(q)

LEMMA TailSeq ==
    ASSUME NEW q, IsSeq(q), q # << >>
    PROVE  /\ IsSeq(Tail(q)) /\ Types(q) = {Head(q).type} \cup Types(Tail(q))
           /\ Len(q) \in Nat \ {0} /\ Len(Tail(q)) = Len(q) - 1
           /\ Len(q) <= 1 => Tail(q) = << >>
           /\ EndLast(q) => EndLast(Tail(q)) /\ (Head(q).type \in Terminators => Tail(q) = << >>)
<1>1. /\ Tail(q) \in Seq(Parts(q)) /\ Len(Tail(q)) = Len(q) - 1 /\ Len(q) \in Nat \ {0}
      /\ \A i \in 1..(Len(q) - 1) : Tail(q)[i] = q[i + 1]
      /\ Head(q) = q[1]
  BY HeadTailProperties, LenProperties, EmptySeq DEF IsSeq
<1>2. IsSeq(Tail(q))
  BY <1>1, SeqIsSeq
<1>3. Len(q) <= 1 => Tail(q) = << >>
  BY <1>1, EmptySeq
<1>4. Types(Tail(q)) \subseteq Types(q)
  <2> SUFFICES ASSUME NEW i \in 1..(Len(q) - 1) PROVE Tail(q)[i].type \in Types(q)
    BY <1>1 DEF Types
  <2>1. i + 1 \in 1..Len(q) /\ Tail(q)[i] = q[i + 1]
    BY <1>1
  <2> QED BY <2>1 DEF Types
<1>5. Types(q) \subseteq {Head(q).type} \cup Types(Tail(q))
  <2> SUFFICES ASSUME NEW i \in 1..Len(q), i # 1 PROVE q[i].type \in Types(Tail(q))
    BY <1>1 DEF Types
  <2>1. i - 1 \in 1..Len(Tail(q)) /\ Tail(q)[i - 1] = q[i]
    BY <1>1
  <2> QED BY <2>1 DEF Types
<1>6. Head(q).type \in Types(q)
  <2>1. 1 \in 1..Len(q)
    BY <1>1
  <2> QED BY <1>1, <2>1 DEF Types
<1>7. ASSUME EndLast(q) PROVE EndLast(Tail(q)) /\ (Head(q).type \in Terminators => Tail(q) = << >>)
  <2>0. \A i \in 1..Len(q) : q[i].type \in Terminators => i = Len(q)
    BY <1>7 DEF EndLast
  <2>1. ASSUME NEW i \in 1..Len(Tail(q)), Tail(q)[i].type \in Terminators PROVE i = Len(Tail(q))
    <3>1. i + 1 \in 1..Len(q) /\ Tail(q)[i] = q[i + 1]
      BY <1>1
    <3>2. q[i + 1].type \in Terminators
      BY <2>1, <3>1
    <3>3. i + 1 = Len(q)
      BY <2>0, <3>1, <3>2
    <3>4. i \in Int /\ Len(q) \in Int /\ Len(Tail(q)) = Len(q) - 1
      BY <1>1
    <3> QED BY <3>3, <3>4
  <2>2. ASSUME Head(q).type \in Terminators PROVE Tail(q) = << >>
    <3>1. q[1].type \in Terminators /\ 1 \in 1..Len(q)
      BY <1>1, <2>2
    <3>2. Len(q) = 1
      BY <2>0, <3>1
    <3> QED BY <1>3, <3>2
  <2> QED BY <2>1, <2>2 DEF EndLast
<1> QED BY <1>1, <1>2, <1>3, <1>4, <1>5, <1>6, <1>7

---------------------------------------------------------------------------
(* The translators: what they emit *)

Body == {"message_start", "start", "delta", "stop"}

\* What is kept of a translator's state: its fields, and what is open.
AnthropicState(s) ==
    /\ s = [x \in DOMAIN s |-> s[x]]
    /\ {"started", "text", "blocks", "open", "next", "out", "crashed"} \subseteq DOMAIN s
    /\ IsSeq(s.out) /\ IsFiniteSet(s.open)

\* From s to t the translator emitted frames of the body of a message.
Emits(s, t) ==
    /\ AnthropicState(t)
    /\ Types(t.out) \subseteq Types(s.out) \cup Body
    /\ Len(s.out) \in Nat /\ Len(t.out) \in Nat /\ Len(s.out) <= Len(t.out)

LEMMA EmitsReflexive ==
    ASSUME NEW s, AnthropicState(s)
    PROVE  Emits(s, s)
BY SeqIsSeq DEF Emits, AnthropicState, IsSeq

LEMMA EmitsTransitive ==
    ASSUME NEW s, NEW t, NEW u, Emits(s, t), Emits(t, u)
    PROVE  Emits(s, u)
BY DEF Emits

\* Emitting one frame after changing other fields than the output.
LEMMA EmitKeeps ==
    ASSUME NEW s, AnthropicState(s), NEW t, AnthropicState(t), t.out = s.out,
           NEW e, e.type \in Body
    PROVE  LET u == A!Emit(t, <<e>>) IN Emits(s, u) /\ Len(u.out) > 0
<1> DEFINE u == A!Emit(t, <<e>>)
<1>1. u = [t EXCEPT !.out = t.out \o <<e>>]
  BY DEF A!Emit
<1>2. /\ u.out = t.out \o <<e>> /\ u.open = t.open /\ DOMAIN u = DOMAIN t
      /\ u = [x \in DOMAIN u |-> u[x]]
  BY <1>1 DEF AnthropicState
<1>3. IsSeq(<<e>>) /\ Len(<<e>>) = 1 /\ Types(<<e>>) = {e.type}
  BY SingleSeq
<1>4. IsSeq(t.out)
  BY DEF AnthropicState
<1> HIDE DEF u
<1>5. IsSeq(u.out) /\ Len(u.out) = Len(t.out) + 1 /\ Len(t.out) \in Nat /\ Types(u.out) = Types(t.out) \cup {e.type}
  BY <1>2, <1>3, <1>4, ConcatSeq
<1>6. AnthropicState(u)
  BY <1>2, <1>5 DEF AnthropicState
<1>7. Emits(s, u) /\ Len(u.out) > 0
  BY <1>5, <1>6 DEF Emits
<1> QED BY <1>7 DEF u

LEMMA OpenedEmits ==
    ASSUME NEW s, AnthropicState(s)
    PROVE  LET t == A!Opened(s) IN Emits(s, t) /\ t.started /\ (~s.started => Len(t.out) > 0)
<1> DEFINE t == A!Opened(s)
           r == [s EXCEPT !.started = TRUE]
           e == A!Plain("message_start")
<1>1. CASE s.started
  BY <1>1, EmitsReflexive DEF A!Opened
<1>2. CASE ~s.started
  <2>1. t = A!Emit(r, <<e>>)
    BY <1>2 DEF A!Opened
  <2>2. AnthropicState(r) /\ r.out = s.out /\ r.started
    BY DEF AnthropicState
  <2>3. e.type \in Body
    BY DEF A!Event, A!Plain, Body
  <2>4. A!Emit(r, <<e>>).started
    BY <2>2 DEF A!Emit, AnthropicState
  <2> HIDE DEF t, r, e
  <2> QED BY <2>1, <2>2, <2>3, <2>4, EmitKeeps DEF t
<1> QED BY <1>1, <1>2

LEMMA TextStartedEmits ==
    ASSUME NEW s, AnthropicState(s)
    PROVE  Emits(s, A!TextStarted(s))
<1> DEFINE b == A!Put(s.blocks, s.next, A!TextEntry)
           r == [s EXCEPT !.text = s.next, !.next = @ + 1, !.open = @ \cup {s.next}, !.blocks = b]
           e == A!Event("start", s.next, "text")
<1>1. A!TextStarted(s) = s \/ A!TextStarted(s) = A!Emit(r, <<e>>)
  BY DEF A!TextStarted
<1> HIDE DEF b
<1>2. IsFiniteSet(s.open \cup {s.next})
  BY FS_AddElement DEF AnthropicState
<1>3. AnthropicState(r) /\ r.out = s.out
  BY <1>2 DEF AnthropicState
<1>4. e.type \in Body
  BY DEF A!Event, A!Plain, Body
<1> HIDE DEF r, e
<1> QED BY <1>1, <1>3, <1>4, EmitKeeps, EmitsReflexive

LEMMA TextClosedEmits ==
    ASSUME NEW s, AnthropicState(s)
    PROVE  Emits(s, A!TextClosed(s))
<1> DEFINE r == [s EXCEPT !.open = @ \ {s.text}]
           e == A!Event("stop", s.text, "")
<1>1. A!TextClosed(s) = s \/ A!TextClosed(s) = A!Emit(r, <<e>>)
  BY DEF A!TextClosed
<1>2. IsFiniteSet(s.open \ {s.text})
  BY FS_Subset DEF AnthropicState
<1>3. AnthropicState(r) /\ r.out = s.out
  BY <1>2 DEF AnthropicState
<1>4. e.type \in Body
  BY DEF A!Event, A!Plain, Body
<1> HIDE DEF r, e
<1> QED BY <1>1, <1>3, <1>4, EmitKeeps, EmitsReflexive

LEMMA ToolStartedEmits ==
    ASSUME NEW s, AnthropicState(s), NEW i
    PROVE  Emits(s, A!ToolStarted(s, i))
<1> DEFINE t == A!TextClosed(s)
           b == A!Put(t.blocks, i, t.next)
           r == [t EXCEPT !.blocks = b, !.next = @ + 1, !.open = @ \cup {t.next}]
           e == A!Event("start", t.next, "tool")
<1>1. A!ToolStarted(s, i) = s \/ A!ToolStarted(s, i) = A!Emit(r, <<e>>)
  BY DEF A!ToolStarted
<1>2. Emits(s, t) /\ AnthropicState(t)
  BY TextClosedEmits DEF Emits
<1> HIDE DEF b, t
<1>3. IsFiniteSet(t.open \cup {t.next})
  BY <1>2, FS_AddElement DEF AnthropicState
<1>4. AnthropicState(r) /\ r.out = t.out
  BY <1>2, <1>3 DEF AnthropicState
<1>5. e.type \in Body
  BY DEF A!Event, A!Plain, Body
<1> HIDE DEF r, e
<1>6. Emits(t, A!Emit(r, <<e>>))
  BY <1>2, <1>4, <1>5, EmitKeeps
<1> QED BY <1>1, <1>2, <1>6, EmitsReflexive, EmitsTransitive

LEMMA TextEmits ==
    ASSUME NEW s, AnthropicState(s)
    PROVE  Emits(s, A!Text(s))
<1> DEFINE t == A!TextStarted(s)
           e == A!Event("delta", t.text, "text")
<1>1. A!Text(s) = A!Emit(t, <<e>>)
  BY DEF A!Text
<1>2. Emits(s, t) /\ AnthropicState(t)
  BY TextStartedEmits DEF Emits
<1>3. e.type \in Body
  BY DEF A!Event, A!Plain, Body
<1> HIDE DEF t, e
<1>4. Emits(t, A!Emit(t, <<e>>))
  BY <1>2, <1>3, EmitKeeps
<1> QED BY <1>1, <1>2, <1>4, EmitsTransitive

LEMMA ToolEmits ==
    ASSUME NEW s, AnthropicState(s), NEW i, NEW args
    PROVE  Emits(s, A!Tool(s, i, args))
<1> DEFINE t == A!ToolStarted(s, i)
           r == [t EXCEPT !.crashed = TRUE]
           e == A!Event("delta", t.blocks[i], "tool")
<1>1. \/ A!Tool(s, i, args) = t
      \/ A!Tool(s, i, args) = r
      \/ A!Tool(s, i, args) = A!Emit(t, <<e>>)
  BY DEF A!Tool
<1>2. Emits(s, t) /\ AnthropicState(t)
  BY ToolStartedEmits DEF Emits
<1>3. e.type \in Body
  BY DEF A!Event, A!Plain, Body
<1> HIDE DEF t, e
<1>4. AnthropicState(r) /\ r.out = t.out
  BY <1>2 DEF AnthropicState
<1> HIDE DEF r
<1>5. Emits(s, r)
  BY <1>2, <1>4 DEF Emits
<1>6. Emits(t, A!Emit(t, <<e>>))
  BY <1>2, <1>3, EmitKeeps
<1> QED BY <1>1, <1>2, <1>5, <1>6, EmitsTransitive

\* A chunk, whatever is in it and wherever it comes, is translated to frames
\* of the body of a message: no terminator and no error.
LEMMA ReadEmits ==
    ASSUME NEW s, AnthropicState(s), NEW c
    PROVE  Emits(s, A!Read(s, c)) /\ (~s.started => Len(A!Read(s, c).out) > 0)
<1> DEFINE t == A!Opened(s)
<1>1. Emits(s, t) /\ (~s.started => Len(t.out) > 0) /\ AnthropicState(t)
  BY OpenedEmits DEF Emits
<1>2. A!Read(s, c) \in {A!Text(t), A!Tool(t, c.at, c.args), t}
  BY DEF A!Read
<1> HIDE DEF t
<1>3. Emits(t, A!Read(s, c))
  BY <1>1, <1>2, TextEmits, ToolEmits, EmitsReflexive
<1>4. Emits(s, A!Read(s, c))
  BY <1>1, <1>3, EmitsTransitive
<1>5. Len(t.out) <= Len(A!Read(s, c).out) /\ Len(t.out) \in Nat /\ Len(A!Read(s, c).out) \in Nat
  BY <1>3 DEF Emits
<1> QED BY <1>1, <1>4, <1>5

LEMMA ConcatEndLast ==
    ASSUME NEW p, NEW q, IsSeq(p), IsSeq(q), Types(p) \cap Terminators = {}, EndLast(q)
    PROVE  EndLast(p \o q)
<1>1. /\ Len(p \o q) = Len(p) + Len(q) /\ Len(p) \in Nat /\ Len(q) \in Nat
      /\ \A i \in 1..(Len(p) + Len(q)) : (p \o q)[i] = IF i <= Len(p) THEN p[i] ELSE q[i - Len(p)]
  BY ConcatSeq
<1>2. \A i \in 1..Len(q) : q[i].type \in Terminators => i = Len(q)
  BY DEF EndLast
<1>3. ASSUME NEW i \in 1..(Len(p) + Len(q)), (p \o q)[i].type \in Terminators PROVE i = Len(p) + Len(q)
  <2>1. CASE i <= Len(p)
    <3>1. i \in 1..Len(p) /\ p[i].type \in Terminators
      BY <1>1, <1>3, <2>1
    <3>2. p[i].type \in Types(p)
      BY <3>1 DEF Types
    <3> QED BY <3>1, <3>2
  <2>2. CASE ~(i <= Len(p))
    <3>1. i - Len(p) \in 1..Len(q) /\ q[i - Len(p)].type \in Terminators
      BY <1>1, <1>3, <2>2
    <3>2. i - Len(p) = Len(q)
      BY <1>2, <3>1
    <3> QED BY <1>1, <3>2
  <2> QED BY <2>1, <2>2
<1> QED BY <1>1, <1>3 DEF EndLast

\* After [DONE] the blocks that are open are closed and the message ends,
\* with nothing behind its end.
LEMMA FinishEnds ==
    ASSUME NEW s, AnthropicState(s), s.out = << >>
    PROVE  LET f == A!Finish(s) IN
           /\ AnthropicState(f) /\ EndLast(f.out) /\ Len(f.out) > 0
           /\ Types(f.out) \subseteq Body \cup {"message_stop"} /\ "message_stop" \in Types(f.out)
<1> DEFINE t == A!Opened(s)
           u == IF t.blocks = << >> THEN A!TextStarted(t) ELSE t
           c == A!Cardinality(u.open)
           closing == [i \in 1..c |-> A!Nth(u.open, i - 1)]
           stops == [i \in 1..Len(closing) |-> A!Event("stop", closing[i], "")]
           e == A!Plain("message_stop")
           r == [u EXCEPT !.open = {}]
           f == A!Finish(s)
<1>1. Emits(s, u)
  <2>1. Emits(s, t) /\ AnthropicState(t)
    BY OpenedEmits DEF Emits
  <2>2. Emits(t, u)
    <3> HIDE DEF t
    <3> QED BY <2>1, TextStartedEmits, EmitsReflexive
  <2> HIDE DEF t, u
  <2> QED BY <2>1, <2>2, EmitsTransitive
<1>0. Cardinality(u.open) = A!Cardinality(u.open)
  BY DEF A!Cardinality, Cardinality
<1>2. f = A!Emit(r, stops \o <<e>>)
  BY DEF A!Finish
<1> HIDE DEF t, u
<1>3. AnthropicState(u) /\ Types(u.out) \subseteq Body /\ c \in Nat
  BY <1>0, <1>1, EmptyIsSeq, FS_CardinalityType DEF Emits, AnthropicState
<1>4. Len(closing) = c
  <2>1. closing \in Seq({A!Nth(u.open, i - 1) : i \in 1..c})
    BY <1>3, SeqDef
  <2> QED BY <1>3
<1>5. IsSeq(stops) /\ Types(stops) \subseteq {"stop"} /\ Len(stops) = c
  <2>1. \A i \in 1..c : stops[i].type = "stop"
    BY <1>4 DEF A!Event
  <2>2. stops = [i \in 1..c |-> stops[i]] /\ DOMAIN stops = 1..c
    BY <1>4
  <2> HIDE DEF stops
  <2>3. stops \in [1..c -> {stops[i] : i \in 1..c}]
    BY <2>2
  <2>4. stops \in Seq({stops[i] : i \in 1..c})
    BY <1>3, <2>3, SeqDef
  <2>5. Len(stops) = c
    BY <1>3, <2>2, <2>4, LenProperties
  <2> QED BY <2>1, <2>4, <2>5, SeqIsSeq DEF Types
<1>6. e.type = "message_stop"
  BY DEF A!Event, A!Plain
<1> HIDE DEF closing, stops, e, c
<1>7. IsSeq(<<e>>) /\ Types(<<e>>) = {"message_stop"} /\ EndLast(<<e>>) /\ Len(<<e>>) = 1
  <2>1. IsSeq(<<e>>) /\ Types(<<e>>) = {"message_stop"} /\ Len(<<e>>) = 1
    BY <1>6, SingleSeq
  <2>2. \A i \in 1..1 : i = 1
    OBVIOUS
  <2> QED BY <2>1, <2>2 DEF EndLast
<1> DEFINE z == <<e>>
<1> HIDE DEF z
<1>8. IsSeq(stops \o z) /\ Types(stops \o z) \subseteq Body \cup {"message_stop"} /\ EndLast(stops \o z)
      /\ Len(stops \o z) > 0 /\ "message_stop" \in Types(stops \o z)
  <2>1. Types(stops) \cap Terminators = {}
    BY <1>5 DEF Terminators
  <2>2. IsSeq(z) /\ Types(z) = {"message_stop"} /\ EndLast(z) /\ Len(z) = 1
    BY <1>7 DEF z
  <2>3. /\ IsSeq(stops \o z) /\ Len(stops \o z) = Len(stops) + Len(z) /\ Len(stops) \in Nat
        /\ Types(stops \o z) = Types(stops) \cup Types(z)
    BY <1>5, <2>2, ConcatSeq
  <2>4. EndLast(stops \o z)
    BY <1>5, <2>1, <2>2, ConcatEndLast
  <2>5. Types(stops \o z) \subseteq Body \cup {"message_stop"}
    BY <1>5, <2>2, <2>3 DEF Body
  <2>6. Len(stops \o z) > 0
    BY <2>2, <2>3
  <2>7. "message_stop" \in Types(stops \o z)
    BY <2>2, <2>3
  <2> QED BY <2>3, <2>4, <2>5, <2>6, <2>7
<1> DEFINE y == stops \o z
<1> HIDE DEF y
<1>9. IsSeq(u.out \o y) /\ Types(u.out \o y) \subseteq Body \cup {"message_stop"} /\ EndLast(u.out \o y)
      /\ Len(u.out \o y) > 0 /\ "message_stop" \in Types(u.out \o y)
  <2>1. Types(u.out) \cap Terminators = {}
    BY <1>3 DEF Body, Terminators
  <2>2. IsSeq(y) /\ Types(y) \subseteq Body \cup {"message_stop"} /\ EndLast(y) /\ Len(y) > 0
        /\ "message_stop" \in Types(y)
    BY <1>8 DEF y
  <2>3. IsSeq(u.out)
    BY <1>3 DEF AnthropicState
  <2> QED BY <1>3, <2>1, <2>2, <2>3, ConcatSeq, ConcatEndLast
<1>10. f.out = u.out \o y /\ f.open = {} /\ f = [x \in DOMAIN f |-> f[x]] /\ DOMAIN f = DOMAIN u
  <2>1. f = [r EXCEPT !.out = @ \o y]
    BY <1>2 DEF A!Emit, y, z
  <2> HIDE DEF f
  <2> QED BY <1>3, <2>1 DEF AnthropicState
<1> HIDE DEF f
<1>11. AnthropicState(f)
  BY <1>3, <1>9, <1>10, FS_EmptySet DEF AnthropicState
<1>12. /\ AnthropicState(f) /\ EndLast(f.out) /\ Len(f.out) > 0
       /\ Types(f.out) \subseteq Body \cup {"message_stop"} /\ "message_stop" \in Types(f.out)
  BY <1>9, <1>10, <1>11
<1> QED BY <1>12 DEF f

---------------------------------------------------------------------------
(* The Responses translator *)

ResponsesState(s) ==
    /\ s = [x \in DOMAIN s |-> s[x]]
    /\ {"started", "think", "text", "calls", "next", "out"} \subseteq DOMAIN s
    /\ IsSeq(s.out) /\ IsFiniteSet(DOMAIN s.calls)

Responds(s, t) ==
    ResponsesState(t) /\ Types(t.out) \subseteq Types(s.out) \cup {"created", "start", "delta"}

LEMMA RespondKeeps ==
    ASSUME NEW s, NEW t, Responds(s, t), NEW e, e.type \in {"created", "start", "delta"}
    PROVE  Responds(s, R!Emit(t, <<e>>))
<1> DEFINE u == R!Emit(t, <<e>>)
<1>1. u = [t EXCEPT !.out = t.out \o <<e>>]
  BY DEF R!Emit
<1>2. u.out = t.out \o <<e>> /\ DOMAIN u = DOMAIN t /\ u = [x \in DOMAIN u |-> u[x]] /\ u.calls = t.calls
  BY <1>1 DEF Responds, ResponsesState
<1>3. IsSeq(<<e>>) /\ Types(<<e>>) = {e.type}
  BY SingleSeq
<1>4. IsSeq(t.out) /\ Types(t.out) \subseteq Types(s.out) \cup {"created", "start", "delta"}
      /\ IsFiniteSet(DOMAIN t.calls)
  BY DEF Responds, ResponsesState
<1> HIDE DEF u
<1>5. IsSeq(u.out) /\ Types(u.out) = Types(t.out) \cup {e.type}
  BY <1>2, <1>3, <1>4, ConcatSeq
<1>6. Responds(s, u)
  BY <1>2, <1>4, <1>5 DEF Responds, ResponsesState
<1> QED BY <1>6 DEF u

LEMMA RespondField ==
    ASSUME NEW s, NEW t, Responds(s, t), NEW u, u = [x \in DOMAIN u |-> u[x]], DOMAIN u = DOMAIN t,
           u.out = t.out, IsFiniteSet(DOMAIN u.calls)
    PROVE  Responds(s, u)
BY DEF Responds, ResponsesState

\* A frame of the chat stream is answered by no terminator.
LEMMA RespondsRead ==
    ASSUME NEW s, ResponsesState(s), NEW c
    PROVE  Responds(s, R!Read(s, c))
<1> DEFINE t == R!Opened(s)
<1>1. Responds(s, s)
  BY DEF Responds
<1>2. Responds(s, t)
  <2> DEFINE r == [s EXCEPT !.started = TRUE]
             e == R!Plain("created")
  <2>0. r.calls = s.calls
    BY DEF ResponsesState
  <2>1. t = s \/ t = R!Emit(r, <<e>>)
    BY DEF R!Opened
  <2>2. Responds(s, r)
    BY <1>1, <2>0, RespondField DEF ResponsesState
  <2>3. e.type \in {"created", "start", "delta"}
    BY DEF R!Event, R!Plain
  <2> HIDE DEF t, r, e
  <2> QED BY <1>1, <2>1, <2>2, <2>3, RespondKeeps
<1> HIDE DEF t
<1>3. \A at, kind, type : type \in {"start", "delta"} => R!Event(type, at, kind).type \in {"created", "start", "delta"}
  BY DEF R!Event
<1>4. Responds(s, R!Think(t))
  <2> DEFINE r == [t EXCEPT !.think = t.next, !.next = @ + 1]
             u == IF t.think # R!None THEN t ELSE R!Emit(r, <<R!Event("start", t.next, "think")>>)
  <2>1. Responds(s, r)
    BY <1>2, RespondField DEF Responds, ResponsesState
  <2>2. Responds(s, u)
    <3> HIDE DEF r
    <3> QED BY <1>2, <1>3, <2>1, RespondKeeps
  <2>3. R!Think(t) = R!Emit(u, <<R!Event("delta", u.think, "think")>>)
    BY DEF R!Think
  <2> HIDE DEF u
  <2> QED BY <1>3, <2>2, <2>3, RespondKeeps
<1>5. Responds(s, R!Text(t))
  <2> DEFINE r == [t EXCEPT !.text = t.next, !.next = @ + 1]
             u == IF t.text # R!None THEN t ELSE R!Emit(r, <<R!Event("start", t.next, "text")>>)
  <2>1. Responds(s, r)
    BY <1>2, RespondField DEF Responds, ResponsesState
  <2>2. Responds(s, u)
    <3> HIDE DEF r
    <3> QED BY <1>2, <1>3, <2>1, RespondKeeps
  <2>3. R!Text(t) = R!Emit(u, <<R!Event("delta", u.text, "text")>>)
    BY DEF R!Text
  <2> HIDE DEF u
  <2> QED BY <1>3, <2>2, <2>3, RespondKeeps
<1>6. ASSUME NEW i, NEW args PROVE Responds(s, R!Tool(t, i, args))
  <2> DEFINE b == R!Put(t.calls, i, t.next)
             r == [t EXCEPT !.calls = b, !.next = @ + 1]
             u == IF i \in DOMAIN t.calls THEN t ELSE R!Emit(r, <<R!Event("start", t.next, "tool")>>)
  <2>1. R!Tool(t, i, args) = IF args THEN R!Emit(u, <<R!Event("delta", u.calls[i], "tool")>>) ELSE u
    BY DEF R!Tool
  <2> HIDE DEF b
  <2>2. Responds(s, r)
    <3>1. DOMAIN b = DOMAIN t.calls \cup {i} /\ IsFiniteSet(DOMAIN t.calls)
      BY <1>2 DEF b, R!Put, Responds, ResponsesState
    <3>2. IsFiniteSet(DOMAIN b)
      BY <3>1, FS_AddElement
    <3> QED BY <1>2, <3>2, RespondField DEF Responds, ResponsesState
  <2>3. Responds(s, u)
    <3> HIDE DEF r
    <3> QED BY <1>2, <1>3, <2>2, RespondKeeps
  <2> HIDE DEF u
  <2>4. Responds(s, R!Emit(u, <<R!Event("delta", u.calls[i], "tool")>>))
    BY <1>3, <2>3, RespondKeeps
  <2> QED BY <2>1, <2>3, <2>4
<1>7. R!Read(s, c) \in {R!Think(t), R!Text(t), R!Tool(t, c.at, c.args), t}
  BY DEF R!Read, t
<1> QED BY <1>2, <1>4, <1>5, <1>6, <1>7

---------------------------------------------------------------------------
(* The session *)

LEMMA AfterChunkKeeps ==
    ASSUME NEW t, AnthropicState(t), t.out = << >>, NEW c
    PROVE  LET a == AfterChunk(t, c) IN
           /\ AnthropicState(a) /\ Types(a.out) \subseteq Body \cup {"data"}
           /\ ~t.started => a.out # << >>
<1> DEFINE a == AfterChunk(t, c)
<1>1. CASE surface = "translated"
  <2>1. a = A!Read(t, c)
    BY <1>1 DEF AfterChunk
  <2>2. Emits(t, a) /\ (~t.started => Len(a.out) > 0)
    <3> HIDE DEF a
    <3> QED BY <2>1, ReadEmits
  <2> HIDE DEF a
  <2>3. AnthropicState(a) /\ Types(a.out) \subseteq Body \cup {"data"} /\ (~t.started => a.out # << >>)
    BY <2>2, EmptyIsSeq DEF Emits
  <2> QED BY <2>3 DEF a
<1>2. CASE surface # "translated"
  <2> DEFINE d == <<Data(c)>>
  <2>1. a = [t EXCEPT !.out = d]
    BY <1>2 DEF AfterChunk
  <2>2. IsSeq(d) /\ Len(d) = 1 /\ Types(d) = {"data"}
    BY SingleSeq DEF Data
  <2> HIDE DEF d
  <2>3. AnthropicState(a) /\ a.out = d
    BY <2>1, <2>2 DEF AnthropicState
  <2>4. d # << >>
    BY <2>2, EmptyIsSeq
  <2> HIDE DEF a
  <2>5. AnthropicState(a) /\ Types(a.out) \subseteq Body \cup {"data"} /\ (~t.started => a.out # << >>)
    BY <2>2, <2>3, <2>4
  <2> QED BY <2>5 DEF a
<1> QED BY <1>1, <1>2

LEMMA AfterDoneKeeps ==
    ASSUME NEW t, AnthropicState(t), t.out = << >>
    PROVE  LET a == AfterDone(t) IN
           /\ AnthropicState(a) /\ EndLast(a.out) /\ "error" \notin Types(a.out)
           /\ a.out # << >> /\ EndFrame.type \in Types(a.out)
<1> DEFINE a == AfterDone(t)
<1>1. CASE surface = "translated"
  <2>1. a = A!Finish(t)
    BY <1>1 DEF AfterDone
  <2>2. /\ AnthropicState(a) /\ EndLast(a.out) /\ Len(a.out) > 0
        /\ Types(a.out) \subseteq Body \cup {"message_stop"} /\ "message_stop" \in Types(a.out)
    <3> HIDE DEF a
    <3> QED BY <2>1, FinishEnds
  <2> HIDE DEF a
  <2>3. AnthropicState(a) /\ EndLast(a.out) /\ "error" \notin Types(a.out) /\ a.out # << >>
    BY <2>2, EmptyIsSeq DEF Body
  <2>4. EndFrame.type = "message_stop"
    BY <1>1 DEF EndFrame, Frame
  <2> QED BY <2>2, <2>3, <2>4 DEF a
<1>2. CASE surface # "translated"
  <2> DEFINE d == <<EndFrame>>
  <2>1. a = [t EXCEPT !.out = d]
    BY <1>2 DEF AfterDone
  <2>2. IsSeq(d) /\ Len(d) = 1 /\ Types(d) = {EndFrame.type} /\ EndLast(d) /\ EndFrame.type # "error"
    <3>1. EndFrame.type # "error"
      BY DEF EndFrame, Frame
    <3>2. IsSeq(d) /\ Len(d) = 1 /\ Types(d) = {EndFrame.type}
      BY SingleSeq
    <3>3. \A i \in 1..1 : i = 1
      OBVIOUS
    <3> QED BY <3>1, <3>2, <3>3 DEF EndLast
  <2> HIDE DEF d
  <2>3. AnthropicState(a) /\ a.out = d
    BY <2>1, <2>2 DEF AnthropicState
  <2>4. d # << >>
    BY <2>2, EmptyIsSeq
  <2> HIDE DEF a
  <2>5. AnthropicState(a) /\ EndLast(a.out) /\ "error" \notin Types(a.out) /\ a.out # << >>
        /\ EndFrame.type \in Types(a.out)
    BY <2>2, <2>3, <2>4
  <2> QED BY <2>5 DEF a
<1> QED BY <1>1, <1>2

\* What the translator has yet to yield: its end last, and only after [DONE].
Waiting ==
    /\ AnthropicState(tr) /\ EndLast(tr.out) /\ "error" \notin Types(tr.out)
    /\ wire = "open" => Types(tr.out) \cap Terminators = {}

\* What the pump yields and what the client has are frames in order.
Flows ==
    /\ IsSeq(hand)
    /\ pc \in {"yield", "sent"} => hand # << >>
    /\ ResponsesState(resp) /\ resp.out = << >>
    /\ surface # "responses" \/ pc \notin {"abandoned", "closed"} => IsSeq(got)

\* Until the pump took the last frame nothing is settled, no terminator is on
\* its way, and one that is held back is the upstream's last word.
Unsettled ==
    ~last =>
        /\ outcomes = << >>
        /\ Types(hand) \cap Terminators = {} /\ Types(got) \cap Terminators = {}
        /\ pending.type # "error"
        /\ pending.type \in Terminators => tr.out = << >> /\ wire # "open"

Settled == last => outcomes \in {<<"success">>, <<"failure">>} /\ pc \notin {"empty", "pull"}

\* Error frames come of failures.
ErrorsEarned ==
    surface # "responses" /\ outcomes # <<"failure">> =>
        "error" \notin Types(hand) /\ "error" \notin Types(got)

\* A client that stays has the error frame or is about to get it.
ToTell == CASE pc = "yield" -> Types(hand) [] pc = "sent" -> Types(Tail(hand)) [] OTHER -> {}
Told ==
    surface # "responses" /\ client = "there" /\ outcomes = <<"failure">> =>
        "error" \in Types(got) \cup ToTell

SessionInv == TypeOK /\ Waiting /\ Flows /\ Unsettled /\ Settled /\ ErrorsEarned /\ Told

LEMMA SessionInit == Init => SessionInv
<1> SUFFICES ASSUME Init PROVE SessionInv
  OBVIOUS
<1> USE DEF Init
<1>1. AnthropicState(A!Fresh) /\ A!Fresh.out = << >> /\ ~A!Fresh.started
  BY EmptyIsSeq, FS_EmptySet DEF A!Fresh, AnthropicState
<1>2. ResponsesState(resp) /\ resp.out = << >>
  <2>1. DOMAIN << >> = {}
    OBVIOUS
  <2> QED BY <2>1, EmptyIsSeq, FS_EmptySet DEF R!Fresh, ResponsesState
<1>3. ASSUME NEW t, AnthropicState(t), t.out # << >>, FirstOf(t)
      PROVE  /\ AnthropicState(tr) /\ tr.out = Tail(t.out) /\ pending = Head(t.out)
             /\ Types(t.out) = {pending.type} \cup Types(tr.out)
             /\ EndLast(t.out) => EndLast(tr.out) /\ (pending.type \in Terminators => tr.out = << >>)
  <2>1. pending = Head(t.out) /\ tr = [t EXCEPT !.out = Tail(t.out)]
    BY <1>3 DEF FirstOf
  <2>2. IsSeq(t.out)
    BY <1>3 DEF AnthropicState
  <2>3. /\ IsSeq(Tail(t.out)) /\ Types(t.out) = {Head(t.out).type} \cup Types(Tail(t.out))
        /\ EndLast(t.out) => EndLast(Tail(t.out)) /\ (Head(t.out).type \in Terminators => Tail(t.out) = << >>)
    BY <1>3, <2>2, TailSeq
  <2>4. AnthropicState(tr) /\ tr.out = Tail(t.out)
    BY <1>3, <2>1, <2>3 DEF AnthropicState
  <2> QED BY <2>1, <2>3, <2>4
<1>4. Waiting /\ n \in {0, 1} /\ kinds \subseteq {c.kind : c \in Chunks} /\ wire \in {"open", "done", "ended", "cut"}
      /\ pending.type # "error" /\ (pending.type \in Terminators => tr.out = << >> /\ wire # "open")
  <2>1. CASE \E c \in Chunks : FirstOf(AfterChunk(A!Fresh, c)) /\ kinds = {c.kind} /\ n = 1 /\ wire = "open"
    <3>1. PICK c \in Chunks : FirstOf(AfterChunk(A!Fresh, c)) /\ kinds = {c.kind} /\ n = 1 /\ wire = "open"
      BY <2>1
    <3> DEFINE t == AfterChunk(A!Fresh, c)
    <3>2. AnthropicState(t) /\ Types(t.out) \subseteq Body \cup {"data"} /\ t.out # << >>
      BY <1>1, AfterChunkKeeps
    <3>3. EndLast(t.out)
      BY <3>2 DEF EndLast, Types, Body, Terminators
    <3> HIDE DEF t
    <3>4. /\ AnthropicState(tr) /\ EndLast(tr.out)
          /\ Types(t.out) = {pending.type} \cup Types(tr.out)
      BY <1>3, <3>1, <3>2, <3>3 DEF t
    <3>5. Types(tr.out) \subseteq Body \cup {"data"} /\ pending.type \in Body \cup {"data"}
      BY <3>2, <3>4
    <3>6. "error" \notin Types(tr.out) /\ Types(tr.out) \cap Terminators = {}
      BY <3>5 DEF Body, Terminators
    <3>7. pending.type # "error" /\ pending.type \notin Terminators
      BY <3>5 DEF Body, Terminators
    <3> QED BY <3>1, <3>4, <3>6, <3>7 DEF Waiting
  <2>2. CASE FirstOf(AfterDone(A!Fresh)) /\ kinds = {} /\ n = 0 /\ wire = WireAfterDone
    <3> DEFINE t == AfterDone(A!Fresh)
    <3>1. AnthropicState(t) /\ EndLast(t.out) /\ "error" \notin Types(t.out) /\ t.out # << >>
      BY <1>1, AfterDoneKeeps
    <3>2. FirstOf(t)
      BY <2>2
    <3> HIDE DEF t
    <3>3. /\ AnthropicState(tr) /\ EndLast(tr.out) /\ (pending.type \in Terminators => tr.out = << >>)
          /\ Types(t.out) = {pending.type} \cup Types(tr.out)
      BY <1>3, <3>1, <3>2
    <3>4. wire \in {"done", "ended"}
      BY <2>2 DEF WireAfterDone
    <3> QED BY <2>2, <3>1, <3>3, <3>4 DEF Waiting
  <2>3. CASE NoEvent
    <3>1. "error" \notin Types(<< >>) /\ EndLast(<< >>) /\ "none" \notin Terminators
      BY EmptyIsSeq DEF EndLast, Terminators
    <3> QED BY <1>1, <2>3, <3>1 DEF NoEvent, Waiting, NoFrame, Frame
  <2> QED BY <2>1, <2>2, <2>3
<1>5. TypeOK
  <2>1. << >> \in Seq({"success", "failure"})
    OBVIOUS
  <2>2. n \in 0..MaxChunks
    BY <1>4, SessionAssumption
  <2>3. /\ pc \in {"empty", "pull"} /\ last = FALSE /\ released = 0 /\ outcomes = << >> /\ client = "there"
        /\ surface \in Surfaces
    OBVIOUS
  <2> QED BY <1>4, <2>1, <2>2, <2>3 DEF TypeOK
<1>6. Flows
  BY <1>2, EmptyIsSeq DEF Flows
<1>7. Unsettled
  BY <1>4, EmptyIsSeq DEF Unsettled
<1>8. Settled /\ ErrorsEarned /\ Told
  BY EmptyIsSeq DEF Settled, ErrorsEarned, Told
<1> QED BY <1>4, <1>5, <1>6, <1>7, <1>8 DEF SessionInv

\* What the pump holds is handed on: the frame it kept, the next one instead.
LEMMA PullNextKeeps ==
    ASSUME SessionInv, PullNext
    PROVE  SessionInv'
<1> USE DEF SessionInv, PullNext, ledgers
<1>1. ~last /\ outcomes = << >> /\ pending.type \notin Terminators /\ pending.type # "error"
      /\ Types(got) \cap Terminators = {}
  BY DEF Settled, Unsettled
<1>2. AnthropicState(tr) /\ EndLast(tr.out) /\ IsSeq(tr.out)
  BY DEF Waiting, AnthropicState
<1>3. /\ IsSeq(Tail(tr.out)) /\ Types(tr.out) = {pending'.type} \cup Types(Tail(tr.out))
      /\ EndLast(Tail(tr.out)) /\ (pending'.type \in Terminators => Tail(tr.out) = << >>)
  BY <1>2, TailSeq
<1>4. AnthropicState(tr') /\ tr'.out = Tail(tr.out)
  BY <1>2, <1>3 DEF AnthropicState
<1>5. /\ "error" \notin Types(tr'.out) /\ pending'.type # "error"
      /\ wire = "open" => Types(tr'.out) \cap Terminators = {} /\ pending'.type \notin Terminators
  BY <1>3, <1>4 DEF Waiting
<1>6. Waiting'
  BY <1>3, <1>4, <1>5 DEF Waiting
<1>7. IsSeq(hand') /\ Types(hand') = {pending.type} /\ hand' # << >>
  BY SingleSeq, EmptyIsSeq
<1>8. Flows'
  <2>1. IsSeq(got)
    BY DEF Flows
  <2> QED BY <1>7, <2>1 DEF Flows
<1>9. Unsettled'
  BY <1>1, <1>3, <1>4, <1>5, <1>7 DEF Unsettled
<1>10. Settled' /\ Told'
  BY <1>1 DEF Settled, Told
<1>11. ErrorsEarned'
  BY <1>1, <1>7 DEF ErrorsEarned
<1>12. TypeOK'
  BY DEF TypeOK
<1> QED BY <1>6, <1>8, <1>9, <1>10, <1>11, <1>12

LEMMA PullNothingKeeps ==
    ASSUME SessionInv, PullNothing
    PROVE  SessionInv'
<1> USE DEF SessionInv, PullNothing, Close
<1>1. ~last /\ outcomes = << >> /\ released = 0
  BY DEF Settled, Unsettled, TypeOK
<1>2. outcomes' = <<"success">>
  BY <1>1
<1>3. Waiting' /\ Flows'
  BY DEF Waiting, Flows, reading
<1>4. Unsettled' /\ Settled'
  BY <1>2 DEF Unsettled, Settled
<1>7. Told'
  BY <1>2 DEF Told
<1>5. ErrorsEarned'
  BY <1>1 DEF ErrorsEarned, reading
<1>6. TypeOK'
  <2>1. <<"success">> \in Seq({"success", "failure"})
    OBVIOUS
  <2>2. outcomes' \in Seq({"success", "failure"})
    BY <1>2, <2>1
  <2> QED BY <1>1, <2>2 DEF TypeOK, reading
<1> QED BY <1>3, <1>4, <1>5, <1>6, <1>7

LEMMA PullEndsKeeps ==
    ASSUME SessionInv, PullEnds
    PROVE  SessionInv'
<1> USE DEF SessionInv, PullEnds, Stops, Awaiting
<1>1. ~last /\ outcomes = << >> /\ pending.type # "error"
  BY DEF Settled, Unsettled
<1>2. outcomes' = <<"success">>
  BY <1>1
<1>3. IsSeq(hand') /\ Types(hand') = {pending.type} /\ hand' # << >>
  BY SingleSeq, EmptyIsSeq
<1>4. Waiting'
  BY DEF Waiting
<1>5. Flows'
  <2>1. IsSeq(got)
    BY DEF Flows
  <2> QED BY <1>3, <2>1 DEF Flows
<1>6. Unsettled' /\ Settled'
  BY <1>2 DEF Unsettled, Settled
<1>7. Told'
  BY <1>2 DEF Told
<1>8. ErrorsEarned'
  BY <1>1, <1>3 DEF ErrorsEarned
<1>9. TypeOK'
  <2>1. <<"success">> \in Seq({"success", "failure"})
    OBVIOUS
  <2>2. outcomes' \in Seq({"success", "failure"})
    BY <1>2, <2>1
  <2> QED BY <2>2 DEF TypeOK
<1> QED BY <1>4, <1>5, <1>6, <1>7, <1>8, <1>9

LEMMA PullFailsKeeps ==
    ASSUME SessionInv, PullFails
    PROVE  SessionInv'
<1> USE DEF SessionInv, PullFails, Awaiting
<1>1. ~last /\ outcomes = << >>
  BY DEF Settled, Unsettled
<1>2. outcomes' = <<"failure">>
  BY <1>1
<1> DEFINE e == Frame("error")
           z == EndFrame
<1>3. IsSeq(ErrorFrames) /\ "error" \in Types(ErrorFrames)
  <2>1. e.type = "error"
    BY DEF Frame
  <2> HIDE DEF e, z
  <2>3. <<e, z>> \in Seq({e, z}) /\ Len(<<e, z>>) = 2 /\ <<e, z>>[1] = e /\ 1 \in 1..2
    OBVIOUS
  <2>4. IsSeq(<<e, z>>) /\ "error" \in Types(<<e, z>>)
    BY <2>1, <2>3, SeqIsSeq DEF Types
  <2> QED BY <2>4 DEF ErrorFrames, e, z
<1>4. IsSeq(hand') /\ "error" \in Types(hand') /\ hand' # << >>
  <2>1. IsSeq(<<pending>>)
    BY SingleSeq
  <2> HIDE DEF e, z
  <2>2. IsSeq(hand') /\ Types(hand') = Types(<<pending>>) \cup Types(ErrorFrames)
    BY <1>3, <2>1, ConcatSeq
  <2> QED BY <1>3, <2>2, EmptyIsSeq
<1>5. Waiting'
  BY DEF Waiting
<1>6. Flows'
  <2>1. IsSeq(got)
    BY DEF Flows
  <2> QED BY <1>4, <2>1 DEF Flows
<1>7. Unsettled' /\ Settled' /\ ErrorsEarned'
  BY <1>2 DEF Unsettled, Settled, ErrorsEarned
<1>8. Told'
  BY <1>4 DEF Told, ToTell
<1>9. TypeOK'
  <2>1. <<"failure">> \in Seq({"success", "failure"})
    OBVIOUS
  <2>2. outcomes' \in Seq({"success", "failure"})
    BY <1>2, <2>1
  <2> QED BY <2>2 DEF TypeOK
<1> QED BY <1>5, <1>6, <1>7, <1>8, <1>9

LEMMA ReadsKeep ==
    ASSUME SessionInv, ReadChunk \/ ReadDone
    PROVE  SessionInv'
<1> USE DEF SessionInv, Awaiting
<1>1. ~last /\ outcomes = << >> /\ pc = "pull" /\ wire = "open" /\ tr.out = << >> /\ AnthropicState(tr)
      /\ pending.type # "error" /\ pending.type \notin Terminators
  BY DEF Settled, Unsettled, ReadChunk, ReadDone, Waiting
<1>2. UNCHANGED <<surface, pump, ledgers, resp, client, got>>
  BY DEF ReadChunk, ReadDone
<1>3. CASE ReadChunk
  <2>1. PICK c \in Chunks : kinds' = kinds \cup {c.kind} /\ tr' = AfterChunk(tr, c)
    BY <1>3 DEF ReadChunk
  <2>2. AnthropicState(tr') /\ Types(tr'.out) \subseteq Body \cup {"data"}
    BY <1>1, <2>1, AfterChunkKeeps
  <2>3. "error" \notin Types(tr'.out) /\ Types(tr'.out) \cap Terminators = {}
    BY <2>2 DEF Body, Terminators
  <2>4. EndLast(tr'.out)
    BY <2>3 DEF EndLast, Types
  <2>5. Waiting'
    BY <2>2, <2>3, <2>4 DEF Waiting
  <2>6. TypeOK'
    <3>1. n' \in 0..MaxChunks /\ wire' = wire
      BY <1>3, SessionAssumption DEF TypeOK, ReadChunk
    <3>2. kinds' \subseteq {d.kind : d \in Chunks}
      BY <2>1 DEF TypeOK
    <3> QED BY <1>2, <3>1, <3>2 DEF TypeOK, pump, ledgers
  <2> QED BY <1>1, <1>2, <2>5, <2>6
         DEF Flows, Unsettled, Settled, ErrorsEarned, Told, ToTell, pump, ledgers
<1>4. CASE ReadDone
  <2>1. wire' \in {"done", "ended"}
    BY <1>4 DEF ReadDone, WireAfterDone
  <2>2. AnthropicState(tr') /\ EndLast(tr'.out) /\ "error" \notin Types(tr'.out)
    <3>1. tr' = AfterDone(tr)
      BY <1>4 DEF ReadDone
    <3> QED BY <1>1, <3>1, AfterDoneKeeps
  <2>3. Waiting'
    BY <2>1, <2>2 DEF Waiting
  <2>4. TypeOK'
    BY <1>2, <1>4, <2>1 DEF TypeOK, ReadDone, pump, ledgers
  <2> QED BY <1>1, <1>2, <2>3, <2>4
         DEF Flows, Unsettled, Settled, ErrorsEarned, Told, ToTell, pump, ledgers
<1> QED BY <1>3, <1>4

\* Handing on the first of the frames in hand, to the client or to the
\* Responses translator above the pump.
LEMMA DeliverKeeps ==
    ASSUME SessionInv, Deliver
    PROVE  SessionInv'
<1> USE DEF SessionInv, Deliver, reading, ledgers
<1>1. IsSeq(hand) /\ hand # << >> /\ IsSeq(got)
  BY DEF Flows
<1>2. IsSeq(got') /\ Types(got') = Types(got) \cup {Head(hand).type}
  BY <1>1, AppendSeq
<1>3. Types(hand) = {Head(hand).type} \cup Types(Tail(hand))
  BY <1>1, TailSeq
<1>4. Waiting' /\ TypeOK' /\ Settled'
  BY DEF Waiting, TypeOK, Settled
<1>5. Flows'
  BY <1>1, <1>2 DEF Flows
<1>6. Unsettled'
  BY <1>2, <1>3 DEF Unsettled
<1>7. ErrorsEarned'
  BY <1>2, <1>3 DEF ErrorsEarned
<1>8. Told'
  BY <1>2, <1>3 DEF Told, ToTell
<1> QED BY <1>4, <1>5, <1>6, <1>7, <1>8

LEMMA TranslateKeeps ==
    ASSUME SessionInv, Translate
    PROVE  SessionInv'
<1> USE DEF SessionInv
<1> DEFINE s == R!Read(resp, Head(hand))
<1>1. /\ pc = "yield" /\ surface = "responses" /\ pc' = "sent"
      /\ got' = got \o s.out /\ resp' = [s EXCEPT !.out = << >>]
      /\ UNCHANGED <<surface, reading, pending, hand, last, ledgers, client>>
  BY DEF Translate
<1>2. IsSeq(got) /\ hand # << >> /\ ResponsesState(resp) /\ resp.out = << >> /\ IsSeq(hand)
  BY <1>1 DEF Flows
<1>3. ResponsesState(s) /\ Types(s.out) \subseteq {"created", "start", "delta"}
  BY <1>2, RespondsRead, EmptyIsSeq DEF Responds
<1> HIDE DEF s
<1>4. IsSeq(got') /\ Types(got') = Types(got) \cup Types(s.out)
  BY <1>1, <1>2, <1>3, ConcatSeq DEF ResponsesState
<1>5. ResponsesState(resp') /\ resp'.out = << >>
  BY <1>1, <1>3, EmptyIsSeq DEF ResponsesState
<1>6. Waiting'
  BY <1>1 DEF Waiting, reading
<1>7. TypeOK'
  BY <1>1 DEF TypeOK, reading, ledgers
<1>8. Flows'
  BY <1>1, <1>2, <1>4, <1>5 DEF Flows
<1>9. Unsettled'
  <2>1. Types(s.out) \cap Terminators = {}
    BY <1>3 DEF Terminators
  <2> QED BY <1>1, <1>4, <2>1 DEF Unsettled, reading, ledgers
<1>10. Settled' /\ ErrorsEarned' /\ Told'
  BY <1>1 DEF Settled, ErrorsEarned, Told, ledgers
<1> QED BY <1>6, <1>7, <1>8, <1>9, <1>10

\* The Responses translator says "completed" when it meets [DONE], which the
\* pump hands on only once the attempt is settled.
LEMMA TranslateDoneKeeps ==
    ASSUME SessionInv, TranslateDone
    PROVE  SessionInv'
<1> USE DEF SessionInv, TranslateDone
<1>1. IsSeq(hand) /\ hand # << >>
  BY DEF Flows
<1>2. Head(hand).type \in Types(hand) /\ Head(hand).type \in Terminators
  BY <1>1, TailSeq DEF Terminators
<1>3. last
  BY <1>2 DEF Unsettled
<1>4. Waiting' /\ TypeOK'
  BY DEF Waiting, TypeOK, reading, ledgers
<1>5. Flows'
  BY DEF Flows, reading
<1>6. Unsettled' /\ Settled' /\ ErrorsEarned' /\ Told'
  BY <1>3 DEF Unsettled, Settled, ErrorsEarned, Told, ledgers
<1> QED BY <1>4, <1>5, <1>6

LEMMA ResumeKeeps ==
    ASSUME SessionInv, Resume
    PROVE  SessionInv'
<1> USE DEF SessionInv, Resume
<1>1. IsSeq(hand) /\ hand # << >> /\ IsSeq(got)
  BY DEF Flows
<1>2. /\ IsSeq(Tail(hand)) /\ Types(hand) = {Head(hand).type} \cup Types(Tail(hand))
      /\ Len(hand) \in Nat \ {0} /\ Len(Tail(hand)) = Len(hand) - 1
      /\ Len(hand) <= 1 => Tail(hand) = << >>
  BY <1>1, TailSeq
<1>3. /\ Len(hand) > 1 => pc' = "yield" /\ released' = released
      /\ ~(Len(hand) > 1) /\ last => pc' = "closed" /\ released' = released + 1
      /\ ~(Len(hand) > 1) /\ ~last => pc' = "pull" /\ released' = released
  BY DEF Close
<1>4. Waiting'
  BY DEF Waiting, reading
<1>5. TypeOK'
  BY <1>3 DEF TypeOK, reading
<1>6. Flows'
  <2>1. pc' \in {"yield", "sent"} => Tail(hand) # << >>
    <3> DEFINE t == Tail(hand)
    <3>1. pc' \in {"yield", "sent"} => Len(t) > 0
      BY <1>2, <1>3
    <3> HIDE DEF t
    <3>2. pc' \in {"yield", "sent"} => t # << >>
      BY <3>1, EmptyIsSeq
    <3> QED BY <3>2 DEF t
  <2>2. surface # "responses" \/ pc' \notin {"abandoned", "closed"} => IsSeq(got)
    BY <1>1
  <2> QED BY <1>2, <2>1, <2>2 DEF Flows
<1>7. Unsettled'
  BY <1>2 DEF Unsettled, reading
<1>8. Settled'
  BY <1>3 DEF Settled
<1>9. ErrorsEarned'
  BY <1>2 DEF ErrorsEarned
<1>10. Told'
  <2> SUFFICES ASSUME surface # "responses", client = "there", outcomes = <<"failure">>
               PROVE  "error" \in Types(got) \/ "error" \in ToTell'
    BY DEF Told
  <2>1. "error" \in Types(got) \/ "error" \in Types(Tail(hand))
    BY DEF Told, ToTell
  <2>2. CASE Len(hand) > 1
    BY <1>3, <2>1, <2>2 DEF ToTell
  <2>3. CASE ~(Len(hand) > 1)
    <3> DEFINE t == Tail(hand)
    <3>1. t = << >> /\ ("error" \in Types(got) \/ "error" \in Types(t))
      BY <1>2, <2>1, <2>3
    <3> HIDE DEF t
    <3> QED BY <3>1, EmptyIsSeq
  <2> QED BY <2>2, <2>3
<1> QED BY <1>4, <1>5, <1>6, <1>7, <1>8, <1>9, <1>10

\* The pump's ends that hand nothing on.
LEMMA ClosesKeep ==
    ASSUME SessionInv, PullCrashes \/ Leave \/ Finalize
    PROVE  SessionInv'
<1> USE DEF SessionInv
<1>1. /\ UNCHANGED <<surface, reading, pending, hand, last, outcomes, resp, got>>
      /\ pc' \in {"closed", "abandoned"}
  BY DEF PullCrashes, Leave, Finalize, Close
<1>2. /\ client' \in {"there", "gone", "cut"}
      /\ pc # "abandoned" => client' # "there" \/ surface = "responses"
      /\ pc = "abandoned" => pc' = "closed" /\ client' = client
      /\ pc \in {"pull", "sent", "abandoned"}
  BY DEF PullCrashes, Leave, Finalize, Close, TypeOK, Awaiting
<1>3. released' = IF pc' = "closed" THEN 1 ELSE 0
  BY DEF PullCrashes, Leave, Finalize, Close, TypeOK, Awaiting
<1>4. Waiting'
  BY <1>1 DEF Waiting, reading
<1>5. TypeOK'
  BY <1>1, <1>2, <1>3 DEF TypeOK, reading
<1>6. Flows'
  BY <1>1, <1>2 DEF Flows
<1>7. Unsettled' /\ Settled' /\ ErrorsEarned'
  BY <1>1 DEF Unsettled, Settled, ErrorsEarned, reading
<1>8. Told'
  BY <1>1, <1>2 DEF Told, ToTell
<1> QED BY <1>4, <1>5, <1>6, <1>7, <1>8

LEMMA SessionStep ==
    ASSUME SessionInv, [Next]_vars
    PROVE  SessionInv'
<1>1. CASE UNCHANGED vars
  BY <1>1 DEF vars, reading, pump, ledgers, SessionInv, TypeOK, Waiting, Flows, Unsettled,
             Settled, ErrorsEarned, Told, ToTell
<1>2. CASE Next
  BY <1>1, <1>2, PullNothingKeeps, PullNextKeeps, PullEndsKeeps, PullFailsKeeps, ReadsKeep, DeliverKeeps,
     TranslateKeeps, TranslateDoneKeeps, ResumeKeeps, ClosesKeep DEF Next, Step, Closed
<1> QED BY <1>1, <1>2

LEMMA SessionAlways == Spec => []SessionInv
BY SessionInit, SessionStep, PTL DEF Spec

LEMMA GotTypes ==
    ASSUME NEW types
    PROVE  Got(types) <=> Types(got) \cap types # {}
BY DEF Got, Types

\* Whatever the upstream, the client and the translators do, and however long
\* the stream: both slots of the request are given back once, when the pump
\* closes, and never twice (StreamSession._pump's finally).
THEOREM SessionTypeCorrect == Spec => []TypeOK
BY SessionAlways, PTL DEF SessionInv

\* D16: the attempt is settled once, and before any surface's terminator
\* reaches the client.
THEOREM SettledFirst == Spec => []SettledBeforeEnd
<1>1. SessionInv => SettledBeforeEnd
  <2> SUFFICES ASSUME SessionInv PROVE SettledBeforeEnd
    OBVIOUS
  <2>1. ~last => outcomes = << >> /\ ~Got(Terminators)
    BY GotTypes DEF SessionInv, Unsettled
  <2>2. last => outcomes = <<"success">> \/ outcomes = <<"failure">>
    BY DEF SessionInv, Settled
  <2>3. Len(<<"success">>) = 1 /\ Len(<<"failure">>) = 1 /\ Len(<< >>) = 0
    OBVIOUS
  <2>4. CASE last
    <3>1. Len(outcomes) = 1
      BY <2>2, <2>3, <2>4
    <3> QED BY <3>1 DEF SettledBeforeEnd
  <2>5. CASE ~last
    <3>1. Len(outcomes) = 0
      BY <2>1, <2>3, <2>5
    <3> QED BY <2>1, <2>5, <3>1 DEF SettledBeforeEnd
  <2> QED BY <2>4, <2>5
<1> QED BY <1>1, SessionAlways, PTL

\* A failure after the first byte reaches the client that waited for it, and
\* an error frame is never sent about anything else.
THEOREM FailuresTold == Spec => []FailureTold
<1>1. SessionInv => FailureTold
  BY GotTypes DEF SessionInv, ErrorsEarned, Told, ToTell, FailureTold
<1> QED BY <1>1, SessionAlways, PTL

---------------------------------------------------------------------------
(* The translator's fields, one operator at a time *)

\* From s to t one frame more is waiting.
Adds(s, t, e) == t.out = s.out \o <<e>>

LEMMA OpenedIs ==
    ASSUME NEW s, AnthropicState(s)
    PROVE  LET t == A!Opened(s) IN
           /\ t.text = s.text /\ t.blocks = s.blocks /\ t.open = s.open /\ t.next = s.next
           /\ t.crashed = s.crashed
           /\ s.started => t = s
           /\ ~s.started => t.started /\ Adds(s, t, A!Plain("message_start"))
BY DEF A!Opened, A!Emit, AnthropicState, Adds

LEMMA TextStartedIs ==
    ASSUME NEW s, AnthropicState(s)
    PROVE  LET t == A!TextStarted(s) IN
           /\ s.text # A!None => t = s
           /\ s.text = A!None =>
                /\ t.text = s.next /\ t.next = s.next + 1 /\ t.open = s.open \cup {s.next}
                /\ t.blocks = A!Put(s.blocks, s.next, A!TextEntry)
                /\ t.started = s.started /\ t.crashed = s.crashed
                /\ Adds(s, t, A!Event("start", s.next, "text"))
BY DEF A!TextStarted, A!Emit, AnthropicState, Adds

LEMMA TextClosedIs ==
    ASSUME NEW s, AnthropicState(s)
    PROVE  LET t == A!TextClosed(s) IN
           /\ s.text \notin s.open => t = s
           /\ t.text = s.text /\ t.blocks = s.blocks /\ t.next = s.next
           /\ t.started = s.started /\ t.crashed = s.crashed
BY DEF A!TextClosed, A!Emit, AnthropicState, Adds

LEMMA ToolStartedIs ==
    ASSUME NEW s, AnthropicState(s), NEW i
    PROVE  LET t == A!ToolStarted(s, i)
               c == A!TextClosed(s) IN
           /\ i \in DOMAIN s.blocks => t = s
           /\ i \notin DOMAIN s.blocks =>
                /\ t.text = s.text /\ t.next = s.next + 1 /\ t.open = c.open \cup {s.next}
                /\ t.blocks = A!Put(s.blocks, i, s.next)
                /\ t.started = s.started /\ t.crashed = s.crashed
                /\ Adds(c, t, A!Event("start", s.next, "tool"))
<1> DEFINE c == A!TextClosed(s)
<1>1. AnthropicState(c)
  BY TextClosedEmits DEF Emits
<1>2. /\ c.text = s.text /\ c.blocks = s.blocks /\ c.next = s.next
      /\ c.started = s.started /\ c.crashed = s.crashed
  BY TextClosedIs
<1>3. A!ToolStarted(s, i) =
        IF i \in DOMAIN s.blocks THEN s
        ELSE A!Emit([c EXCEPT !.blocks = A!Put(c.blocks, i, c.next), !.next = c.next + 1,
                              !.open = c.open \cup {c.next}],
                    <<A!Event("start", c.next, "tool")>>)
  BY DEF A!ToolStarted
<1> HIDE DEF c
<1>4. i \notin DOMAIN s.blocks =>
        LET t == A!ToolStarted(s, i) IN
        /\ t.text = c.text /\ t.next = c.next + 1 /\ t.open = c.open \cup {c.next}
        /\ t.blocks = A!Put(c.blocks, i, c.next)
        /\ t.started = c.started /\ t.crashed = c.crashed
        /\ Adds(c, t, A!Event("start", c.next, "tool"))
  BY <1>1, <1>3 DEF A!Emit, AnthropicState, Adds
<1>5. i \in DOMAIN s.blocks => A!ToolStarted(s, i) = s
  BY <1>3
<1> QED BY <1>2, <1>4, <1>5 DEF c

LEMMA TextIs ==
    ASSUME NEW s, AnthropicState(s), NEW t, t = A!TextStarted(s), NEW u, u = A!Text(s)
    PROVE  /\ u.text = t.text /\ u.blocks = t.blocks /\ u.open = t.open /\ u.next = t.next
           /\ u.started = t.started /\ u.crashed = t.crashed
           /\ Adds(t, u, A!Event("delta", t.text, "text"))
<1>1. AnthropicState(t)
  BY TextStartedEmits DEF Emits
<1> QED BY <1>1 DEF A!Text, A!Emit, AnthropicState, Adds

LEMMA ToolIs ==
    ASSUME NEW s, AnthropicState(s), NEW i, NEW args,
           NEW t, t = A!ToolStarted(s, i), NEW u, u = A!Tool(s, i, args)
    PROVE  /\ u.text = t.text /\ u.blocks = t.blocks /\ u.open = t.open /\ u.next = t.next
           /\ u.started = t.started
           /\ u.crashed # t.crashed => u.crashed /\ t.blocks[i] = A!TextEntry
           /\ t.blocks[i] # A!TextEntry =>
                u = t \/ Adds(t, u, A!Event("delta", t.blocks[i], "tool"))
<1>1. AnthropicState(t)
  BY ToolStartedEmits DEF Emits
<1> QED BY <1>1 DEF A!Tool, A!Emit, AnthropicState, Adds

LEMMA FinishCrashes ==
    ASSUME NEW s, AnthropicState(s)
    PROVE  A!Finish(s).crashed = s.crashed
<1> DEFINE t == A!Opened(s)
           u == IF t.blocks = << >> THEN A!TextStarted(t) ELSE t
<1>1. AnthropicState(t) /\ t.crashed = s.crashed
  BY OpenedEmits, OpenedIs DEF Emits
<1>2. \E y : A!Finish(s) = [u EXCEPT !.open = {}, !.out = y]
  BY DEF A!Finish, A!Emit
<1> HIDE DEF t
<1>3. AnthropicState(u) /\ u.crashed = t.crashed
  BY <1>1, TextStartedEmits, TextStartedIs DEF Emits
<1> HIDE DEF u
<1> QED BY <1>1, <1>2, <1>3 DEF AnthropicState

---------------------------------------------------------------------------
(* Nobody who waits is left without a terminator *)

\* The translator keeps the text block's entry, which a tool call under the
\* same index trips over, only when the answer had text.
Clean(s, K) ==
    /\ s.next \in Nat
    /\ \A i \in DOMAIN s.blocks : s.blocks[i] = A!TextEntry => "text" \in K
    /\ s.crashed => {"text", "tool"} \subseteq K

LEMMA TextClean ==
    ASSUME NEW s, AnthropicState(s), NEW K, Clean(s, K)
    PROVE  Clean(A!Text(s), K \cup {"text"})
<1> DEFINE t == A!TextStarted(s)
           u == A!Text(s)
<1>1. (t.next = s.next \/ t.next = s.next + 1) /\ t.crashed = s.crashed
  BY TextStartedIs
<1>2. t = A!TextStarted(s) /\ u = A!Text(s)
  OBVIOUS
<1> HIDE DEF t, u
<1>3. u.next = t.next /\ u.crashed = t.crashed
  BY <1>2, TextIs
<1>4. Clean(u, K \cup {"text"})
  BY <1>1, <1>3 DEF Clean
<1> QED BY <1>2, <1>4

LEMMA ToolClean ==
    ASSUME NEW s, AnthropicState(s), NEW K, Clean(s, K), NEW i, NEW args
    PROVE  Clean(A!Tool(s, i, args), K \cup {"tool"})
<1> DEFINE t == A!ToolStarted(s, i)
           u == A!Tool(s, i, args)
<1>1. /\ i \in DOMAIN s.blocks => t.next = s.next /\ t.blocks = s.blocks /\ t.crashed = s.crashed
      /\ i \notin DOMAIN s.blocks =>
            /\ t.next = s.next + 1 /\ t.blocks = A!Put(s.blocks, i, s.next)
            /\ t.crashed = s.crashed
  BY ToolStartedIs
<1>0. t = A!ToolStarted(s, i) /\ u = A!Tool(s, i, args)
  OBVIOUS
<1> HIDE DEF t, u
<1>2. /\ u.blocks = t.blocks /\ u.next = t.next
      /\ u.crashed # t.crashed => u.crashed /\ t.blocks[i] = A!TextEntry
  BY <1>0, ToolIs
<1>3. s.next # A!TextEntry /\ s.next \in Nat /\ t.next \in Nat
  BY <1>1 DEF Clean, A!TextEntry
<1>4. i \in DOMAIN t.blocks
  BY <1>1 DEF A!Put
<1>5. \A j \in DOMAIN t.blocks : t.blocks[j] = A!TextEntry => "text" \in K
  BY <1>1, <1>3 DEF A!Put, Clean
<1>6. u.crashed => {"text", "tool"} \subseteq K \cup {"tool"}
  BY <1>1, <1>2, <1>4, <1>5 DEF Clean
<1>7. Clean(u, K \cup {"tool"})
  BY <1>2, <1>3, <1>5, <1>6 DEF Clean
<1> QED BY <1>7 DEF u

LEMMA ReadClean ==
    ASSUME NEW s, AnthropicState(s), NEW K, Clean(s, K), NEW c
    PROVE  Clean(A!Read(s, c), K \cup {c.kind})
<1> DEFINE t == A!Opened(s)
<1>1. AnthropicState(t)
  BY OpenedEmits DEF Emits
<1>2. t.next = s.next /\ t.blocks = s.blocks /\ t.crashed = s.crashed
  BY OpenedIs
<1>3. /\ c.kind = "text" => A!Read(s, c) = A!Text(t)
      /\ c.kind = "tool" => A!Read(s, c) = A!Tool(t, c.at, c.args)
      /\ c.kind \notin {"text", "tool"} => A!Read(s, c) = t
  BY DEF A!Read
<1> HIDE DEF t
<1>4. Clean(t, K)
  BY <1>2 DEF Clean
<1>5. Clean(t, K \cup {c.kind})
  BY <1>4 DEF Clean
<1>6. Clean(A!Text(t), K \cup {"text"}) /\ Clean(A!Tool(t, c.at, c.args), K \cup {"tool"})
  BY <1>1, <1>4, TextClean, ToolClean
<1> QED BY <1>3, <1>5, <1>6

---------------------------------------------------------------------------
(* The end of a Responses answer *)

\* An item that was never there is not done.
Item(at, kind) == IF at = R!None THEN << >> ELSE <<R!Event("stop", at, kind)>>
CallEvents(s) ==
    [i \in 1..Cardinality(DOMAIN s.calls) |->
        R!Event("stop", s.calls[R!Nth(DOMAIN s.calls, i - 1)], "tool")]

\* The last frame of a longer sequence.
LEMMA EndTail ==
    ASSUME NEW q, IsSeq(q), q # << >>, NEW types, EndsWith(q, types)
    PROVE  /\ Tail(q) # << >> => EndsWith(Tail(q), types)
           /\ Tail(q) = << >> => Head(q).type \in types
<1>1. /\ Tail(q) \in Seq(Parts(q)) /\ Len(Tail(q)) = Len(q) - 1 /\ Len(q) \in Nat \ {0}
      /\ \A i \in 1..(Len(q) - 1) : Tail(q)[i] = q[i + 1]
      /\ Head(q) = q[1]
  BY HeadTailProperties, LenProperties, EmptySeq DEF IsSeq
<1>2. ASSUME Tail(q) # << >> PROVE EndsWith(Tail(q), types)
  <2>1. Len(Tail(q)) \in Nat \ {0}
    BY <1>1, <1>2, EmptySeq, LenProperties
  <2>2. Len(Tail(q)) \in 1..(Len(q) - 1) /\ Len(Tail(q)) + 1 = Len(q)
    BY <1>1, <2>1
  <2>3. Tail(q)[Len(Tail(q))] = q[Len(q)]
    BY <1>1, <2>2
  <2> QED BY <1>2, <2>3 DEF EndsWith
<1>3. ASSUME Tail(q) = << >> PROVE Head(q).type \in types
  <2> DEFINE t == Tail(q)
  <2>1. Len(t) = Len(q) - 1 /\ Len(q) \in Nat /\ t = << >>
    BY <1>1, <1>3
  <2> HIDE DEF t
  <2>2. Len(q) = 1
    BY <2>1, EmptyIsSeq
  <2> QED BY <1>1, <2>2 DEF EndsWith
<1> QED BY <1>2, <1>3

LEMMA EndAppend ==
    ASSUME NEW q, IsSeq(q), NEW e, NEW types, e.type \in types
    PROVE  EndsWith(Append(q, e), types)
<1> DEFINE S == Parts(q) \cup {e}
<1>1. q \in Seq(S) /\ e \in S
  BY SeqMonotonic DEF IsSeq
<1> HIDE DEF S
<1>2. /\ Append(q, e) \in Seq(S) /\ Len(Append(q, e)) = Len(q) + 1 /\ Len(q) \in Nat
      /\ Append(q, e)[Len(q) + 1] = e
  BY <1>1, AppendProperties, LenProperties
<1>3. Append(q, e) # << >>
  <2> DEFINE r == Append(q, e)
  <2>1. Len(r) > 0
    BY <1>2
  <2> HIDE DEF r
  <2>2. r # << >>
    BY <2>1, EmptyIsSeq
  <2> QED BY <2>2 DEF r
<1> QED BY <1>2, <1>3 DEF EndsWith

LEMMA EndConcat ==
    ASSUME NEW p, IsSeq(p), NEW q, IsSeq(q), NEW types, EndsWith(q, types)
    PROVE  EndsWith(p \o q, types)
<1> DEFINE r == p \o q
<1>1. /\ Len(r) = Len(p) + Len(q) /\ Len(p) \in Nat /\ Len(q) \in Nat
      /\ \A i \in 1..(Len(p) + Len(q)) : r[i] = IF i <= Len(p) THEN p[i] ELSE q[i - Len(p)]
  BY ConcatSeq
<1>2. Len(q) # 0
  BY EmptySeq DEF EndsWith, IsSeq
<1> HIDE DEF r
<1>3. r[Len(r)] = q[Len(q)]
  <2>1. Len(r) \in 1..(Len(p) + Len(q)) /\ ~(Len(r) <= Len(p)) /\ Len(r) - Len(p) = Len(q)
    BY <1>1, <1>2
  <2> QED BY <1>1, <2>1
<1>4. r # << >>
  <2>1. Len(r) > 0
    BY <1>1, <1>2
  <2> QED BY <2>1, EmptyIsSeq
<1>5. EndsWith(r, types)
  BY <1>3, <1>4 DEF EndsWith
<1> QED BY <1>5 DEF r

LEMMA EndSingle ==
    ASSUME NEW e, NEW types, e.type \in types
    PROVE  EndsWith(<<e>>, types)
<1>1. Len(<<e>>) = 1 /\ <<e>>[1] = e /\ <<e>> # << >>
  OBVIOUS
<1> QED BY <1>1 DEF EndsWith

LEMMA FinishIs ==
    ASSUME NEW s, ResponsesState(s), s.out = << >>
    PROVE  /\ IsSeq(Item(s.think, "think")) /\ IsSeq(Item(s.text, "text")) /\ IsSeq(CallEvents(s))
           /\ R!Finish(s).out =
                ((Item(s.think, "think") \o Item(s.text, "text")) \o CallEvents(s)) \o <<R!Plain("completed")>>
           /\ IsSeq(R!Finish(s).out) /\ "completed" \in Types(R!Finish(s).out)
           /\ EndsWith(R!Finish(s).out, {"completed"})
<1> DEFINE a == Item(s.think, "think")
           b == Item(s.text, "text")
           c == CallEvents(s)
           e == R!Plain("completed")
           z == <<e>>
           y == ((a \o b) \o c) \o z
<1>1. IsSeq(a) /\ IsSeq(b)
  <2>1. \A at, kind : IsSeq(Item(at, kind))
    BY EmptyIsSeq, SingleSeq DEF Item
  <2> QED BY <2>1
<1>2. IsSeq(c)
  <2>1. Cardinality(DOMAIN s.calls) \in Nat
    BY FS_CardinalityType DEF ResponsesState
  <2> DEFINE S == {c[i] : i \in 1..Cardinality(DOMAIN s.calls)}
  <2>2. c \in [1..Cardinality(DOMAIN s.calls) -> S]
    BY DEF CallEvents
  <2> HIDE DEF S, c
  <2>3. c \in Seq(S)
    BY <2>1, <2>2, SeqDef
  <2> QED BY <2>3, SeqIsSeq
<1>3. IsSeq(z) /\ Types(z) = {"completed"} /\ EndsWith(z, {"completed"})
  <2>1. e.type = "completed"
    BY DEF R!Event, R!Plain
  <2> HIDE DEF e
  <2> QED BY <2>1, SingleSeq, EndSingle
<1>4. R!Finish(s).out = s.out \o y
  <2>1. R!Cardinality(DOMAIN s.calls) = Cardinality(DOMAIN s.calls)
    BY DEF R!Cardinality, Cardinality
  <2>2. R!Finish(s) = R!Emit(s, y)
    BY <2>1 DEF R!Finish, Item, CallEvents
  <2> HIDE DEF y
  <2> QED BY <2>2 DEF R!Emit, ResponsesState
<1> HIDE DEF a, b, c, z
<1>5. IsSeq((a \o b) \o c)
  BY <1>1, <1>2, ConcatSeq
<1>6. IsSeq(y) /\ "completed" \in Types(y) /\ EndsWith(y, {"completed"})
  BY <1>3, <1>5, ConcatSeq, EndConcat
<1>7. R!Finish(s).out = y
  <2> HIDE DEF y
  <2>1. y \in Seq(Parts(y))
    BY <1>6 DEF IsSeq
  <2> QED BY <1>4, <2>1, ConcatEmptySeq
<1> QED BY <1>1, <1>2, <1>6, <1>7 DEF a, b, c, z

---------------------------------------------------------------------------
(* The session, continued *)

\* Only a message with text and tool calls trips the translator.
Tripping ==
    /\ surface # "translated" => ~tr.crashed
    /\ surface = "translated" /\ wire = "open" => Clean(tr, kinds)
    /\ tr.crashed \/ client = "cut" => Mixed

\* What the pump still yields before it pulls again.
Rest == CASE pc = "yield" -> hand [] pc = "sent" -> Tail(hand) [] OTHER -> << >>

\* A client that waits has the terminator last or will get it last.
Ending ==
    /\ ~last =>
        /\ wire \notin {"open", "cut"} => EndFrame.type \in {pending.type} \cup Types(tr.out)
        /\ client = "there" => pc \notin {"closed", "abandoned"}
        /\ pc = "empty" => wire = "cut"
    /\ last /\ client = "there" /\ wire # "cut" =>
        IF Rest = << >> THEN EndsWith(got, Terminators) ELSE EndsWith(Rest, {EndFrame.type})

EndInv == SessionInv /\ Tripping /\ Ending

LEMMA EndFrameType ==
    /\ EndFrame.type = (IF surface \in {"native", "translated"} THEN "message_stop" ELSE "done")
    /\ EndFrame.type \in Terminators
BY DEF EndFrame, Frame, Terminators

LEMMA TrippingInit == Init => Tripping
<1> SUFFICES ASSUME Init PROVE Tripping
  OBVIOUS
<1> DEFINE f == A!Fresh
<1>1. AnthropicState(f) /\ f.crashed = FALSE /\ f.next = 0 /\ DOMAIN f.blocks = {}
  <2>1. DOMAIN << >> = {}
    OBVIOUS
  <2> QED BY <2>1, EmptyIsSeq, FS_EmptySet DEF A!Fresh, AnthropicState
<1> HIDE DEF f
<1>2. client = "there"
  BY DEF Init
<1>3. CASE \E c \in Chunks : FirstOf(AfterChunk(f, c)) /\ kinds = {c.kind} /\ n = 1 /\ wire = "open"
  <2>1. PICK c \in Chunks : FirstOf(AfterChunk(f, c)) /\ kinds = {c.kind}
    BY <1>3
  <2> DEFINE t == AfterChunk(f, c)
  <2>2. Clean(f, {})
    BY <1>1 DEF Clean
  <2>3. surface = "translated" => Clean(t, kinds) /\ AnthropicState(t)
    <3>1. Clean(A!Read(f, c), {} \cup {c.kind}) /\ AnthropicState(A!Read(f, c))
      BY <1>1, <2>2, ReadClean, ReadEmits DEF Emits
    <3> QED BY <2>1, <3>1 DEF AfterChunk
  <2>4. surface # "translated" => ~t.crashed /\ AnthropicState(t)
    <3> DEFINE d == <<Data(c)>>
    <3>1. IsSeq(d)
      BY SingleSeq
    <3> HIDE DEF d
    <3>2. [f EXCEPT !.out = d].crashed = FALSE /\ AnthropicState([f EXCEPT !.out = d])
      BY <1>1, <3>1 DEF AnthropicState
    <3> QED BY <3>2 DEF AfterChunk, d
  <2> HIDE DEF t
  <2>5. tr = [t EXCEPT !.out = Tail(t.out)]
    BY <2>1 DEF FirstOf, t
  <2>6. tr.crashed = t.crashed /\ tr.next = t.next /\ tr.blocks = t.blocks
    BY <2>3, <2>4, <2>5 DEF AnthropicState
  <2> QED BY <1>2, <2>3, <2>4, <2>6 DEF Tripping, Clean, Mixed
<1>4. CASE FirstOf(AfterDone(f)) /\ kinds = {} /\ n = 0 /\ wire = WireAfterDone
  <2> DEFINE t == AfterDone(f)
  <2>1. ~t.crashed
    <3>1. A!Finish(f).crashed = FALSE
      BY <1>1, FinishCrashes
    <3>2. \A d : [f EXCEPT !.out = d].crashed = FALSE
      BY <1>1 DEF AnthropicState
    <3> QED BY <3>1, <3>2 DEF AfterDone
  <2>2. AnthropicState(t)
    <3>1. f.out = << >>
      BY DEF f, A!Fresh
    <3> QED BY <1>1, <3>1, AfterDoneKeeps
  <2> HIDE DEF t
  <2>3. tr = [t EXCEPT !.out = Tail(t.out)]
    BY <1>4 DEF FirstOf, t
  <2>4. tr.crashed = t.crashed
    BY <2>2, <2>3 DEF AnthropicState
  <2>5. wire # "open"
    BY <1>4 DEF WireAfterDone
  <2> QED BY <1>2, <2>1, <2>4, <2>5 DEF Tripping
<1>5. CASE NoEvent
  BY <1>1, <1>2, <1>5 DEF NoEvent, Tripping, f
<1> QED BY <1>3, <1>4, <1>5 DEF Init, f

LEMMA TrippingStep ==
    ASSUME SessionInv, Tripping, [Next]_vars
    PROVE  Tripping'
<1>1. CASE UNCHANGED vars
  BY <1>1 DEF vars, reading, Tripping, Clean, Mixed
<1>2. CASE ReadChunk
  <2>1. PICK c \in Chunks : kinds' = kinds \cup {c.kind} /\ tr' = AfterChunk(tr, c)
    BY <1>2 DEF ReadChunk
  <2>2. wire = "open" /\ AnthropicState(tr) /\ UNCHANGED <<surface, wire, client>> /\ ~tr.crashed
    BY <1>2 DEF ReadChunk, Awaiting, SessionInv, Waiting
  <2>3. Mixed => Mixed'
    BY <2>1, <2>2 DEF Mixed
  <2>4. surface = "translated" => Clean(tr', kinds')
    BY <2>1, <2>2, ReadClean DEF Tripping, AfterChunk
  <2>5. surface # "translated" => ~tr'.crashed
    BY <2>1, <2>2 DEF AfterChunk, AnthropicState
  <2> QED BY <2>2, <2>3, <2>4, <2>5 DEF Tripping, Clean, Mixed
<1>3. CASE ReadDone
  <2>1. AnthropicState(tr) /\ tr' = AfterDone(tr) /\ UNCHANGED <<surface, kinds, client>> /\ ~tr.crashed
    BY <1>3 DEF ReadDone, Awaiting, SessionInv, Waiting
  <2>2. wire' # "open"
    BY <1>3 DEF ReadDone, WireAfterDone
  <2>3. ~tr'.crashed
    BY <2>1, FinishCrashes DEF AfterDone, AnthropicState
  <2> QED BY <2>1, <2>2, <2>3 DEF Tripping, Mixed
<1>4. CASE PullNext
  <2>1. tr' = [tr EXCEPT !.out = Tail(@)] /\ AnthropicState(tr) /\ UNCHANGED <<surface, wire, kinds, client>>
    BY <1>4 DEF PullNext, SessionInv, Waiting
  <2>2. tr'.crashed = tr.crashed /\ tr'.blocks = tr.blocks /\ tr'.next = tr.next
    BY <2>1 DEF AnthropicState
  <2> QED BY <2>1, <2>2 DEF Tripping, Clean, Mixed
<1>5. CASE PullEnds \/ PullFails
  <2>1. UNCHANGED <<surface, kinds, tr, client>> /\ wire' # "open"
    BY <1>5 DEF PullEnds, PullFails, Stops
  <2> QED BY <2>1 DEF Tripping, Mixed
<1>6. CASE PullCrashes
  <2>1. UNCHANGED <<surface, kinds, tr, wire>> /\ tr.crashed
    BY <1>6 DEF PullCrashes, reading
  <2> QED BY <2>1 DEF Tripping, Mixed, Clean
<1>7. CASE PullNothing \/ Resume \/ Deliver \/ Translate \/ TranslateDone \/ Finalize \/ Leave
  <2>1. UNCHANGED <<surface, reading>> /\ (client' = client \/ client' = "gone")
    BY <1>7 DEF PullNothing, Resume, Deliver, Translate, TranslateDone, Finalize, Leave
  <2> QED BY <2>1 DEF Tripping, Mixed, Clean, reading
<1> QED BY <1>1, <1>2, <1>3, <1>4, <1>5, <1>6, <1>7 DEF Next, Step, Closed

LEMMA EndingInit == Init => Ending
<1> SUFFICES ASSUME Init PROVE Ending
  OBVIOUS
<1>1. ~last /\ client = "there" /\ pc \notin {"closed", "abandoned"}
  BY DEF Init
<1>2. ASSUME wire \notin {"open", "cut"} PROVE EndFrame.type \in {pending.type} \cup Types(tr.out)
  <2> DEFINE t == AfterDone(A!Fresh)
  <2>1. FirstOf(t)
    BY <1>2 DEF Init, NoEvent
  <2>2. AnthropicState(A!Fresh) /\ A!Fresh.out = << >>
    BY EmptyIsSeq, FS_EmptySet DEF A!Fresh, AnthropicState
  <2>3. AnthropicState(t) /\ t.out # << >> /\ EndFrame.type \in Types(t.out)
    BY <2>2, AfterDoneKeeps
  <2> HIDE DEF t
  <2>4. pending = Head(t.out) /\ tr.out = Tail(t.out)
    BY <2>1, <2>3 DEF FirstOf, AnthropicState
  <2>5. Types(t.out) = {pending.type} \cup Types(tr.out)
    BY <2>3, <2>4, TailSeq DEF AnthropicState
  <2> QED BY <2>3, <2>5
<1>3. pc = "empty" => wire = "cut"
  BY DEF Init
<1> QED BY <1>1, <1>2, <1>3 DEF Ending

LEMMA EndingStep ==
    ASSUME SessionInv, Ending, [Next]_vars
    PROVE  Ending'
<1>0. surface' = surface => EndFrame' = EndFrame
  BY DEF EndFrame
<1>1. CASE UNCHANGED vars
  <2>1. UNCHANGED <<surface, wire, tr, pc, pending, hand, last, client, got>>
    BY <1>1 DEF vars, reading, pump
  <2>2. Rest' = Rest
    BY <2>1 DEF Rest
  <2> QED BY <1>0, <2>1, <2>2 DEF Ending
<1>2. CASE ReadChunk
  <2>1. /\ UNCHANGED <<surface, wire, pump, client, got>> /\ wire = "open"
    BY <1>2 DEF ReadChunk
  <2>2. Rest' = Rest
    BY <2>1 DEF Rest, pump
  <2> QED BY <1>0, <2>1, <2>2 DEF Ending, pump
<1>3. CASE ReadDone
  <2>1. /\ AnthropicState(tr) /\ tr.out = << >> /\ tr' = AfterDone(tr)
        /\ UNCHANGED <<surface, pump, client, got>> /\ pc = "pull" /\ ~last
    BY <1>3 DEF ReadDone, Awaiting, SessionInv, Waiting, Settled
  <2>2. EndFrame.type \in Types(tr'.out)
    BY <2>1, AfterDoneKeeps
  <2> QED BY <1>0, <2>1, <2>2 DEF Ending, pump
<1>4. CASE PullNext
  <2>1. /\ UNCHANGED <<surface, wire, last, client, got>> /\ pc' = "yield"
        /\ tr' = [tr EXCEPT !.out = Tail(@)] /\ pending' = Head(tr.out) /\ tr.out # << >>
        /\ AnthropicState(tr) /\ ~last
    BY <1>4 DEF PullNext, SessionInv, Waiting, Settled
  <2>2. Types(tr.out) = {pending'.type} \cup Types(tr'.out)
    BY <2>1, TailSeq DEF AnthropicState
  <2>3. pending.type \notin Terminators
    BY <2>1 DEF SessionInv, Unsettled
  <2> QED BY <1>0, <2>1, <2>2, <2>3, EndFrameType DEF Ending
<1>5. CASE PullEnds
  <2>1. /\ UNCHANGED <<surface, client, got>> /\ pc' = "yield" /\ hand' = <<pending>> /\ last'
        /\ tr.out = << >> /\ (wire' = "cut" \/ wire \in {"done", "ended"}) /\ ~last
    BY <1>5 DEF PullEnds, Stops, Awaiting, SessionInv, Settled
  <2>2. wire' # "cut" => EndFrame.type = pending.type
    BY <2>1, EmptyIsSeq DEF Ending
  <2>3. Rest' = <<pending>> /\ <<pending>> # << >>
    BY <2>1 DEF Rest
  <2>4. wire' # "cut" => EndsWith(<<pending>>, {EndFrame.type})
    BY <2>2, EndSingle
  <2> QED BY <1>0, <2>1, <2>3, <2>4 DEF Ending
<1>6. CASE PullFails
  <2>1. UNCHANGED <<surface, client, got>> /\ pc' = "yield" /\ hand' = <<pending>> \o ErrorFrames /\ last'
    BY <1>6 DEF PullFails
  <2> DEFINE e == Frame("error")
             z == EndFrame
  <2>2. IsSeq(ErrorFrames) /\ EndsWith(ErrorFrames, {z.type})
    <3> HIDE DEF e, z
    <3>1. <<e, z>> \in Seq({e, z}) /\ Len(<<e, z>>) = 2 /\ <<e, z>>[2] = z /\ <<e, z>> # << >>
      OBVIOUS
    <3>2. IsSeq(<<e, z>>) /\ EndsWith(<<e, z>>, {z.type})
      BY <3>1, SeqIsSeq DEF EndsWith
    <3> QED BY <3>2 DEF ErrorFrames, e, z
  <2>3. EndsWith(hand', {EndFrame.type})
    BY <2>1, <2>2, SingleSeq, EndConcat
  <2>4. Rest' = hand' /\ hand' # << >>
    BY <2>1, <2>3 DEF Rest, EndsWith
  <2> QED BY <1>0, <2>1, <2>3, <2>4 DEF Ending
<1>7. CASE PullCrashes \/ Leave
  <2>1. UNCHANGED <<surface, reading, pending, last, got>> /\ client' # "there" /\ pc' # "empty"
    BY <1>7 DEF PullCrashes, Leave, Close
  <2> QED BY <1>0, <2>1 DEF Ending, reading
<1>8. CASE Resume
  <2>1. /\ UNCHANGED <<surface, reading, pending, last, client, got>>
        /\ pc = "sent" /\ hand' = Tail(hand)
        /\ Len(hand) > 1 => pc' = "yield"
        /\ ~(Len(hand) > 1) => pc' = IF last THEN "closed" ELSE "pull"
        /\ IsSeq(hand) /\ hand # << >>
    BY <1>8 DEF Resume, Close, SessionInv, Flows
  <2>2. Len(hand) \in Nat \ {0} /\ (Len(hand) <= 1 => Tail(hand) = << >>)
    BY <2>1, TailSeq
  <2>3. Rest = Tail(hand) /\ Rest' = Rest
    <3>1. Rest = Tail(hand)
      BY <2>1 DEF Rest
    <3>2. CASE Len(hand) > 1
      BY <2>1, <3>1, <3>2 DEF Rest
    <3>3. CASE ~(Len(hand) > 1)
      <4>1. pc' \in {"closed", "pull"}
        BY <2>1, <3>3
      <4>2. Rest' = << >>
        BY <4>1 DEF Rest
      <4> QED BY <2>2, <3>1, <3>3, <4>2
    <3> QED BY <3>1, <3>2, <3>3
  <2>4. ~last => pc' \notin {"closed", "abandoned", "empty"}
    BY <2>1
  <2>5. UNCHANGED <<surface, wire, tr, pending, last, client, got>>
    BY <2>1 DEF reading
  <2> QED BY <1>0, <2>3, <2>4, <2>5 DEF Ending
<1>9. CASE Deliver
  <2>1. /\ UNCHANGED <<surface, wire, tr, pending, hand, last, client>>
        /\ pc = "yield" /\ pc' = "sent" /\ got' = Append(got, Head(hand))
        /\ IsSeq(hand) /\ hand # << >> /\ IsSeq(got)
    BY <1>9 DEF Deliver, SessionInv, Flows, reading
  <2>2. Rest = hand /\ Rest' = Tail(hand)
    BY <2>1 DEF Rest
  <2>3. EndsWith(hand, {EndFrame.type}) => IF Rest' = << >> THEN EndsWith(got', Terminators) ELSE EndsWith(Rest', {EndFrame.type})
    <3> SUFFICES ASSUME EndsWith(hand, {EndFrame.type})
                 PROVE  IF Rest' = << >> THEN EndsWith(got', Terminators) ELSE EndsWith(Rest', {EndFrame.type})
      OBVIOUS
    <3>1. /\ Tail(hand) # << >> => EndsWith(Tail(hand), {EndFrame.type})
          /\ Tail(hand) = << >> => Head(hand).type \in {EndFrame.type}
      BY <2>1, EndTail
    <3>2. Head(hand).type \in {EndFrame.type} => EndsWith(got', Terminators)
      BY <2>1, EndAppend, EndFrameType
    <3> QED BY <2>2, <3>1, <3>2
  <2>4. last /\ client = "there" /\ wire # "cut" => EndsWith(hand, {EndFrame.type})
    BY <2>1, <2>2 DEF Ending
  <2> QED BY <1>0, <2>1, <2>3, <2>4 DEF Ending
<1>10. CASE Translate
  <2>1. /\ UNCHANGED <<surface, wire, tr, pending, hand, last, client>>
        /\ pc = "yield" /\ pc' = "sent" /\ IsSeq(hand) /\ hand # << >>
        /\ surface = "responses" /\ Head(hand).type # "done"
    BY <1>10 DEF Translate, SessionInv, Flows, reading
  <2>2. EndFrame.type = "done"
    BY <2>1, EndFrameType
  <2>3. Rest = hand /\ Rest' = Tail(hand)
    BY <2>1 DEF Rest
  <2>4. last /\ client = "there" /\ wire # "cut" => EndsWith(hand, {EndFrame.type})
    BY <2>1, <2>3 DEF Ending
  <2>5. EndsWith(hand, {EndFrame.type}) => Tail(hand) # << >> /\ EndsWith(Tail(hand), {EndFrame.type})
    BY <2>1, <2>2, EndTail
  <2> QED BY <1>0, <2>1, <2>3, <2>4, <2>5 DEF Ending
<1>11. CASE TranslateDone
  <2>1. /\ UNCHANGED <<surface, wire, tr, pending, hand, last, client>>
        /\ pc = "yield" /\ pc' = "abandoned" /\ got' = got \o R!Finish(resp).out
        /\ IsSeq(hand) /\ hand # << >> /\ IsSeq(got)
        /\ Head(hand).type = "done" /\ ResponsesState(resp) /\ resp.out = << >>
    BY <1>11 DEF TranslateDone, SessionInv, Flows, reading
  <2>2. Head(hand).type \in Types(hand) /\ Head(hand).type \in Terminators
    BY <2>1, TailSeq DEF Terminators
  <2>3. last
    BY <2>2 DEF SessionInv, Unsettled
  <2>4. EndsWith(got', {"completed"})
    <3>1. IsSeq(R!Finish(resp).out) /\ EndsWith(R!Finish(resp).out, {"completed"})
      BY <2>1, FinishIs
    <3> DEFINE f == R!Finish(resp).out
    <3> HIDE DEF f
    <3>2. got' = got \o f /\ IsSeq(f) /\ EndsWith(f, {"completed"})
      BY <2>1, <3>1 DEF f
    <3> QED BY <2>1, <3>2, EndConcat
  <2>5. EndsWith(got', Terminators)
    BY <2>4 DEF EndsWith, Terminators
  <2>6. Rest' = << >>
    BY <2>1 DEF Rest
  <2> QED BY <2>1, <2>3, <2>5, <2>6 DEF Ending
<1>12. CASE Finalize
  <2>1. UNCHANGED <<surface, wire, tr, pending, last, client, got>> /\ pc = "abandoned" /\ pc' = "closed"
    BY <1>12 DEF Finalize, Close, reading
  <2>2. Rest = << >> /\ Rest' = << >>
    BY <2>1 DEF Rest
  <2> QED BY <1>0, <2>1, <2>2 DEF Ending
<1>13. CASE PullNothing
  <2>1. pc = "empty" /\ surface' = surface /\ wire' = wire /\ last' /\ ~last
    BY <1>13 DEF PullNothing, reading, SessionInv, Settled
  <2>2. wire = "cut"
    BY <2>1 DEF Ending
  <2> QED BY <2>1, <2>2 DEF Ending
<1> QED BY <1>1, <1>2, <1>3, <1>4, <1>5, <1>6, <1>7, <1>8, <1>9, <1>10, <1>11, <1>12, <1>13
        DEF Next, Step, Closed

LEMMA EndAlways == Spec => []EndInv
<1>1. Init => EndInv
  BY SessionInit, TrippingInit, EndingInit DEF EndInv
<1>2. EndInv /\ [Next]_vars => EndInv'
  BY SessionStep, TrippingStep, EndingStep DEF EndInv
<1> QED BY <1>1, <1>2, PTL DEF Spec

\* The last frame a client that waits receives is its dialect's terminator, on
\* every surface and whether the upstream ends or fails: save for a message
\* with both text and tool calls, which trips the Anthropic translator and is
\* cut, and a native answer whose upstream ended without its own message_stop,
\* which the session neither notices nor completes.
THEOREM Terminated == Spec => []EndsUnlessMixed
<1>1. EndInv => EndsUnlessMixed
  <2> SUFFICES ASSUME EndInv, ~Mixed, wire # "cut", pc = "closed", client # "gone"
               PROVE  EndsWith(got, Terminators)
    BY DEF EndsUnlessMixed, EndsWithTerminator
  <2>1. client = "there"
    BY DEF EndInv, SessionInv, TypeOK, Tripping
  <2>2. last
    BY <2>1 DEF EndInv, Ending
  <2>3. Rest = << >>
    BY DEF Rest
  <2> QED BY <2>1, <2>2, <2>3 DEF EndInv, Ending
<1> QED BY <1>1, EndAlways, PTL

---------------------------------------------------------------------------
(* Blocks, in a sequence of frames *)

MessageEnds == {"message_stop", "completed"}

\* Among the first m frames of q: the blocks that start, one block that
\* starts, starts as its kind, or stops.
Starts(q, m) == {j \in 1..m : q[j].type = "start"}
Started(q, m, at) == \E j \in 1..m : q[j].type = "start" /\ q[j].at = at
StartedAs(q, m, at, kind) ==
    \E j \in 1..m : q[j].type = "start" /\ q[j].at = at /\ q[j].kind = kind
Stopped(q, m, at) == \E j \in 1..m : q[j].type = "stop" /\ q[j].at = at

\* Frame e may come after the first m frames of q.
Admits(q, m, e) ==
    /\ e.type \in {"message_start", "created"} => m = 0
    /\ e.type = "start" =>
        /\ ~Started(q, m, e.at)
        /\ e.at = Cardinality(Starts(q, m))
        /\ \A j \in 1..m : q[j].type \notin MessageEnds
    /\ e.type = "delta" => StartedAs(q, m, e.at, e.kind) /\ ~Stopped(q, m, e.at)
    /\ e.type = "stop" => Started(q, m, e.at) /\ ~Stopped(q, m, e.at)
    /\ e.type \in MessageEnds =>
        \/ \E j \in 1..m : q[j].type = "error"
        \/ \A j \in 1..m : q[j].type = "start" => Stopped(q, m, q[j].at)

\* BlocksInOrder and BlocksAllStop, frame by frame and so for every prefix.
Ordered(q) == \A i \in 1..Len(q) : Admits(q, i - 1, q[i])

\* q, which has no end, started the blocks 0 to k - 1; those of `open` are open.
Tally(q, k, open) ==
    /\ IsSeq(q) /\ Ordered(q)
    /\ k \in Nat /\ k = Cardinality(Starts(q, Len(q)))
    /\ open \subseteq 0..(k - 1)
    /\ \A j \in 1..Len(q) :
        /\ q[j].type \notin MessageEnds
        /\ q[j].type = "start" =>
            q[j].at \in 0..(k - 1) /\ (q[j].at \in open \/ Stopped(q, Len(q), q[j].at))
    /\ \A at \in open : Started(q, Len(q), at) /\ ~Stopped(q, Len(q), at)

LEMMA AdmitsAgree ==
    ASSUME NEW p, NEW q, NEW m \in Nat, \A j \in 1..m : p[j] = q[j], NEW e, Admits(p, m, e)
    PROVE  Admits(q, m, e)
<1>1. Starts(q, m) = Starts(p, m)
  BY DEF Starts
<1>2. \A at : (Started(q, m, at) <=> Started(p, m, at)) /\ (Stopped(q, m, at) <=> Stopped(p, m, at))
  BY DEF Started, Stopped
<1>3. \A at, kind : StartedAs(q, m, at, kind) <=> StartedAs(p, m, at, kind)
  BY DEF StartedAs
<1>4. (\E j \in 1..m : p[j].type = "error") => (\E j \in 1..m : q[j].type = "error")
  OBVIOUS
<1>5. (\A j \in 1..m : p[j].type \notin MessageEnds) => (\A j \in 1..m : q[j].type \notin MessageEnds)
  OBVIOUS
<1>6. (\A j \in 1..m : p[j].type = "start" => Stopped(p, m, p[j].at))
        => (\A j \in 1..m : q[j].type = "start" => Stopped(q, m, q[j].at))
  BY <1>2
<1> QED BY <1>1, <1>2, <1>3, <1>4, <1>5, <1>6 DEF Admits

LEMMA PrefixOrdered ==
    ASSUME NEW p, NEW q, IsSeq(p), IsSeq(q), Ordered(p \o q)
    PROVE  Ordered(p)
<1> DEFINE r == p \o q
<1>1. /\ Len(r) = Len(p) + Len(q) /\ Len(p) \in Nat /\ Len(q) \in Nat
      /\ \A i \in 1..(Len(p) + Len(q)) : r[i] = IF i <= Len(p) THEN p[i] ELSE q[i - Len(p)]
  BY ConcatSeq
<1>2. \A i \in 1..Len(r) : Admits(r, i - 1, r[i])
  BY DEF Ordered
<1> HIDE DEF r
<1>3. \A i \in 1..Len(p) : i \in 1..Len(r) /\ r[i] = p[i]
  BY <1>1
<1> SUFFICES ASSUME NEW i \in 1..Len(p) PROVE Admits(p, i - 1, p[i])
  BY DEF Ordered
<1>4. i - 1 \in Nat /\ \A j \in 1..(i - 1) : r[j] = p[j]
  BY <1>1, <1>3
<1>5. Admits(r, i - 1, p[i])
  BY <1>2, <1>3
<1> QED BY <1>4, <1>5, AdmitsAgree

\* One frame more.
LEMMA AppendIs ==
    ASSUME NEW q, IsSeq(q), NEW e
    PROVE  LET r == q \o <<e>> IN
           /\ IsSeq(r) /\ Len(r) = Len(q) + 1 /\ Len(q) \in Nat /\ Types(r) = Types(q) \cup {e.type}
           /\ \A i \in 1..Len(q) : r[i] = q[i]
           /\ r[Len(q) + 1] = e
<1> DEFINE z == <<e>>
           r == q \o z
<1>1. IsSeq(z) /\ Len(z) = 1 /\ Types(z) = {e.type} /\ z[1] = e
  BY SingleSeq
<1> HIDE DEF z
<1>2. /\ IsSeq(r) /\ Len(r) = Len(q) + Len(z) /\ Len(q) \in Nat
      /\ Types(r) = Types(q) \cup Types(z)
      /\ \A i \in 1..(Len(q) + Len(z)) : r[i] = IF i <= Len(q) THEN q[i] ELSE z[i - Len(q)]
  BY <1>1, ConcatSeq
<1> HIDE DEF r
<1>3. \A i \in 1..Len(q) : r[i] = q[i]
  BY <1>1, <1>2
<1>4. r[Len(q) + 1] = e
  BY <1>1, <1>2
<1> QED BY <1>1, <1>2, <1>3, <1>4 DEF r, z

LEMMA AppendOrdered ==
    ASSUME NEW q, IsSeq(q), Ordered(q), NEW e, Admits(q, Len(q), e)
    PROVE  Ordered(q \o <<e>>)
<1> DEFINE r == q \o <<e>>
<1>1. /\ Len(r) = Len(q) + 1 /\ Len(q) \in Nat
      /\ \A i \in 1..Len(q) : r[i] = q[i]
      /\ r[Len(q) + 1] = e
  BY AppendIs
<1> HIDE DEF r
<1> SUFFICES ASSUME NEW i \in 1..Len(r) PROVE Admits(r, i - 1, r[i])
  BY DEF Ordered, r
<1>2. i - 1 \in Nat /\ \A j \in 1..(i - 1) : q[j] = r[j]
  BY <1>1
<1>3. CASE i \in 1..Len(q)
  <2>1. Admits(q, i - 1, r[i])
    BY <1>1, <1>3 DEF Ordered
  <2> QED BY <1>2, <2>1, AdmitsAgree
<1>4. CASE i = Len(q) + 1
  <2>1. Admits(q, i - 1, r[i])
    BY <1>1, <1>4
  <2> QED BY <1>2, <2>1, AdmitsAgree
<1> QED BY <1>1, <1>3, <1>4

LEMMA OrderedBlocks ==
    ASSUME Ordered(got), IsSeq(got)
    PROVE  BlocksInOrder /\ BlocksAllStop
<1>1. Len(got) \in Nat
  BY SeqIsSeq DEF IsSeq
<1>2. ASSUME NEW i \in 1..Len(got)
      PROVE  LET e == got[i] IN
             /\ e.type \in {"message_start", "created"} => i = 1
             /\ e.type = "start" =>
                 /\ Before(i, "start", e.at) = {}
                 /\ e.at = Cardinality({j \in 1..(i - 1) : got[j].type = "start"})
             /\ e.type = "delta" =>
                 /\ \E j \in Before(i, "start", e.at) : got[j].kind = e.kind
                 /\ Before(i, "stop", e.at) = {}
             /\ e.type = "stop" =>
                 /\ Before(i, "start", e.at) # {}
                 /\ Before(i, "stop", e.at) = {}
  <2> DEFINE e == got[i]
  <2>1. Admits(got, i - 1, e)
    BY DEF Ordered
  <2> HIDE DEF e
  <2>2. \A at : (Started(got, i - 1, at) <=> Before(i, "start", at) # {})
             /\ (Stopped(got, i - 1, at) <=> Before(i, "stop", at) # {})
    BY DEF Started, Stopped, Before
  <2>3. \A at, kind : StartedAs(got, i - 1, at, kind) => \E j \in Before(i, "start", at) : got[j].kind = kind
    BY DEF StartedAs, Before
  <2>4. i - 1 = 0 => i = 1
    BY <1>1
  <2> QED BY <2>1, <2>2, <2>3, <2>4 DEF Admits, Starts, e
<1>3. BlocksInOrder
  BY <1>2 DEF BlocksInOrder
<1>4. BlocksAllStop
  <2> SUFFICES ASSUME Got(MessageEnds), ~Got({"error"}), NEW j \in 1..Len(got), got[j].type = "start"
               PROVE  \E k \in 1..Len(got) : got[k].type = "stop" /\ got[k].at = got[j].at
    BY DEF BlocksAllStop, MessageEnds
  <2>1. PICK i \in 1..Len(got) : got[i].type \in MessageEnds
    BY DEF Got
  <2>2. Admits(got, i - 1, got[i]) /\ Admits(got, j - 1, got[j])
    BY DEF Ordered
  <2>3. i # j /\ ~(i < j)
    <3>1. i # j
      BY <2>1 DEF MessageEnds
    <3>2. ~(i \in 1..(j - 1))
      BY <2>1, <2>2 DEF Admits
    <3> QED BY <1>1, <3>1, <3>2
  <2>4. j \in 1..(i - 1)
    BY <1>1, <2>3
  <2>5. ~\E k \in 1..(i - 1) : got[k].type = "error"
    <3>1. \A k \in 1..(i - 1) : k \in 1..Len(got)
      BY <1>1
    <3> QED BY <3>1 DEF Got
  <2>6. Stopped(got, i - 1, got[j].at)
    BY <2>1, <2>2, <2>4, <2>5 DEF Admits
  <2>7. \A k \in 1..(i - 1) : k \in 1..Len(got)
    BY <1>1
  <2> QED BY <2>6, <2>7 DEF Stopped
<1> QED BY <1>3, <1>4

LEMMA TallyEmpty == Tally(<< >>, 0, {})
<1> DEFINE q == << >>
<1>1. IsSeq(q) /\ Len(q) = 0
  BY EmptyIsSeq
<1> HIDE DEF q
<1>2. 1..Len(q) = {} /\ 0..(0 - 1) = {}
  BY <1>1
<1>3. Starts(q, Len(q)) = {}
  BY <1>2 DEF Starts
<1>4. Cardinality(Starts(q, Len(q))) = 0
  BY <1>3, FS_EmptySet
<1>5. Ordered(q)
  BY <1>2 DEF Ordered
<1>6. Tally(q, 0, {})
  BY <1>1, <1>2, <1>4, <1>5 DEF Tally
<1> QED BY <1>6 DEF q

\* How a frame adds to what has started and stopped.
LEMMA OneMore ==
    ASSUME NEW q, IsSeq(q), NEW e, NEW r, r = q \o <<e>>
    PROVE  /\ Len(q) \in Nat /\ Len(r) = Len(q) + 1
           /\ e.type = "start" => Starts(r, Len(r)) = Starts(q, Len(q)) \cup {Len(r)}
           /\ e.type # "start" => Starts(r, Len(r)) = Starts(q, Len(q))
           /\ \A at : Started(r, Len(r), at) <=> Started(q, Len(q), at) \/ (e.type = "start" /\ e.at = at)
           /\ \A at : Stopped(r, Len(r), at) <=> Stopped(q, Len(q), at) \/ (e.type = "stop" /\ e.at = at)
           /\ \A at, kind : StartedAs(r, Len(r), at, kind) <=>
                  StartedAs(q, Len(q), at, kind) \/ (e.type = "start" /\ e.at = at /\ e.kind = kind)
<1>1. /\ Len(r) = Len(q) + 1 /\ Len(q) \in Nat
      /\ \A i \in 1..Len(q) : r[i] = q[i]
      /\ r[Len(r)] = e
  BY AppendIs
<1>2. 1..Len(r) = 1..Len(q) \cup {Len(r)} /\ Len(r) \notin 1..Len(q)
  BY <1>1
<1>3. /\ e.type = "start" => Starts(r, Len(r)) = Starts(q, Len(q)) \cup {Len(r)}
      /\ e.type # "start" => Starts(r, Len(r)) = Starts(q, Len(q))
  <2>1. \A j : j \in Starts(r, Len(r)) <=> j \in Starts(q, Len(q)) \/ (e.type = "start" /\ j = Len(r))
    BY <1>1, <1>2 DEF Starts
  <2> QED BY <2>1
<1>4. \A at : Started(r, Len(r), at) <=> Started(q, Len(q), at) \/ (e.type = "start" /\ e.at = at)
  BY <1>1, <1>2 DEF Started
<1>5. \A at : Stopped(r, Len(r), at) <=> Stopped(q, Len(q), at) \/ (e.type = "stop" /\ e.at = at)
  BY <1>1, <1>2 DEF Stopped
<1>6. \A at, kind : StartedAs(r, Len(r), at, kind) <=>
          StartedAs(q, Len(q), at, kind) \/ (e.type = "start" /\ e.at = at /\ e.kind = kind)
  BY <1>1, <1>2 DEF StartedAs
<1> QED BY <1>1, <1>3, <1>4, <1>5, <1>6

LEMMA StartsFinite ==
    ASSUME NEW q, IsSeq(q)
    PROVE  IsFiniteSet(Starts(q, Len(q))) /\ Len(q) + 1 \notin Starts(q, Len(q))
<1>1. Len(q) \in Nat
  BY SeqIsSeq DEF IsSeq
<1>2. IsFiniteSet(1..Len(q)) /\ Starts(q, Len(q)) \subseteq 1..Len(q)
  BY <1>1, FS_Interval DEF Starts
<1> QED BY <1>1, <1>2, FS_Subset

\* A frame that neither starts nor stops a block, nor ends the message.
LEMMA TallyQuiet ==
    ASSUME NEW q, NEW k, NEW open, Tally(q, k, open), NEW e,
           e.type \notin {"start", "stop"} \cup MessageEnds, Admits(q, Len(q), e)
    PROVE  Tally(q \o <<e>>, k, open)
<1> DEFINE r == q \o <<e>>
<1>1. IsSeq(q) /\ Ordered(q) /\ r = q \o <<e>>
  BY DEF Tally
<1> HIDE DEF r
<1>2. /\ Starts(r, Len(r)) = Starts(q, Len(q))
      /\ \A at : Started(r, Len(r), at) <=> Started(q, Len(q), at)
      /\ \A at : Stopped(r, Len(r), at) <=> Stopped(q, Len(q), at)
  BY <1>1, OneMore
<1>3. IsSeq(r) /\ Len(r) = Len(q) + 1 /\ Len(q) \in Nat /\ r[Len(r)] = e /\ \A i \in 1..Len(q) : r[i] = q[i]
  BY <1>1, AppendIs
<1>4. Ordered(r)
  BY <1>1, AppendOrdered
<1>5. \A j \in 1..Len(r) :
        /\ r[j].type \notin MessageEnds
        /\ r[j].type = "start" => r[j].at \in 0..(k - 1) /\ (r[j].at \in open \/ Stopped(r, Len(r), r[j].at))
  <2> SUFFICES ASSUME NEW j \in 1..Len(r)
               PROVE  /\ r[j].type \notin MessageEnds
                      /\ r[j].type = "start" =>
                            r[j].at \in 0..(k - 1) /\ (r[j].at \in open \/ Stopped(r, Len(r), r[j].at))
    OBVIOUS
  <2>1. j \in 1..Len(q) \/ j = Len(r)
    BY <1>3
  <2> QED BY <1>2, <1>3, <2>1 DEF Tally
<1>6. Tally(r, k, open)
  BY <1>2, <1>3, <1>4, <1>5 DEF Tally
<1> QED BY <1>6 DEF r

LEMMA TallyStart ==
    ASSUME NEW q, NEW k, NEW open, Tally(q, k, open), NEW e, e.type = "start", e.at = k
    PROVE  Tally(q \o <<e>>, k + 1, open \cup {k})
<1> DEFINE r == q \o <<e>>
<1>1. IsSeq(q) /\ Ordered(q) /\ r = q \o <<e>> /\ k \in Nat /\ open \subseteq 0..(k - 1)
  BY DEF Tally
<1> HIDE DEF r
<1>2. /\ Starts(r, Len(r)) = Starts(q, Len(q)) \cup {Len(r)}
      /\ \A at : Started(r, Len(r), at) <=> Started(q, Len(q), at) \/ at = k
      /\ \A at : Stopped(r, Len(r), at) <=> Stopped(q, Len(q), at)
  BY <1>1, OneMore
<1>3. IsSeq(r) /\ Len(r) = Len(q) + 1 /\ Len(q) \in Nat /\ r[Len(r)] = e /\ \A i \in 1..Len(q) : r[i] = q[i]
  BY <1>1, AppendIs
<1>4. ~Started(q, Len(q), k)
  BY <1>1 DEF Tally, Started
<1>5. Ordered(r)
  <2>1. Admits(q, Len(q), e)
    BY <1>4 DEF Admits, Tally, MessageEnds
  <2> QED BY <1>1, <2>1, AppendOrdered
<1>6. Cardinality(Starts(r, Len(r))) = k + 1
  <2>1. IsFiniteSet(Starts(q, Len(q))) /\ Len(r) \notin Starts(q, Len(q)) /\ Cardinality(Starts(q, Len(q))) = k
    BY <1>1, <1>3, StartsFinite DEF Tally
  <2> QED BY <1>2, <2>1, FS_AddElement
<1>7. ~Stopped(q, Len(q), k)
  <2> SUFFICES ASSUME NEW j \in 1..Len(q), q[j].type = "stop", q[j].at = k PROVE FALSE
    BY DEF Stopped
  <2>1. Admits(q, j - 1, q[j])
    BY <1>1 DEF Ordered
  <2>2. Started(q, j - 1, k)
    BY <2>1 DEF Admits
  <2>3. \A i \in 1..(j - 1) : i \in 1..Len(q)
    BY <1>3
  <2> QED BY <1>4, <2>2, <2>3 DEF Started
<1>8. \A j \in 1..Len(r) :
        /\ r[j].type \notin MessageEnds
        /\ r[j].type = "start" =>
              r[j].at \in 0..k /\ (r[j].at \in open \cup {k} \/ Stopped(r, Len(r), r[j].at))
  <2> SUFFICES ASSUME NEW j \in 1..Len(r)
               PROVE  /\ r[j].type \notin MessageEnds
                      /\ r[j].type = "start" =>
                            r[j].at \in 0..k /\ (r[j].at \in open \cup {k} \/ Stopped(r, Len(r), r[j].at))
    OBVIOUS
  <2>1. CASE j \in 1..Len(q)
    <3>1. r[j] = q[j] /\ q[j].type \notin MessageEnds
          /\ (q[j].type = "start" => q[j].at \in 0..(k - 1) /\ (q[j].at \in open \/ Stopped(q, Len(q), q[j].at)))
      BY <1>3, <2>1 DEF Tally
    <3>2. 0..(k - 1) \subseteq 0..k
      BY <1>1
    <3> QED BY <1>2, <3>1, <3>2
  <2>2. CASE j = Len(r)
    BY <1>1, <1>3, <2>2 DEF MessageEnds
  <2> QED BY <1>3, <2>1, <2>2
<1>9. open \cup {k} \subseteq 0..k /\ k + 1 \in Nat /\ k + 1 - 1 = k
  BY <1>1
<1>10. \A at \in open \cup {k} : Started(r, Len(r), at) /\ ~Stopped(r, Len(r), at)
  BY <1>2, <1>7 DEF Tally
<1>11. Tally(r, k + 1, open \cup {k})
  BY <1>3, <1>5, <1>6, <1>8, <1>9, <1>10 DEF Tally
<1> QED BY <1>11 DEF r

LEMMA TallyStop ==
    ASSUME NEW q, NEW k, NEW open, Tally(q, k, open), NEW e, e.type = "stop", e.at \in open
    PROVE  Tally(q \o <<e>>, k, open \ {e.at})
<1> DEFINE r == q \o <<e>>
<1>1. IsSeq(q) /\ Ordered(q) /\ r = q \o <<e>>
  BY DEF Tally
<1> HIDE DEF r
<1>2. /\ Starts(r, Len(r)) = Starts(q, Len(q))
      /\ \A at : Started(r, Len(r), at) <=> Started(q, Len(q), at)
      /\ \A at : Stopped(r, Len(r), at) <=> Stopped(q, Len(q), at) \/ at = e.at
  BY <1>1, OneMore
<1>3. IsSeq(r) /\ Len(r) = Len(q) + 1 /\ Len(q) \in Nat /\ r[Len(r)] = e /\ \A i \in 1..Len(q) : r[i] = q[i]
  BY <1>1, AppendIs
<1>4. Ordered(r)
  <2>1. Admits(q, Len(q), e)
    BY DEF Admits, Tally, MessageEnds
  <2> QED BY <1>1, <2>1, AppendOrdered
<1>5. \A j \in 1..Len(r) :
        /\ r[j].type \notin MessageEnds
        /\ r[j].type = "start" =>
              r[j].at \in 0..(k - 1) /\ (r[j].at \in open \ {e.at} \/ Stopped(r, Len(r), r[j].at))
  <2> SUFFICES ASSUME NEW j \in 1..Len(r)
               PROVE  /\ r[j].type \notin MessageEnds
                      /\ r[j].type = "start" =>
                            r[j].at \in 0..(k - 1) /\ (r[j].at \in open \ {e.at} \/ Stopped(r, Len(r), r[j].at))
    OBVIOUS
  <2>1. CASE j \in 1..Len(q)
    <3>1. r[j] = q[j] /\ q[j].type \notin MessageEnds
          /\ (q[j].type = "start" => q[j].at \in 0..(k - 1) /\ (q[j].at \in open \/ Stopped(q, Len(q), q[j].at)))
      BY <1>3, <2>1 DEF Tally
    <3> QED BY <1>2, <3>1
  <2>2. CASE j = Len(r)
    BY <1>1, <1>3, <2>2 DEF MessageEnds
  <2> QED BY <1>3, <2>1, <2>2
<1>6. Tally(r, k, open \ {e.at})
  <2>1. \A at \in open \ {e.at} : Started(r, Len(r), at) /\ ~Stopped(r, Len(r), at)
    BY <1>2 DEF Tally
  <2>2. k \in Nat /\ k = Cardinality(Starts(r, Len(r))) /\ open \ {e.at} \subseteq 0..(k - 1)
    BY <1>2 DEF Tally
  <2> QED BY <1>3, <1>4, <1>5, <2>1, <2>2 DEF Tally
<1> QED BY <1>6 DEF r

\* The end may come when all is stopped, or after an error.
LEMMA TallyEnd ==
    ASSUME NEW q, NEW k, NEW open, Tally(q, k, open), NEW e, e.type \in MessageEnds,
           open = {} \/ "error" \in Types(q)
    PROVE  Ordered(q \o <<e>>)
<1>1. Admits(q, Len(q), e)
  BY DEF Admits, Tally, MessageEnds, Types
<1> QED BY <1>1, AppendOrdered DEF Tally

---------------------------------------------------------------------------
(* What a translator knows of the frames it made *)

LEMMA Regroup ==
    ASSUME NEW a, NEW b, NEW c, IsSeq(a), IsSeq(b), IsSeq(c)
    PROVE  (a \o b) \o c = a \o (b \o c)
<1> DEFINE S == (Parts(a) \cup Parts(b)) \cup Parts(c)
<1>1. a \in Seq(S) /\ b \in Seq(S) /\ c \in Seq(S)
  BY SeqMonotonic DEF IsSeq
<1> HIDE DEF S
<1> QED BY <1>1, ConcatAssociative

\* The frames P are on their way, those in s.out follow.
Made(P, s) == P \o s.out

LEMMA MadeAdds ==
    ASSUME NEW P, IsSeq(P), NEW s, IsSeq(s.out), NEW t, NEW e, Adds(s, t, e)
    PROVE  Made(P, t) = Made(P, s) \o <<e>> /\ IsSeq(Made(P, s))
<1> DEFINE a == s.out
           z == <<e>>
<1>1. IsSeq(a) /\ IsSeq(z)
  BY SingleSeq
<1>2. Made(P, t) = P \o (a \o z) /\ Made(P, s) = P \o a
  BY DEF Adds, Made
<1> HIDE DEF a, z
<1>3. Made(P, t) = Made(P, s) \o z /\ IsSeq(Made(P, s))
  BY <1>1, <1>2, Regroup, ConcatSeq
<1> QED BY <1>3 DEF z

\* The Anthropic translator after the frames q, with chunks of the kinds K.
Tracks(s, q, K) ==
    /\ Tally(q, s.next, s.open)
    /\ s.text # A!None => StartedAs(q, Len(q), s.text, "text")
    /\ s.text # A!None /\ "tool" \notin K => s.text \in s.open
    /\ \A i \in DOMAIN s.blocks : s.blocks[i] # A!TextEntry =>
           s.blocks[i] \in s.open /\ StartedAs(q, Len(q), s.blocks[i], "tool")
    /\ "text" \notin K => s.text = A!None
    /\ ~s.started => q = << >>

LEMMA TracksMore ==
    ASSUME NEW s, NEW q, NEW K, Tracks(s, q, K), NEW k
    PROVE  Tracks(s, q, K \cup {k})
BY DEF Tracks

LEMMA OpenedTracks ==
    ASSUME NEW s, AnthropicState(s), NEW P, IsSeq(P), NEW K, Tracks(s, Made(P, s), K)
    PROVE  Tracks(A!Opened(s), Made(P, A!Opened(s)), K) /\ A!Opened(s).started
<1> DEFINE t == A!Opened(s)
           e == A!Plain("message_start")
           q == Made(P, s)
           r == Made(P, t)
<1>1. /\ t.text = s.text /\ t.blocks = s.blocks /\ t.open = s.open /\ t.next = s.next
      /\ s.started => t = s
      /\ ~s.started => t.started /\ Adds(s, t, e)
  BY OpenedIs
<1>2. e.type = "message_start"
  BY DEF A!Plain, A!Event
<1> HIDE DEF t, e
<1>3. CASE s.started
  BY <1>1, <1>3 DEF t
<1>4. CASE ~s.started
  <2>1. r = q \o <<e>>
    BY <1>1, <1>4, MadeAdds DEF AnthropicState
  <2>2. q = << >>
    BY <1>4 DEF Tracks
  <2> HIDE DEF q, r
  <2>3. Tally(q, s.next, s.open) /\ Len(q) = 0 /\ IsSeq(q)
    BY <2>2, EmptyIsSeq DEF Tracks, q
  <2>4. Admits(q, Len(q), e)
    BY <1>2, <2>3 DEF Admits, MessageEnds
  <2>5. Tally(r, s.next, s.open)
    BY <1>2, <2>1, <2>3, <2>4, TallyQuiet DEF MessageEnds
  <2>6. \A at, kind : StartedAs(q, Len(q), at, kind) => StartedAs(r, Len(r), at, kind)
    BY <2>1, <2>3, OneMore
  <2>7. Tracks(t, r, K) /\ t.started
    BY <1>1, <1>4, <2>5, <2>6 DEF Tracks, q
  <2> QED BY <2>7 DEF t, r
<1> QED BY <1>3, <1>4

LEMMA TextStartedTally ==
    ASSUME NEW s, AnthropicState(s), NEW P, IsSeq(P), Tally(Made(P, s), s.next, s.open)
    PROVE  LET t == A!TextStarted(s) IN Tally(Made(P, t), t.next, t.open)
<1> DEFINE t == A!TextStarted(s)
           e == A!Event("start", s.next, "text")
<1>1. /\ s.text # A!None => t = s
      /\ s.text = A!None => t.next = s.next + 1 /\ t.open = s.open \cup {s.next} /\ Adds(s, t, e)
  BY TextStartedIs
<1>2. e.type = "start" /\ e.at = s.next
  BY DEF A!Event
<1> HIDE DEF t, e
<1>3. CASE s.text # A!None
  BY <1>1, <1>3 DEF t
<1>4. CASE s.text = A!None
  <2>1. Made(P, t) = Made(P, s) \o <<e>>
    BY <1>1, <1>4, MadeAdds DEF AnthropicState
  <2>2. Tally(Made(P, t), t.next, t.open)
    BY <1>1, <1>2, <1>4, <2>1, TallyStart
  <2> QED BY <2>2 DEF t
<1> QED BY <1>3, <1>4

LEMMA TextStartedTracks ==
    ASSUME NEW s, AnthropicState(s), NEW P, IsSeq(P), NEW K, Tracks(s, Made(P, s), K),
           s.started, "tool" \notin K
    PROVE  LET t == A!TextStarted(s) IN
           /\ Tracks(t, Made(P, t), K \cup {"text"}) /\ t.started /\ t.text \in t.open
           /\ StartedAs(Made(P, t), Len(Made(P, t)), t.text, "text")
<1> DEFINE t == A!TextStarted(s)
           e == A!Event("start", s.next, "text")
           q == Made(P, s)
           r == Made(P, t)
<1>1. /\ s.text # A!None => t = s
      /\ s.text = A!None =>
           /\ t.text = s.next /\ t.next = s.next + 1 /\ t.open = s.open \cup {s.next}
           /\ t.blocks = A!Put(s.blocks, s.next, A!TextEntry)
           /\ t.started = s.started /\ Adds(s, t, e)
  BY TextStartedIs
<1>2. e.type = "start" /\ e.at = s.next /\ e.kind = "text"
  BY DEF A!Event
<1>3. Tally(r, t.next, t.open)
  BY TextStartedTally DEF Tracks
<1> HIDE DEF t, e
<1>4. CASE s.text # A!None
  BY <1>1, <1>4, TracksMore DEF t, Tracks
<1>5. CASE s.text = A!None
  <2>1. r = q \o <<e>> /\ IsSeq(q)
    BY <1>1, <1>5, MadeAdds DEF AnthropicState
  <2> HIDE DEF q, r
  <2>2. /\ \A at, kind : StartedAs(q, Len(q), at, kind) => StartedAs(r, Len(r), at, kind)
        /\ StartedAs(r, Len(r), s.next, "text")
    BY <1>2, <2>1, OneMore
  <2>3. Tracks(s, q, K)
    BY DEF q
  <2>4. \A i \in DOMAIN t.blocks : t.blocks[i] # A!TextEntry =>
            t.blocks[i] \in t.open /\ StartedAs(r, Len(r), t.blocks[i], "tool")
    BY <1>1, <1>5, <2>2, <2>3 DEF Tracks, A!Put
  <2>5. t.started /\ t.text \in t.open /\ StartedAs(r, Len(r), t.text, "text")
    BY <1>1, <1>5, <2>2
  <2>6. Tracks(t, r, K \cup {"text"})
    BY <1>3, <2>4, <2>5 DEF Tracks, r
  <2> QED BY <2>5, <2>6 DEF t, r
<1> QED BY <1>4, <1>5

\* A delta of an open block.
LEMMA DeltaTracks ==
    ASSUME NEW s, IsSeq(s.out), NEW P, IsSeq(P), NEW K, Tracks(s, Made(P, s), K), s.started,
           NEW e, e.type = "delta", e.at \in s.open, StartedAs(Made(P, s), Len(Made(P, s)), e.at, e.kind),
           NEW u, Adds(s, u, e), u.text = s.text, u.blocks = s.blocks, u.open = s.open, u.next = s.next,
           u.started = s.started
    PROVE  Tracks(u, Made(P, u), K)
<1> DEFINE q == Made(P, s)
           r == Made(P, u)
<1>1. r = q \o <<e>> /\ IsSeq(q)
  BY MadeAdds
<1>2. Tracks(s, q, K) /\ Tally(q, s.next, s.open) /\ StartedAs(q, Len(q), e.at, e.kind)
  BY DEF Tracks
<1> HIDE DEF q, r
<1>3. Admits(q, Len(q), e)
  BY <1>2 DEF Admits, Tally, MessageEnds
<1>4. Tally(r, s.next, s.open)
  BY <1>1, <1>2, <1>3, TallyQuiet DEF MessageEnds
<1>5. \A at, kind : StartedAs(q, Len(q), at, kind) => StartedAs(r, Len(r), at, kind)
  BY <1>1, OneMore
<1>6. Tracks(u, r, K)
  BY <1>2, <1>4, <1>5 DEF Tracks
<1> QED BY <1>6 DEF r

LEMMA TextTracks ==
    ASSUME NEW s, AnthropicState(s), NEW P, IsSeq(P), NEW K, Tracks(s, Made(P, s), K),
           s.started, "tool" \notin K
    PROVE  Tracks(A!Text(s), Made(P, A!Text(s)), K \cup {"text"})
<1> DEFINE t == A!TextStarted(s)
           u == A!Text(s)
           e == A!Event("delta", t.text, "text")
<1>1. /\ Tracks(t, Made(P, t), K \cup {"text"}) /\ t.started /\ t.text \in t.open
      /\ StartedAs(Made(P, t), Len(Made(P, t)), t.text, "text")
  BY TextStartedTracks
<1>2. AnthropicState(t)
  BY TextStartedEmits DEF Emits
<1>3. /\ u.text = t.text /\ u.blocks = t.blocks /\ u.open = t.open /\ u.next = t.next
      /\ u.started = t.started /\ Adds(t, u, e)
  BY TextIs
<1>4. e.type = "delta" /\ e.at = t.text /\ e.kind = "text"
  BY DEF A!Event
<1> HIDE DEF t, u, e
<1>5. Tracks(u, Made(P, u), K \cup {"text"})
  BY <1>1, <1>2, <1>3, <1>4, DeltaTracks DEF AnthropicState
<1> QED BY <1>5 DEF u

LEMMA ToolStartedTracks ==
    ASSUME NEW s, AnthropicState(s), NEW P, IsSeq(P), NEW K, Tracks(s, Made(P, s), K), Clean(s, K),
           s.started, "text" \notin K, NEW i
    PROVE  LET t == A!ToolStarted(s, i) IN
           /\ Tracks(t, Made(P, t), K \cup {"tool"}) /\ t.started
           /\ t.blocks[i] # A!TextEntry /\ t.blocks[i] \in t.open
           /\ StartedAs(Made(P, t), Len(Made(P, t)), t.blocks[i], "tool")
<1> DEFINE t == A!ToolStarted(s, i)
           c == A!TextClosed(s)
           e == A!Event("start", s.next, "tool")
           q == Made(P, s)
           r == Made(P, t)
<1>1. c = s
  <2>1. s.text = A!None /\ s.open \subseteq 0..(s.next - 1) /\ s.next \in Nat
    BY DEF Tracks, Tally
  <2>2. s.text \notin s.open
    BY <2>1 DEF A!None
  <2> QED BY <2>2, TextClosedIs
<1>2. /\ i \in DOMAIN s.blocks => t = s
      /\ i \notin DOMAIN s.blocks =>
           /\ t.text = s.text /\ t.next = s.next + 1 /\ t.open = c.open \cup {s.next}
           /\ t.blocks = A!Put(s.blocks, i, s.next)
           /\ t.started = s.started /\ Adds(c, t, e)
  BY ToolStartedIs
<1>3. e.type = "start" /\ e.at = s.next /\ e.kind = "tool"
  BY DEF A!Event
<1> HIDE DEF t, c, e
<1>4. CASE i \in DOMAIN s.blocks
  <2>1. s.blocks[i] # A!TextEntry
    BY <1>4 DEF Clean
  <2> QED BY <1>2, <1>4, <2>1, TracksMore DEF t, Tracks
<1>5. CASE i \notin DOMAIN s.blocks
  <2>1. r = q \o <<e>> /\ IsSeq(q)
    BY <1>1, <1>2, <1>5, MadeAdds DEF AnthropicState
  <2>2. Tracks(s, q, K) /\ Tally(q, s.next, s.open)
    BY DEF Tracks
  <2> HIDE DEF q, r
  <2>3. /\ \A at, kind : StartedAs(q, Len(q), at, kind) => StartedAs(r, Len(r), at, kind)
        /\ StartedAs(r, Len(r), s.next, "tool")
    BY <1>3, <2>1, OneMore
  <2>4. Tally(r, t.next, t.open)
    <3>1. t.next = s.next + 1 /\ t.open = s.open \cup {s.next}
      BY <1>1, <1>2, <1>5
    <3>2. Tally(q \o <<e>>, s.next + 1, s.open \cup {s.next})
      BY <1>3, <2>2, TallyStart
    <3> QED BY <2>1, <3>1, <3>2
  <2>5. s.next # A!TextEntry /\ t.blocks[i] = s.next
    <3>1. s.next # A!TextEntry
      BY DEF Clean, A!TextEntry
    <3>2. t.blocks = A!Put(s.blocks, i, s.next)
      BY <1>2, <1>5
    <3> QED BY <3>1, <3>2 DEF A!Put
  <2>6. \A j \in DOMAIN t.blocks : t.blocks[j] # A!TextEntry =>
            t.blocks[j] \in t.open /\ StartedAs(r, Len(r), t.blocks[j], "tool")
    <3> SUFFICES ASSUME NEW j \in DOMAIN t.blocks, t.blocks[j] # A!TextEntry
                 PROVE  t.blocks[j] \in t.open /\ StartedAs(r, Len(r), t.blocks[j], "tool")
      OBVIOUS
    <3>1. CASE j = i
      BY <1>1, <1>2, <1>5, <2>3, <2>5, <3>1
    <3>2. CASE j # i
      <4>1. j \in DOMAIN s.blocks /\ t.blocks[j] = s.blocks[j]
        BY <1>2, <1>5, <3>2 DEF A!Put
      <4> QED BY <1>1, <1>2, <1>5, <2>2, <2>3, <4>1 DEF Tracks
    <3> QED BY <3>1, <3>2
  <2>7. t.text = A!None /\ t.started /\ s.next \in t.open
    BY <1>2, <1>5, <2>2 DEF Tracks
  <2>8. Tracks(t, r, K \cup {"tool"})
    BY <2>4, <2>6, <2>7 DEF Tracks
  <2> QED BY <2>3, <2>5, <2>7, <2>8 DEF t, r
<1> QED BY <1>4, <1>5

LEMMA ToolTracks ==
    ASSUME NEW s, AnthropicState(s), NEW P, IsSeq(P), NEW K, Tracks(s, Made(P, s), K), Clean(s, K),
           s.started, "text" \notin K, NEW i, NEW args
    PROVE  Tracks(A!Tool(s, i, args), Made(P, A!Tool(s, i, args)), K \cup {"tool"})
<1> DEFINE t == A!ToolStarted(s, i)
           u == A!Tool(s, i, args)
           e == A!Event("delta", t.blocks[i], "tool")
<1>1. /\ Tracks(t, Made(P, t), K \cup {"tool"}) /\ t.started
      /\ t.blocks[i] # A!TextEntry /\ t.blocks[i] \in t.open
      /\ StartedAs(Made(P, t), Len(Made(P, t)), t.blocks[i], "tool")
  BY ToolStartedTracks
<1>2. AnthropicState(t)
  BY ToolStartedEmits DEF Emits
<1>3. /\ u.text = t.text /\ u.blocks = t.blocks /\ u.open = t.open /\ u.next = t.next
      /\ u.started = t.started
      /\ t.blocks[i] # A!TextEntry => u = t \/ Adds(t, u, e)
  BY ToolIs
<1>4. e.type = "delta" /\ e.at = t.blocks[i] /\ e.kind = "tool"
  BY DEF A!Event
<1> HIDE DEF t, u, e
<1>5. Tracks(u, Made(P, u), K \cup {"tool"})
  BY <1>1, <1>2, <1>3, <1>4, DeltaTracks DEF AnthropicState
<1> QED BY <1>5 DEF u

\* A chunk of an answer that has not both text and tool calls.
LEMMA ReadTracks ==
    ASSUME NEW s, AnthropicState(s), NEW P, IsSeq(P), NEW K, Tracks(s, Made(P, s), K), Clean(s, K),
           NEW c, ~({"text", "tool"} \subseteq K \cup {c.kind})
    PROVE  Tracks(A!Read(s, c), Made(P, A!Read(s, c)), K \cup {c.kind})
<1> DEFINE t == A!Opened(s)
           u == A!Read(s, c)
<1>1. Tracks(t, Made(P, t), K) /\ t.started
  BY OpenedTracks
<1>2. AnthropicState(t) /\ t.next = s.next /\ t.blocks = s.blocks /\ t.crashed = s.crashed
  BY OpenedEmits, OpenedIs DEF Emits
<1>3. /\ c.kind = "text" => u = A!Text(t)
      /\ c.kind = "tool" => u = A!Tool(t, c.at, c.args)
      /\ c.kind \notin {"text", "tool"} => u = t
  BY DEF A!Read
<1> HIDE DEF t, u
<1>4. Clean(t, K)
  BY <1>2 DEF Clean
<1>5. CASE c.kind = "text"
  <2>1. Tracks(A!Text(t), Made(P, A!Text(t)), K \cup {"text"})
    BY <1>1, <1>2, <1>5, TextTracks
  <2> QED BY <1>3, <1>5, <2>1 DEF u
<1>6. CASE c.kind = "tool"
  <2>1. Tracks(A!Tool(t, c.at, c.args), Made(P, A!Tool(t, c.at, c.args)), K \cup {"tool"})
    BY <1>1, <1>2, <1>4, <1>6, ToolTracks
  <2> QED BY <1>3, <1>6, <2>1 DEF u
<1>7. CASE c.kind \notin {"text", "tool"}
  BY <1>1, <1>3, <1>7, TracksMore DEF u
<1> QED BY <1>5, <1>6, <1>7

---------------------------------------------------------------------------
(* Going through a finite set of indices in order *)

Rank(S, b) == Cardinality({c \in S : c < b})
NthOf(S, rank) == CHOOSE b \in S : Rank(S, b) = rank

LEMMA NthIs ==
    ASSUME NEW S, NEW rank
    PROVE  A!Nth(S, rank) = NthOf(S, rank) /\ R!Nth(S, rank) = NthOf(S, rank)
BY DEF A!Nth, R!Nth, NthOf, Rank, A!Cardinality, R!Cardinality, Cardinality

LEMMA RankBound ==
    ASSUME NEW S, S \subseteq Int, IsFiniteSet(S), NEW b \in S
    PROVE  Rank(S, b) \in 0..(Cardinality(S) - 1)
<1> DEFINE L == {c \in S : c < b}
<1>1. L \in SUBSET S
  OBVIOUS
<1>2. b \notin L /\ Rank(S, b) = Cardinality(L)
  BY DEF Rank
<1> HIDE DEF L
<1>3. IsFiniteSet(L) /\ Cardinality(L) <= Cardinality(S) /\ (Cardinality(S) = Cardinality(L) => S = L)
  BY <1>1, FS_Subset
<1>4. Cardinality(L) \in Nat /\ Cardinality(S) \in Nat
  BY <1>3, FS_CardinalityType
<1>5. Cardinality(S) # Cardinality(L)
  BY <1>2, <1>3
<1> QED BY <1>2, <1>3, <1>4, <1>5

LEMMA RankGrows ==
    ASSUME NEW S, S \subseteq Int, IsFiniteSet(S), NEW a \in S, NEW b \in S, a < b
    PROVE  Rank(S, a) < Rank(S, b)
<1> DEFINE L == {c \in S : c < a}
           M == {c \in S : c < b}
<1>0. M \in SUBSET S
  OBVIOUS
<1>1. L \in SUBSET M
  <2>1. \A c \in S : c < a => c < b
    OBVIOUS
  <2> QED BY <2>1
<1>2. a \in M /\ a \notin L /\ Rank(S, a) = Cardinality(L) /\ Rank(S, b) = Cardinality(M)
  BY DEF Rank
<1> HIDE DEF L, M
<1>3. IsFiniteSet(M)
  BY <1>0, FS_Subset
<1>4. IsFiniteSet(L) /\ Cardinality(L) <= Cardinality(M) /\ (Cardinality(M) = Cardinality(L) => M = L)
  BY <1>1, <1>3, FS_Subset
<1>5. Cardinality(L) \in Nat /\ Cardinality(M) \in Nat
  BY <1>3, <1>4, FS_CardinalityType
<1> QED BY <1>2, <1>4, <1>5

\* The elements of S by rank: all of them, each once.
LEMMA NthEnumerates ==
    ASSUME NEW S, S \subseteq Int, IsFiniteSet(S)
    PROVE  /\ \A rank \in 0..(Cardinality(S) - 1) : NthOf(S, rank) \in S
           /\ \A m, rank \in 0..(Cardinality(S) - 1) : NthOf(S, m) = NthOf(S, rank) => m = rank
           /\ \A b \in S : \E rank \in 0..(Cardinality(S) - 1) : NthOf(S, rank) = b
<1> DEFINE T == 0..(Cardinality(S) - 1)
           f == [b \in S |-> Rank(S, b)]
<1>1. \A a, b \in S : Rank(S, a) = Rank(S, b) => a = b
  <2> SUFFICES ASSUME NEW a \in S, NEW b \in S, Rank(S, a) = Rank(S, b), a # b PROVE FALSE
    OBVIOUS
  <2>0. Cardinality(S) \in Nat /\ a \in Int /\ b \in Int
    BY FS_CardinalityType
  <2>1. Rank(S, a) \in Int /\ Rank(S, b) \in Int
    <3>1. Rank(S, a) \in 0..(Cardinality(S) - 1) /\ Rank(S, b) \in 0..(Cardinality(S) - 1)
      BY RankBound
    <3> QED BY <2>0, <3>1
  <2>2. CASE a < b
    <3>1. Rank(S, a) < Rank(S, b)
      BY <2>2, RankGrows
    <3> QED BY <2>1, <3>1
  <2>3. CASE b < a
    <3>1. Rank(S, b) < Rank(S, a)
      BY <2>3, RankGrows
    <3> QED BY <2>1, <3>1
  <2> QED BY <2>0, <2>2, <2>3
<1>2. Cardinality(S) \in Nat
  BY FS_CardinalityType
<1>3. IsFiniteSet(T) /\ Cardinality(T) = Cardinality(S)
  BY <1>2, FS_Interval
<1>4. \A b \in S : Rank(S, b) \in T
  BY RankBound
<1>5. f \in Injection(S, T)
  <2>1. f \in [S -> T]
    BY <1>4
  <2>2. \A a, b \in DOMAIN f : f[a] = f[b] => a = b
    BY <1>1
  <2> HIDE DEF f
  <2> QED BY <2>1, <2>2 DEF Injection, IsInjective
<1>6. f \in Surjection(S, T)
  <2> HIDE DEF f, T
  <2> QED BY <1>3, <1>5, FS_Injection
<1>7. \A rank \in T : \E b \in S : Rank(S, b) = rank
  <2>1. \A rank \in T : \E b \in S : f[b] = rank
    <3> HIDE DEF f, T
    <3> QED BY <1>6 DEF Surjection
  <2> QED BY <2>1
<1> HIDE DEF f, T
<1>8. \A rank \in T : NthOf(S, rank) \in S /\ Rank(S, NthOf(S, rank)) = rank
  BY <1>7 DEF NthOf
<1>9. \A b \in S : NthOf(S, Rank(S, b)) = b
  BY <1>1, <1>4, <1>8
<1>10. /\ \A rank \in T : NthOf(S, rank) \in S
       /\ \A m, rank \in T : NthOf(S, m) = NthOf(S, rank) => m = rank
       /\ \A b \in S : \E rank \in T : NthOf(S, rank) = b
  BY <1>4, <1>8, <1>9
<1> QED BY <1>10 DEF T

---------------------------------------------------------------------------
(* Stopping what is open *)

StopsOf(z, open) ==
    /\ IsSeq(z)
    /\ \A i \in 1..Len(z) : z[i].type = "stop" /\ z[i].at \in open
    /\ \A i, j \in 1..Len(z) : z[i].at = z[j].at => i = j
Stopping(z) == {z[i].at : i \in 1..Len(z)}

LEMMA TallyStops ==
    ASSUME NEW q, NEW k, NEW open, Tally(q, k, open), NEW z, StopsOf(z, open)
    PROVE  Tally(q \o z, k, open \ Stopping(z))
<1> DEFINE r == q \o z
<1>0. IsSeq(q) /\ IsSeq(z) /\ Ordered(q)
  BY DEF Tally, StopsOf
<1>1. /\ IsSeq(r) /\ Len(r) = Len(q) + Len(z) /\ Len(q) \in Nat /\ Len(z) \in Nat
      /\ \A i \in 1..(Len(q) + Len(z)) : r[i] = IF i <= Len(q) THEN q[i] ELSE z[i - Len(q)]
  BY <1>0, ConcatSeq
<1> HIDE DEF r
<1>2. \A i \in 1..Len(q) : r[i] = q[i] /\ i \in 1..Len(r)
  BY <1>1
<1>3. \A i \in 1..Len(r) : i \notin 1..Len(q) =>
        i - Len(q) \in 1..Len(z) /\ r[i] = z[i - Len(q)] /\ r[i].type = "stop" /\ r[i].at \in open
  BY <1>1 DEF StopsOf
<1>4. \A i \in 1..Len(z) : i + Len(q) \in 1..Len(r) /\ r[i + Len(q)] = z[i]
  BY <1>1
<1>5. Starts(r, Len(r)) = Starts(q, Len(q))
  <2>1. \A j : j \in Starts(r, Len(r)) <=> j \in Starts(q, Len(q))
    BY <1>2, <1>3 DEF Starts
  <2> QED BY <2>1
<1>6. \A at : Stopped(q, Len(q), at) => Stopped(r, Len(r), at)
  BY <1>2 DEF Stopped
<1>7. \A at : Stopped(r, Len(r), at) => Stopped(q, Len(q), at) \/ at \in Stopping(z)
  BY <1>2, <1>3 DEF Stopped, Stopping
<1>8. \A at \in Stopping(z) : Stopped(r, Len(r), at)
  BY <1>4 DEF Stopped, Stopping, StopsOf
<1>9. Ordered(r)
  <2> SUFFICES ASSUME NEW i \in 1..Len(r) PROVE Admits(r, i - 1, r[i])
    BY DEF Ordered
  <2>1. CASE i \in 1..Len(q)
    <3>1. Admits(q, i - 1, q[i]) /\ r[i] = q[i]
      BY <1>0, <1>2, <2>1 DEF Ordered
    <3>2. i - 1 \in Nat /\ \A j \in 1..(i - 1) : q[j] = r[j]
      BY <1>1, <1>2, <2>1
    <3> QED BY <3>1, <3>2, AdmitsAgree
  <2>2. CASE i \notin 1..Len(q)
    <3>1. r[i].type = "stop" /\ r[i].at \in open /\ i - Len(q) \in 1..Len(z) /\ r[i] = z[i - Len(q)]
      BY <1>3, <2>2
    <3>2. Len(q) <= i - 1
      BY <1>1, <2>2
    <3>3. Started(r, i - 1, r[i].at)
      <4>1. Started(q, Len(q), r[i].at)
        BY <3>1 DEF Tally
      <4>2. \A j \in 1..Len(q) : j \in 1..(i - 1)
        BY <1>1, <3>2
      <4> QED BY <1>2, <4>1, <4>2 DEF Started
    <3>4. ~Stopped(r, i - 1, r[i].at)
      <4> SUFFICES ASSUME NEW j \in 1..(i - 1), r[j].type = "stop", r[j].at = r[i].at PROVE FALSE
        BY DEF Stopped
      <4>1. j \in 1..Len(r) /\ j < i
        BY <1>1
      <4>2. CASE j \in 1..Len(q)
        <5>1. Stopped(q, Len(q), r[i].at)
          BY <1>2, <4>2 DEF Stopped
        <5> QED BY <3>1, <5>1 DEF Tally
      <4>3. CASE j \notin 1..Len(q)
        <5>1. j - Len(q) \in 1..Len(z) /\ r[j] = z[j - Len(q)]
          BY <1>3, <4>1, <4>3
        <5>2. j - Len(q) = i - Len(q)
          BY <3>1, <5>1 DEF StopsOf
        <5> QED BY <1>1, <4>1, <5>2
      <4> QED BY <4>2, <4>3
    <3> QED BY <3>1, <3>3, <3>4 DEF Admits, MessageEnds
  <2> QED BY <2>1, <2>2
<1>10. \A j \in 1..Len(r) :
        /\ r[j].type \notin MessageEnds
        /\ r[j].type = "start" =>
              r[j].at \in 0..(k - 1) /\ (r[j].at \in open \ Stopping(z) \/ Stopped(r, Len(r), r[j].at))
  <2> SUFFICES ASSUME NEW j \in 1..Len(r)
               PROVE  /\ r[j].type \notin MessageEnds
                      /\ r[j].type = "start" =>
                            /\ r[j].at \in 0..(k - 1)
                            /\ r[j].at \in open \ Stopping(z) \/ Stopped(r, Len(r), r[j].at)
    OBVIOUS
  <2>1. CASE j \in 1..Len(q)
    <3>1. r[j] = q[j] /\ q[j].type \notin MessageEnds
          /\ (q[j].type = "start" => q[j].at \in 0..(k - 1) /\ (q[j].at \in open \/ Stopped(q, Len(q), q[j].at)))
      BY <1>2, <2>1 DEF Tally
    <3> QED BY <1>6, <1>8, <3>1
  <2>2. CASE j \notin 1..Len(q)
    BY <1>3, <2>2 DEF MessageEnds
  <2> QED BY <2>1, <2>2
<1>11. \A at \in open \ Stopping(z) : Started(r, Len(r), at) /\ ~Stopped(r, Len(r), at)
  <2>1. \A at : Started(q, Len(q), at) => Started(r, Len(r), at)
    BY <1>2 DEF Started
  <2> QED BY <1>7, <2>1 DEF Tally
<1>12. k \in Nat /\ k = Cardinality(Starts(r, Len(r))) /\ open \ Stopping(z) \subseteq 0..(k - 1)
  BY <1>5 DEF Tally
<1>13. Tally(r, k, open \ Stopping(z))
  BY <1>1, <1>9, <1>10, <1>11, <1>12 DEF Tally
<1> QED BY <1>13 DEF r

\* Concatenation as an operator the provers do not open.
Cat(a, b) == a \o b

LEMMA CatRegroups ==
    ASSUME NEW a, NEW b, NEW c, IsSeq(a), IsSeq(b), IsSeq(c)
    PROVE  Cat(Cat(a, b), c) = Cat(a, Cat(b, c)) /\ IsSeq(Cat(a, b))
<1>1. (a \o b) \o c = a \o (b \o c)
  BY Regroup
<1>2. IsSeq(a \o b)
  BY ConcatSeq
<1> QED BY <1>1, <1>2 DEF Cat

\* [DONE] closes what is open and ends the message.
LEMMA FinishOrdered ==
    ASSUME NEW s, AnthropicState(s), NEW P, IsSeq(P), NEW K, Tracks(s, Made(P, s), K)
    PROVE  Ordered(Made(P, A!Finish(s)))
<1> DEFINE t == A!Opened(s)
           u == IF t.blocks = << >> THEN A!TextStarted(t) ELSE t
           c == A!Cardinality(u.open)
           closing == [i \in 1..c |-> A!Nth(u.open, i - 1)]
           stops == [i \in 1..Len(closing) |-> A!Event("stop", closing[i], "")]
           e == A!Plain("message_stop")
           z == <<e>>
           q == Made(P, u)
<1>1. AnthropicState(t) /\ Tally(Made(P, t), t.next, t.open)
  BY OpenedEmits, OpenedTracks DEF Emits, Tracks
<1>2. AnthropicState(u) /\ Tally(q, u.next, u.open)
  <2> HIDE DEF t
  <2>1. CASE t.blocks = << >>
    BY <1>1, <2>1, TextStartedEmits, TextStartedTally DEF Emits
  <2>2. CASE t.blocks # << >>
    BY <1>1, <2>2
  <2> QED BY <2>1, <2>2
<1>3. Made(P, A!Finish(s)) = P \o (u.out \o (stops \o z))
  <2> DEFINE y == stops \o z
             r == [u EXCEPT !.open = {}]
  <2>1. A!Finish(s) = A!Emit(r, y)
    BY DEF A!Finish
  <2> HIDE DEF t, u, y
  <2>2. AnthropicState(r) /\ r.out = u.out
    BY <1>2, FS_EmptySet DEF AnthropicState
  <2> HIDE DEF r
  <2>3. A!Emit(r, y).out = u.out \o y
    BY <2>2 DEF A!Emit, AnthropicState
  <2> QED BY <2>1, <2>3 DEF Made, y
<1> HIDE DEF t, u
<1>4. IsFiniteSet(u.open) /\ u.open \subseteq Int /\ c = Cardinality(u.open) /\ c \in Nat /\ IsSeq(u.out)
  <2>1. u.open \subseteq 0..(u.next - 1) /\ u.next \in Nat
    BY <1>2 DEF Tally
  <2>2. c = Cardinality(u.open)
    BY DEF A!Cardinality, Cardinality
  <2>3. u.open \subseteq Int
    BY <2>1
  <2> HIDE DEF c
  <2> QED BY <1>2, <2>2, <2>3, FS_CardinalityType DEF AnthropicState
<1>5. /\ \A i \in 1..c : closing[i] \in u.open
      /\ \A i, j \in 1..c : closing[i] = closing[j] => i = j
      /\ \A b \in u.open : \E i \in 1..c : closing[i] = b
  <2> DEFINE S == u.open
  <2>1. /\ \A rank \in 0..(c - 1) : NthOf(S, rank) \in S
        /\ \A m, rank \in 0..(c - 1) : NthOf(S, m) = NthOf(S, rank) => m = rank
        /\ \A b \in S : \E rank \in 0..(c - 1) : NthOf(S, rank) = b
    <3> HIDE DEF S, c
    <3> QED BY <1>4, NthEnumerates DEF S
  <2>2. \A i \in 1..c : closing[i] = NthOf(S, i - 1)
    BY NthIs
  <2> HIDE DEF S, c, closing
  <2>3. \A i \in 1..c : i - 1 \in 0..(c - 1)
    BY <1>4
  <2>4. \A i, j \in 1..c : i - 1 = j - 1 => i = j
    BY <1>4
  <2>5. \A rank \in 0..(c - 1) : rank + 1 \in 1..c /\ (rank + 1) - 1 = rank
    BY <1>4
  <2>6. \A i \in 1..c : closing[i] \in u.open
    BY <2>1, <2>2, <2>3 DEF S
  <2>7. \A i, j \in 1..c : closing[i] = closing[j] => i = j
    BY <2>1, <2>2, <2>3, <2>4
  <2>8. ASSUME NEW b \in u.open PROVE \E i \in 1..c : closing[i] = b
    <3>1. PICK rank \in 0..(c - 1) : NthOf(S, rank) = b
      BY <2>1 DEF S
    <3>2. closing[rank + 1] = b
      BY <2>2, <2>5, <3>1
    <3> QED BY <2>5, <3>2
  <2> QED BY <2>6, <2>7, <2>8
<1>6. Len(closing) = c
  <2>1. closing \in Seq({A!Nth(u.open, i - 1) : i \in 1..c})
    BY <1>4, SeqDef
  <2> QED BY <1>4
<1>7. DOMAIN stops = 1..c /\ \A i \in 1..c : stops[i].type = "stop" /\ stops[i].at = closing[i]
  BY <1>6 DEF A!Event
<1>8. IsSeq(stops) /\ Len(stops) = c
  <2>1. stops = [i \in 1..c |-> stops[i]]
    BY <1>6
  <2> DEFINE S == {stops[i] : i \in 1..c}
  <2> HIDE DEF stops, c
  <2>2. stops \in [1..c -> S]
    BY <2>1
  <2> HIDE DEF S
  <2>3. stops \in Seq(S)
    BY <1>4, <2>2, SeqDef
  <2> QED BY <1>4, <1>7, <2>3, LenProperties, SeqIsSeq
<1> HIDE DEF closing, stops, c
<1>9. StopsOf(stops, u.open) /\ u.open \ Stopping(stops) = {}
  BY <1>5, <1>7, <1>8 DEF StopsOf, Stopping
<1>10. Tally(q \o stops, u.next, {})
  BY <1>2, <1>9, TallyStops
<1>11. e.type \in MessageEnds /\ IsSeq(z)
  BY SingleSeq DEF A!Plain, A!Event, MessageEnds
<1>12. Ordered((q \o stops) \o z)
  <2> HIDE DEF q, e
  <2> QED BY <1>10, <1>11, TallyEnd DEF z
<1>13. (q \o stops) \o z = P \o (u.out \o (stops \o z))
  <2> HIDE DEF z
  <2>1. Cat(Cat(Cat(P, u.out), stops), z) = Cat(P, Cat(u.out, Cat(stops, z)))
    BY <1>4, <1>8, <1>11, CatRegroups
  <2> QED BY <2>1 DEF Cat, Made
<1> QED BY <1>3, <1>12, <1>13

---------------------------------------------------------------------------
(* What the Responses translator knows of the events it made *)

\* Every item it numbered is still open, is the reasoning, the message or a
\* function call, and only one of these.
RTracks(s, q) ==
    /\ Tally(q, s.next, 0..(s.next - 1))
    /\ s.think # R!None =>
        /\ s.think \in 0..(s.next - 1) /\ StartedAs(q, Len(q), s.think, "think")
        /\ s.think # s.text
    /\ s.text # R!None =>
        /\ s.text \in 0..(s.next - 1) /\ StartedAs(q, Len(q), s.text, "text")
    /\ DOMAIN s.calls \subseteq Nat
    /\ \A i \in DOMAIN s.calls :
        /\ s.calls[i] \in 0..(s.next - 1) /\ StartedAs(q, Len(q), s.calls[i], "tool")
        /\ s.calls[i] \notin {s.think, s.text}
        /\ \A j \in DOMAIN s.calls : s.calls[i] = s.calls[j] => i = j
    /\ \A at \in 0..(s.next - 1) :
        at \in {s.think, s.text} \/ \E i \in DOMAIN s.calls : s.calls[i] = at
    /\ ~s.started => q = << >>

\* The three items as they are numbered, before their delta.
Thinking(s) ==
    IF s.think # R!None THEN s
    ELSE R!Emit([s EXCEPT !.think = s.next, !.next = @ + 1], <<R!Event("start", s.next, "think")>>)
Texting(s) ==
    IF s.text # R!None THEN s
    ELSE R!Emit([s EXCEPT !.text = s.next, !.next = @ + 1], <<R!Event("start", s.next, "text")>>)
Calling(s, i) ==
    IF i \in DOMAIN s.calls THEN s
    ELSE R!Emit([s EXCEPT !.calls = R!Put(@, i, s.next), !.next = @ + 1],
                <<R!Event("start", s.next, "tool")>>)

LEMMA ResponseStart ==
    ASSUME NEW q, IsSeq(q), NEW k, Tally(q, k, 0..(k - 1)), NEW e, e.type = "start", e.at = k,
           NEW r, r = q \o <<e>>
    PROVE  /\ Tally(r, k + 1, 0..k) /\ StartedAs(r, Len(r), k, e.kind)
           /\ \A at, kind : StartedAs(q, Len(q), at, kind) => StartedAs(r, Len(r), at, kind)
<1>1. Tally(r, k + 1, 0..(k - 1) \cup {k}) /\ k \in Nat
  BY TallyStart DEF Tally
<1>2. 0..(k - 1) \cup {k} = 0..k
  BY <1>1
<1>3. /\ StartedAs(r, Len(r), k, e.kind)
      /\ \A at, kind : StartedAs(q, Len(q), at, kind) => StartedAs(r, Len(r), at, kind)
  BY OneMore
<1> QED BY <1>1, <1>2, <1>3

LEMMA ThinkingTracks ==
    ASSUME NEW s, ResponsesState(s), NEW P, IsSeq(P), RTracks(s, Made(P, s)), s.started
    PROVE  LET t == Thinking(s) IN
           /\ RTracks(t, Made(P, t)) /\ t.started /\ t.think # R!None /\ ResponsesState(t)
<1> DEFINE t == Thinking(s)
           e == R!Event("start", s.next, "think")
           q == Made(P, s)
           r == Made(P, t)
<1>1. CASE s.think # R!None
  BY <1>1 DEF Thinking
<1>2. CASE s.think = R!None
  <2>1. /\ t.think = s.next /\ t.next = s.next + 1 /\ t.text = s.text /\ t.calls = s.calls
        /\ t.started = s.started /\ Adds(s, t, e) /\ t = [x \in DOMAIN t |-> t[x]] /\ DOMAIN t = DOMAIN s
    BY <1>2 DEF Thinking, R!Emit, ResponsesState, Adds
  <2>2. e.type = "start" /\ e.at = s.next /\ e.kind = "think"
    BY DEF R!Event
  <2> HIDE DEF t, e
  <2>3. r = q \o <<e>> /\ IsSeq(q)
    BY <2>1, MadeAdds DEF ResponsesState
  <2>4. RTracks(s, q) /\ Tally(q, s.next, 0..(s.next - 1)) /\ s.next \in Nat
    BY DEF RTracks, Tally
  <2>5. IsSeq(t.out)
    <3>1. IsSeq(<<e>>) /\ IsSeq(s.out)
      BY SingleSeq DEF ResponsesState
    <3> QED BY <2>1, <3>1, ConcatSeq DEF Adds
  <2> HIDE DEF q, r
  <2>6. /\ Tally(r, s.next + 1, 0..s.next) /\ StartedAs(r, Len(r), s.next, "think")
        /\ \A at, kind : StartedAs(q, Len(q), at, kind) => StartedAs(r, Len(r), at, kind)
    BY <2>2, <2>3, <2>4, ResponseStart
  <2>7. 0..(t.next - 1) = 0..s.next /\ s.next \notin 0..(s.next - 1) /\ 0..s.next = 0..(s.next - 1) \cup {s.next}
        /\ s.next # R!None
    BY <2>1, <2>4 DEF R!None
  <2>8. s.text # s.next
    BY <2>4, <2>7 DEF RTracks
  <2>9. \A i \in DOMAIN t.calls :
            /\ t.calls[i] \in 0..s.next /\ StartedAs(r, Len(r), t.calls[i], "tool")
            /\ t.calls[i] \notin {t.think, t.text}
            /\ \A j \in DOMAIN t.calls : t.calls[i] = t.calls[j] => i = j
    BY <2>1, <2>4, <2>6, <2>7 DEF RTracks
  <2>10. \A at \in 0..s.next : at \in {t.think, t.text} \/ \E i \in DOMAIN t.calls : t.calls[i] = at
    <3>1. \A at \in 0..(s.next - 1) : at = s.think \/ at = s.text \/ \E i \in DOMAIN s.calls : s.calls[i] = at
      BY <2>4 DEF RTracks
    <3>2. \A at \in 0..(s.next - 1) : at # s.think
      BY <1>2 DEF R!None
    <3> QED BY <2>1, <2>7, <3>1, <3>2
  <2>11. t.text # R!None => t.text \in 0..s.next /\ StartedAs(r, Len(r), t.text, "text")
    BY <2>1, <2>4, <2>6, <2>7 DEF RTracks
  <2>12. RTracks(t, r)
    BY <2>1, <2>4, <2>6, <2>7, <2>8, <2>9, <2>10, <2>11 DEF RTracks
  <2>13. ResponsesState(t)
    BY <2>1, <2>5 DEF ResponsesState
  <2> QED BY <2>1, <2>7, <2>12, <2>13 DEF t, r
<1> QED BY <1>1, <1>2

LEMMA TextingTracks ==
    ASSUME NEW s, ResponsesState(s), NEW P, IsSeq(P), RTracks(s, Made(P, s)), s.started
    PROVE  LET t == Texting(s) IN
           /\ RTracks(t, Made(P, t)) /\ t.started /\ t.text # R!None /\ ResponsesState(t)
<1> DEFINE t == Texting(s)
           e == R!Event("start", s.next, "text")
           q == Made(P, s)
           r == Made(P, t)
<1>1. CASE s.text # R!None
  BY <1>1 DEF Texting
<1>2. CASE s.text = R!None
  <2>1. /\ t.text = s.next /\ t.next = s.next + 1 /\ t.think = s.think /\ t.calls = s.calls
        /\ t.started = s.started /\ Adds(s, t, e) /\ t = [x \in DOMAIN t |-> t[x]] /\ DOMAIN t = DOMAIN s
    BY <1>2 DEF Texting, R!Emit, ResponsesState, Adds
  <2>2. e.type = "start" /\ e.at = s.next /\ e.kind = "text"
    BY DEF R!Event
  <2> HIDE DEF t, e
  <2>3. r = q \o <<e>> /\ IsSeq(q)
    BY <2>1, MadeAdds DEF ResponsesState
  <2>4. RTracks(s, q) /\ Tally(q, s.next, 0..(s.next - 1)) /\ s.next \in Nat
    BY DEF RTracks, Tally
  <2>5. IsSeq(t.out)
    <3>1. IsSeq(<<e>>) /\ IsSeq(s.out)
      BY SingleSeq DEF ResponsesState
    <3> QED BY <2>1, <3>1, ConcatSeq DEF Adds
  <2> HIDE DEF q, r
  <2>6. /\ Tally(r, s.next + 1, 0..s.next) /\ StartedAs(r, Len(r), s.next, "text")
        /\ \A at, kind : StartedAs(q, Len(q), at, kind) => StartedAs(r, Len(r), at, kind)
    BY <2>2, <2>3, <2>4, ResponseStart
  <2>7. 0..(t.next - 1) = 0..s.next /\ s.next \notin 0..(s.next - 1) /\ 0..s.next = 0..(s.next - 1) \cup {s.next}
        /\ s.next # R!None
    BY <2>1, <2>4 DEF R!None
  <2>8. t.think # R!None =>
            t.think \in 0..s.next /\ StartedAs(r, Len(r), t.think, "think") /\ t.think # t.text
    BY <2>1, <2>4, <2>6, <2>7 DEF RTracks
  <2>9. \A i \in DOMAIN t.calls :
            /\ t.calls[i] \in 0..s.next /\ StartedAs(r, Len(r), t.calls[i], "tool")
            /\ t.calls[i] \notin {t.think, t.text}
            /\ \A j \in DOMAIN t.calls : t.calls[i] = t.calls[j] => i = j
    BY <2>1, <2>4, <2>6, <2>7 DEF RTracks
  <2>10. \A at \in 0..s.next : at \in {t.think, t.text} \/ \E i \in DOMAIN t.calls : t.calls[i] = at
    <3>1. \A at \in 0..(s.next - 1) : at = s.think \/ at = s.text \/ \E i \in DOMAIN s.calls : s.calls[i] = at
      BY <2>4 DEF RTracks
    <3>2. \A at \in 0..(s.next - 1) : at # s.text
      BY <1>2 DEF R!None
    <3> QED BY <2>1, <2>7, <3>1, <3>2
  <2>12. RTracks(t, r)
    BY <2>1, <2>4, <2>6, <2>7, <2>8, <2>9, <2>10 DEF RTracks
  <2>13. ResponsesState(t)
    BY <2>1, <2>5 DEF ResponsesState
  <2> QED BY <2>1, <2>7, <2>12, <2>13 DEF t, r
<1> QED BY <1>1, <1>2

LEMMA CallingTracks ==
    ASSUME NEW s, ResponsesState(s), NEW P, IsSeq(P), RTracks(s, Made(P, s)), s.started, NEW i \in Nat
    PROVE  LET t == Calling(s, i) IN
           /\ RTracks(t, Made(P, t)) /\ t.started /\ i \in DOMAIN t.calls /\ ResponsesState(t)
<1> DEFINE t == Calling(s, i)
           e == R!Event("start", s.next, "tool")
           q == Made(P, s)
           r == Made(P, t)
<1>1. CASE i \in DOMAIN s.calls
  BY <1>1 DEF Calling
<1>2. CASE i \notin DOMAIN s.calls
  <2>1. /\ t.calls = R!Put(s.calls, i, s.next) /\ t.next = s.next + 1 /\ t.think = s.think /\ t.text = s.text
        /\ t.started = s.started /\ Adds(s, t, e) /\ t = [x \in DOMAIN t |-> t[x]] /\ DOMAIN t = DOMAIN s
    BY <1>2 DEF Calling, R!Emit, ResponsesState, Adds
  <2>2. e.type = "start" /\ e.at = s.next /\ e.kind = "tool"
    BY DEF R!Event
  <2> HIDE DEF t, e
  <2>3. r = q \o <<e>> /\ IsSeq(q)
    BY <2>1, MadeAdds DEF ResponsesState
  <2>4. RTracks(s, q) /\ Tally(q, s.next, 0..(s.next - 1)) /\ s.next \in Nat
    BY DEF RTracks, Tally
  <2>5. IsSeq(t.out)
    <3>1. IsSeq(<<e>>) /\ IsSeq(s.out)
      BY SingleSeq DEF ResponsesState
    <3> QED BY <2>1, <3>1, ConcatSeq DEF Adds
  <2> HIDE DEF q, r
  <2>6. /\ Tally(r, s.next + 1, 0..s.next) /\ StartedAs(r, Len(r), s.next, "tool")
        /\ \A at, kind : StartedAs(q, Len(q), at, kind) => StartedAs(r, Len(r), at, kind)
    BY <2>2, <2>3, <2>4, ResponseStart
  <2>7. 0..(t.next - 1) = 0..s.next /\ s.next \notin 0..(s.next - 1) /\ 0..s.next = 0..(s.next - 1) \cup {s.next}
        /\ s.next # R!None
    BY <2>1, <2>4 DEF R!None
  <2>8. /\ t.think # R!None =>
            t.think \in 0..s.next /\ StartedAs(r, Len(r), t.think, "think") /\ t.think # t.text
        /\ t.text # R!None => t.text \in 0..s.next /\ StartedAs(r, Len(r), t.text, "text")
    BY <2>1, <2>4, <2>6, <2>7 DEF RTracks
  <2>9. /\ DOMAIN t.calls = DOMAIN s.calls \cup {i} /\ t.calls[i] = s.next
        /\ \A j \in DOMAIN s.calls : t.calls[j] = s.calls[j]
    BY <1>2, <2>1 DEF R!Put
  <2>10. s.next \notin {s.think, s.text} /\ \A j \in DOMAIN s.calls : s.calls[j] # s.next
    BY <2>4, <2>7 DEF RTracks
  <2>11. \A j \in DOMAIN t.calls :
            /\ t.calls[j] \in 0..s.next /\ StartedAs(r, Len(r), t.calls[j], "tool")
            /\ t.calls[j] \notin {t.think, t.text}
    BY <2>1, <2>4, <2>6, <2>7, <2>9, <2>10 DEF RTracks
  <2>12. \A j, k \in DOMAIN t.calls : t.calls[j] = t.calls[k] => j = k
    <3>1. \A j, k \in DOMAIN s.calls : s.calls[j] = s.calls[k] => j = k
      BY <2>4 DEF RTracks
    <3> QED BY <2>9, <2>10, <3>1
  <2>13. \A at \in 0..s.next : at \in {t.think, t.text} \/ \E j \in DOMAIN t.calls : t.calls[j] = at
    BY <2>1, <2>4, <2>7, <2>9 DEF RTracks
  <2>14. DOMAIN t.calls \subseteq Nat /\ IsFiniteSet(DOMAIN t.calls)
    BY <2>4, <2>9, FS_AddElement DEF RTracks, ResponsesState
  <2>15. RTracks(t, r)
    BY <2>1, <2>4, <2>6, <2>7, <2>8, <2>11, <2>12, <2>13, <2>14 DEF RTracks
  <2>16. ResponsesState(t)
    BY <2>1, <2>5, <2>14 DEF ResponsesState
  <2> QED BY <2>1, <2>9, <2>15, <2>16 DEF t, r
<1> QED BY <1>1, <1>2

LEMMA ResponseDelta ==
    ASSUME NEW s, ResponsesState(s), NEW P, IsSeq(P), RTracks(s, Made(P, s)), s.started,
           NEW e, e.type = "delta", e.at \in 0..(s.next - 1),
           StartedAs(Made(P, s), Len(Made(P, s)), e.at, e.kind)
    PROVE  RTracks(R!Emit(s, <<e>>), Made(P, R!Emit(s, <<e>>)))
<1> DEFINE u == R!Emit(s, <<e>>)
           q == Made(P, s)
           r == Made(P, u)
<1>1. /\ u.think = s.think /\ u.text = s.text /\ u.calls = s.calls /\ u.next = s.next
      /\ u.started = s.started /\ Adds(s, u, e)
  BY DEF R!Emit, ResponsesState, Adds
<1> HIDE DEF u
<1>2. r = q \o <<e>> /\ IsSeq(q)
  BY <1>1, MadeAdds DEF ResponsesState
<1>3. RTracks(s, q) /\ Tally(q, s.next, 0..(s.next - 1)) /\ StartedAs(q, Len(q), e.at, e.kind)
  BY DEF RTracks
<1> HIDE DEF q, r
<1>4. Admits(q, Len(q), e)
  BY <1>3 DEF Admits, Tally, MessageEnds
<1>5. Tally(r, s.next, 0..(s.next - 1))
  BY <1>2, <1>3, <1>4, TallyQuiet DEF MessageEnds
<1>6. \A at, kind : StartedAs(q, Len(q), at, kind) => StartedAs(r, Len(r), at, kind)
  BY <1>2, OneMore
<1>7. RTracks(u, r)
  BY <1>1, <1>3, <1>5, <1>6 DEF RTracks
<1> QED BY <1>7 DEF u, r

LEMMA ROpenedTracks ==
    ASSUME NEW s, ResponsesState(s), NEW P, IsSeq(P), RTracks(s, Made(P, s))
    PROVE  LET t == R!Opened(s) IN RTracks(t, Made(P, t)) /\ t.started /\ ResponsesState(t)
<1> DEFINE t == R!Opened(s)
           e == R!Plain("created")
           q == Made(P, s)
           r == Made(P, t)
<1>1. CASE s.started
  BY <1>1 DEF R!Opened
<1>2. CASE ~s.started
  <2>1. /\ t.think = s.think /\ t.text = s.text /\ t.calls = s.calls /\ t.next = s.next
        /\ t.started /\ Adds(s, t, e) /\ t = [x \in DOMAIN t |-> t[x]] /\ DOMAIN t = DOMAIN s
    BY <1>2 DEF R!Opened, R!Emit, ResponsesState, Adds
  <2>2. e.type = "created"
    BY DEF R!Plain, R!Event
  <2> HIDE DEF t, e
  <2>3. r = q \o <<e>> /\ IsSeq(q)
    BY <2>1, MadeAdds DEF ResponsesState
  <2>4. q = << >>
    BY <1>2 DEF RTracks
  <2>5. RTracks(s, q) /\ Tally(q, s.next, 0..(s.next - 1))
    BY DEF RTracks
  <2> HIDE DEF q, r
  <2>6. Len(q) = 0
    BY <2>4, EmptyIsSeq
  <2>7. Admits(q, Len(q), e)
    BY <2>2, <2>6 DEF Admits, MessageEnds
  <2>8. Tally(r, s.next, 0..(s.next - 1))
    BY <2>2, <2>3, <2>5, <2>7, TallyQuiet DEF MessageEnds
  <2>9. \A at, kind : StartedAs(q, Len(q), at, kind) => StartedAs(r, Len(r), at, kind)
    BY <2>3, OneMore
  <2>10. RTracks(t, r)
    BY <2>1, <2>5, <2>8, <2>9 DEF RTracks
  <2>11. IsSeq(t.out)
    <3>1. IsSeq(<<e>>) /\ IsSeq(s.out)
      BY SingleSeq DEF ResponsesState
    <3> QED BY <2>1, <3>1, ConcatSeq DEF Adds
  <2>12. ResponsesState(t)
    BY <2>1, <2>11 DEF ResponsesState
  <2> QED BY <2>1, <2>10, <2>12 DEF t, r
<1> QED BY <1>1, <1>2

\* A frame of the chat stream, whatever the order of reasoning, text and calls.
LEMMA RReadTracks ==
    ASSUME NEW s, ResponsesState(s), NEW P, IsSeq(P), RTracks(s, Made(P, s)), NEW c, c.at \in Nat
    PROVE  RTracks(R!Read(s, c), Made(P, R!Read(s, c)))
<1> DEFINE t == R!Opened(s)
<1>1. RTracks(t, Made(P, t)) /\ t.started /\ ResponsesState(t)
  BY ROpenedTracks
<1>2. /\ c.kind = "think" => R!Read(s, c) = R!Think(t)
      /\ c.kind = "text" => R!Read(s, c) = R!Text(t)
      /\ c.kind = "tool" => R!Read(s, c) = R!Tool(t, c.at, c.args)
      /\ c.kind \notin {"think", "text", "tool"} => R!Read(s, c) = t
  BY DEF R!Read
<1> HIDE DEF t
<1>3. RTracks(R!Think(t), Made(P, R!Think(t)))
  <2> DEFINE u == Thinking(t)
             e == R!Event("delta", u.think, "think")
  <2>1. R!Think(t) = R!Emit(u, <<e>>)
    BY DEF R!Think, Thinking
  <2>2. RTracks(u, Made(P, u)) /\ u.started /\ u.think # R!None /\ ResponsesState(u)
    BY <1>1, ThinkingTracks
  <2>3. e.type = "delta" /\ e.at = u.think /\ e.kind = "think"
    BY DEF R!Event
  <2> HIDE DEF u, e
  <2>4. u.think \in 0..(u.next - 1) /\ StartedAs(Made(P, u), Len(Made(P, u)), u.think, "think")
    BY <2>2 DEF RTracks
  <2> QED BY <2>1, <2>2, <2>3, <2>4, ResponseDelta
<1>4. RTracks(R!Text(t), Made(P, R!Text(t)))
  <2> DEFINE u == Texting(t)
             e == R!Event("delta", u.text, "text")
  <2>1. R!Text(t) = R!Emit(u, <<e>>)
    BY DEF R!Text, Texting
  <2>2. RTracks(u, Made(P, u)) /\ u.started /\ u.text # R!None /\ ResponsesState(u)
    BY <1>1, TextingTracks
  <2>3. e.type = "delta" /\ e.at = u.text /\ e.kind = "text"
    BY DEF R!Event
  <2> HIDE DEF u, e
  <2>4. u.text \in 0..(u.next - 1) /\ StartedAs(Made(P, u), Len(Made(P, u)), u.text, "text")
    BY <2>2 DEF RTracks
  <2> QED BY <2>1, <2>2, <2>3, <2>4, ResponseDelta
<1>5. RTracks(R!Tool(t, c.at, c.args), Made(P, R!Tool(t, c.at, c.args)))
  <2> DEFINE u == Calling(t, c.at)
             e == R!Event("delta", u.calls[c.at], "tool")
             v == R!Emit(u, <<e>>)
  <2>1. R!Tool(t, c.at, c.args) = IF c.args THEN v ELSE u
    BY DEF R!Tool, Calling
  <2>2. RTracks(u, Made(P, u)) /\ u.started /\ c.at \in DOMAIN u.calls /\ ResponsesState(u)
    BY <1>1, CallingTracks
  <2>3. e.type = "delta" /\ e.at = u.calls[c.at] /\ e.kind = "tool"
    BY DEF R!Event
  <2> HIDE DEF u, e
  <2>4. u.calls[c.at] \in 0..(u.next - 1) /\ StartedAs(Made(P, u), Len(Made(P, u)), u.calls[c.at], "tool")
    BY <2>2 DEF RTracks
  <2>5. RTracks(v, Made(P, v))
    BY <2>2, <2>3, <2>4, ResponseDelta
  <2> HIDE DEF v
  <2> QED BY <2>1, <2>2, <2>5
<1> QED BY <1>1, <1>2, <1>3, <1>4, <1>5

\* One item is done, or was never there.
LEMMA TallyItem ==
    ASSUME NEW q, NEW k, NEW open, Tally(q, k, open), NEW at, NEW kind, at # R!None => at \in open
    PROVE  Tally(q \o Item(at, kind), k, open \ {at})
<1>1. CASE at = R!None
  <2>1. q \o << >> = q
    <3>1. q \in Seq(Parts(q))
      BY DEF Tally, IsSeq
    <3> QED BY <3>1, ConcatEmptySeq
  <2>2. open \ {at} = open
    <3>1. at \notin open
      BY <1>1 DEF Tally, R!None
    <3> QED BY <3>1
  <2>3. Item(at, kind) = << >>
    BY <1>1 DEF Item
  <2> QED BY <2>1, <2>2, <2>3
<1>2. CASE at # R!None
  <2> DEFINE e == R!Event("stop", at, kind)
  <2>1. Item(at, kind) = <<e>> /\ e.type = "stop" /\ e.at = at
    BY <1>2 DEF Item, R!Event
  <2> HIDE DEF e
  <2> QED BY <1>2, <2>1, TallyStop
<1> QED BY <1>1, <1>2

LEMMA CallsStop ==
    ASSUME NEW s, ResponsesState(s), NEW q, RTracks(s, q)
    PROVE  LET z == CallEvents(s) IN
           /\ StopsOf(z, 0..(s.next - 1) \ {s.think, s.text})
           /\ (0..(s.next - 1) \ {s.think, s.text}) \ Stopping(z) = {}
<1> DEFINE S == DOMAIN s.calls
           c == Cardinality(S)
           z == CallEvents(s)
           open == 0..(s.next - 1) \ {s.think, s.text}
<1>1. IsFiniteSet(S) /\ S \subseteq Int /\ c \in Nat
  BY FS_CardinalityType DEF ResponsesState, RTracks
<1>2. DOMAIN z = 1..c /\ \A i \in 1..c : z[i].type = "stop" /\ z[i].at = s.calls[NthOf(S, i - 1)]
  BY NthIs DEF CallEvents, R!Event
<1>3. z = [i \in 1..c |-> z[i]]
  BY DEF CallEvents
<1>4. /\ \A i \in S : s.calls[i] \in open /\ \A j \in S : s.calls[i] = s.calls[j] => i = j
      /\ \A at \in open : \E i \in S : s.calls[i] = at
  BY DEF RTracks
<1> HIDE DEF S, c, z
<1>5. /\ \A rank \in 0..(c - 1) : NthOf(S, rank) \in S
      /\ \A m, rank \in 0..(c - 1) : NthOf(S, m) = NthOf(S, rank) => m = rank
      /\ \A b \in S : \E rank \in 0..(c - 1) : NthOf(S, rank) = b
  BY <1>1, NthEnumerates DEF c
<1> HIDE DEF open
<1>6. IsSeq(z) /\ Len(z) = c
  <2> DEFINE T == {z[i] : i \in 1..c}
  <2>1. z \in [1..c -> T]
    BY <1>3
  <2> HIDE DEF T
  <2>2. z \in Seq(T)
    BY <1>1, <2>1, SeqDef
  <2> QED BY <1>1, <1>2, <2>2, LenProperties, SeqIsSeq
<1>7. \A i \in 1..c : i - 1 \in 0..(c - 1) /\ \A j \in 1..c : i - 1 = j - 1 => i = j
  BY <1>1
<1>8. \A rank \in 0..(c - 1) : rank + 1 \in 1..c /\ (rank + 1) - 1 = rank
  BY <1>1
<1>9. \A i \in 1..c : z[i].at \in open
  BY <1>2, <1>4, <1>5, <1>7
<1>10. \A i, j \in 1..c : z[i].at = z[j].at => i = j
  <2> SUFFICES ASSUME NEW i \in 1..c, NEW j \in 1..c, z[i].at = z[j].at PROVE i = j
    OBVIOUS
  <2>1. NthOf(S, i - 1) = NthOf(S, j - 1)
    BY <1>2, <1>4, <1>5, <1>7
  <2> QED BY <1>5, <1>7, <2>1
<1>11. \A at \in open : \E i \in 1..c : z[i].at = at
  <2> SUFFICES ASSUME NEW at \in open PROVE \E i \in 1..c : z[i].at = at
    OBVIOUS
  <2>1. PICK b \in S : s.calls[b] = at
    BY <1>4
  <2>2. PICK rank \in 0..(c - 1) : NthOf(S, rank) = b
    BY <1>5
  <2>3. z[rank + 1].at = at
    BY <1>2, <1>8, <2>1, <2>2
  <2> QED BY <1>8, <2>3
<1>12. StopsOf(z, open) /\ open \ Stopping(z) = {}
  BY <1>2, <1>6, <1>9, <1>10, <1>11 DEF StopsOf, Stopping
<1> QED BY <1>12 DEF z, open

\* After [DONE] every item is done, and then the answer is complete.
LEMMA RFinishOrdered ==
    ASSUME NEW s, ResponsesState(s), s.out = << >>, NEW q, RTracks(s, q)
    PROVE  Ordered(q \o R!Finish(s).out) /\ IsSeq(q \o R!Finish(s).out)
<1> DEFINE a == Item(s.think, "think")
           b == Item(s.text, "text")
           c == CallEvents(s)
           e == R!Plain("completed")
           z == <<e>>
           k == s.next
           open == 0..(k - 1)
<1>1. IsSeq(a) /\ IsSeq(b) /\ IsSeq(c) /\ R!Finish(s).out = ((a \o b) \o c) \o z
  BY FinishIs
<1>2. Tally(q, k, open) /\ IsSeq(q)
  BY DEF RTracks, Tally
<1>3. Tally(q \o a, k, open \ {s.think})
  BY <1>2, TallyItem DEF RTracks
<1>4. Tally((q \o a) \o b, k, (open \ {s.think}) \ {s.text})
  <2>1. s.text # R!None => s.text \in open \ {s.think}
    BY DEF RTracks
  <2> DEFINE p == q \o a
             o == open \ {s.think}
  <2> HIDE DEF p, a, o
  <2>2. Tally(p \o b, k, o \ {s.text})
    BY <1>3, <2>1, TallyItem DEF p, o
  <2> QED BY <2>2 DEF p, a, o
<1>5. (open \ {s.think}) \ {s.text} = open \ {s.think, s.text}
  OBVIOUS
<1>6. StopsOf(c, open \ {s.think, s.text}) /\ (open \ {s.think, s.text}) \ Stopping(c) = {}
  BY CallsStop
<1>7. Tally(((q \o a) \o b) \o c, k, {})
  <2> DEFINE p == (q \o a) \o b
             o == open \ {s.think, s.text}
  <2>1. Tally(p, k, o)
    BY <1>4, <1>5
  <2> HIDE DEF p, o, c
  <2>2. Tally(p \o c, k, o \ Stopping(c))
    BY <1>6, <2>1, TallyStops DEF o
  <2> QED BY <1>6, <2>2 DEF p, o
<1>8. e.type \in MessageEnds /\ IsSeq(z)
  BY SingleSeq DEF R!Plain, R!Event, MessageEnds
<1>9. Ordered((((q \o a) \o b) \o c) \o z) /\ IsSeq((((q \o a) \o b) \o c) \o z)
  <2> DEFINE p == ((q \o a) \o b) \o c
  <2> HIDE DEF p, e
  <2>1. Ordered(p \o z) /\ IsSeq(p)
    BY <1>7, <1>8, TallyEnd DEF p, Tally
  <2>2. IsSeq(p \o z)
    BY <1>8, <2>1, ConcatSeq
  <2> QED BY <2>1, <2>2 DEF p
<1> HIDE DEF a, b, c, z
<1>10. (((q \o a) \o b) \o c) \o z = q \o (((a \o b) \o c) \o z)
  <2>1. Cat(Cat(Cat(Cat(q, a), b), c), z) = Cat(q, Cat(Cat(Cat(a, b), c), z))
    <3>1. IsSeq(Cat(a, b)) /\ IsSeq(Cat(Cat(a, b), c)) /\ IsSeq(Cat(q, a))
      BY <1>1, <1>2, CatRegroups
    <3>2. Cat(Cat(q, a), b) = Cat(q, Cat(a, b))
      BY <1>1, <1>2, CatRegroups
    <3>3. Cat(Cat(q, Cat(a, b)), c) = Cat(q, Cat(Cat(a, b), c))
      BY <1>1, <1>2, <3>1, CatRegroups
    <3>4. Cat(Cat(q, Cat(Cat(a, b), c)), z) = Cat(q, Cat(Cat(Cat(a, b), c), z))
      BY <1>2, <1>8, <3>1, CatRegroups
    <3> QED BY <3>2, <3>3, <3>4
  <2> QED BY <2>1 DEF Cat
<1> QED BY <1>1, <1>9, <1>10

---------------------------------------------------------------------------
(* The session, continued: what the client sees of the blocks *)

\* What is sent when no translator sits below the pump.
PlainTypes == {"data", "done", "message_stop", "error", "none"}
PlainFrame(f) == f.type \in PlainTypes /\ f.at \in Nat
PlainSeq(q) == \A i \in 1..Len(q) : PlainFrame(q[i])

LEMMA PlainOrdered ==
    ASSUME NEW q, PlainSeq(q)
    PROVE  Ordered(q)
<1> SUFFICES ASSUME NEW i \in 1..Len(q) PROVE Admits(q, i - 1, q[i])
  BY DEF Ordered
<1>1. \A j \in 1..Len(q) : q[j].type \in PlainTypes
  BY DEF PlainSeq, PlainFrame
<1>2. \A j \in 1..(i - 1) : q[j].type # "start"
  <2> SUFFICES ASSUME NEW j \in 1..(i - 1) PROVE q[j].type # "start"
    OBVIOUS
  <2>1. j \in 1..Len(q)
    OBVIOUS
  <2> QED BY <1>1, <2>1 DEF PlainTypes
<1> QED BY <1>1, <1>2 DEF Admits, MessageEnds, PlainTypes

LEMMA PlainEmpty == PlainSeq(<< >>)
<1>1. 1..Len(<< >>) = {}
  BY EmptyIsSeq
<1> QED BY <1>1 DEF PlainSeq

LEMMA PlainSingle ==
    ASSUME NEW f, PlainFrame(f)
    PROVE  PlainSeq(<<f>>)
<1>1. 1..Len(<<f>>) = {1} /\ <<f>>[1] = f
  BY SingleSeq
<1> QED BY <1>1 DEF PlainSeq

LEMMA PlainConcat ==
    ASSUME NEW p, NEW q, IsSeq(p), IsSeq(q), PlainSeq(p), PlainSeq(q)
    PROVE  PlainSeq(p \o q)
<1> DEFINE r == p \o q
<1>1. /\ Len(r) = Len(p) + Len(q) /\ Len(p) \in Nat /\ Len(q) \in Nat
      /\ \A i \in 1..(Len(p) + Len(q)) : r[i] = IF i <= Len(p) THEN p[i] ELSE q[i - Len(p)]
  BY ConcatSeq
<1> HIDE DEF r
<1>2. ASSUME NEW i \in 1..Len(r) PROVE PlainFrame(r[i])
  <2>1. CASE i <= Len(p)
    <3>1. i \in 1..Len(p) /\ r[i] = p[i]
      BY <1>1, <2>1
    <3> QED BY <3>1 DEF PlainSeq
  <2>2. CASE ~(i <= Len(p))
    <3>1. i - Len(p) \in 1..Len(q) /\ r[i] = q[i - Len(p)]
      BY <1>1, <2>2
    <3> QED BY <3>1 DEF PlainSeq
  <2> QED BY <2>1, <2>2
<1>3. PlainSeq(r)
  BY <1>2 DEF PlainSeq
<1> QED BY <1>3 DEF r

LEMMA PlainTail ==
    ASSUME NEW q, IsSeq(q), q # << >>, PlainSeq(q)
    PROVE  PlainFrame(Head(q)) /\ PlainSeq(Tail(q))
<1>1. /\ Len(Tail(q)) = Len(q) - 1 /\ Len(q) \in Nat \ {0}
      /\ \A i \in 1..(Len(q) - 1) : Tail(q)[i] = q[i + 1]
      /\ Head(q) = q[1]
  BY HeadTailProperties, LenProperties, EmptySeq DEF IsSeq
<1>2. PlainFrame(Head(q))
  <2>1. 1 \in 1..Len(q)
    BY <1>1
  <2> QED BY <1>1, <2>1 DEF PlainSeq
<1>3. ASSUME NEW i \in 1..Len(Tail(q)) PROVE PlainFrame(Tail(q)[i])
  <2>1. i + 1 \in 1..Len(q) /\ Tail(q)[i] = q[i + 1]
    BY <1>1
  <2> QED BY <2>1 DEF PlainSeq
<1> QED BY <1>2, <1>3 DEF PlainSeq

PlainFrames ==
    surface # "translated" =>
        /\ PlainFrame(pending) /\ PlainSeq(hand) /\ PlainSeq(tr.out)
        /\ surface # "responses" => PlainSeq(got)

LEMMA SurfaceFrames ==
    ASSUME surface # "translated"
    PROVE  /\ PlainFrame(EndFrame) /\ PlainFrame(NoFrame) /\ PlainSeq(ErrorFrames) /\ IsSeq(ErrorFrames)
           /\ \A c \in Chunks : PlainFrame(Data(c))
<1>1. \A type \in PlainTypes : PlainFrame(Frame(type))
  BY DEF Frame, PlainFrame
<1>2. PlainFrame(Frame("error")) /\ PlainFrame(NoFrame) /\ PlainFrame(EndFrame)
  BY <1>1 DEF PlainTypes, EndFrame, NoFrame
<1>3. \A c \in Chunks : PlainFrame(Data(c))
  <2>1. ASSUME NEW c \in Chunks PROVE c.at \in Nat
    <3>1. ToolIds \subseteq Nat /\ 0 \in Nat
      BY SessionAssumption
    <3>2. CASE c \in [kind : {"none", "think", "text"}, at : {0}, args : {FALSE}]
      <4>1. c.at = 0
        BY <3>2
      <4> QED BY <4>1
    <3>3. CASE c \in [kind : {"tool"}, at : ToolIds, args : BOOLEAN]
      <4>1. c.at \in ToolIds
        BY <3>3
      <4> QED BY <3>1, <4>1
    <3> QED BY <3>2, <3>3 DEF Chunks
  <2> QED BY <2>1 DEF Data, PlainFrame, PlainTypes
<1> DEFINE a == Frame("error")
           b == EndFrame
           q == <<a, b>>
<1>4. PlainFrame(a) /\ PlainFrame(b)
  BY <1>2
<1> HIDE DEF a, b
<1>5. PlainSeq(q) /\ IsSeq(q)
  <2>1. 1..Len(q) = {1, 2} /\ q[1] = a /\ q[2] = b
    OBVIOUS
  <2>2. q \in Seq({a, b})
    OBVIOUS
  <2> HIDE DEF q
  <2> QED BY <1>4, <2>1, <2>2, SeqIsSeq DEF PlainSeq
<1> QED BY <1>2, <1>3, <1>5 DEF ErrorFrames, a, b

LEMMA PlainInit == Init => PlainFrames
<1> SUFFICES ASSUME Init, surface # "translated" PROVE PlainFrame(pending) /\ PlainSeq(hand) /\ PlainSeq(tr.out) /\ PlainSeq(got)
  BY DEF PlainFrames
<1> DEFINE f == A!Fresh
<1>1. AnthropicState(f)
  BY EmptyIsSeq, FS_EmptySet DEF A!Fresh, AnthropicState
<1>2. ASSUME NEW d, PlainFrame(d), FirstOf([f EXCEPT !.out = <<d>>])
      PROVE  PlainFrame(pending) /\ PlainSeq(tr.out)
  <2> DEFINE q == <<d>>
             t == [f EXCEPT !.out = q]
  <2>1. IsSeq(q) /\ PlainSeq(q) /\ q # << >>
    BY <1>2, SingleSeq, PlainSingle, EmptyIsSeq
  <2> HIDE DEF f, q
  <2>2. t.out = q /\ AnthropicState(t)
    BY <1>1, <2>1 DEF AnthropicState
  <2>3. pending = Head(t.out) /\ tr = [t EXCEPT !.out = Tail(t.out)]
    BY <1>2 DEF FirstOf, q
  <2> HIDE DEF t
  <2>4. pending = Head(q) /\ tr.out = Tail(q)
    BY <2>2, <2>3 DEF AnthropicState
  <2> QED BY <2>1, <2>4, PlainTail
<1> HIDE DEF f
<1>3. PlainFrame(pending) /\ PlainSeq(tr.out)
  <2>1. CASE \E c \in Chunks : FirstOf(AfterChunk(f, c)) /\ kinds = {c.kind} /\ n = 1 /\ wire = "open"
    <3>1. PICK c \in Chunks : FirstOf(AfterChunk(f, c))
      BY <2>1
    <3>2. FirstOf([f EXCEPT !.out = <<Data(c)>>])
      BY <3>1 DEF AfterChunk
    <3> QED BY <1>2, <3>2, SurfaceFrames
  <2>2. CASE FirstOf(AfterDone(f)) /\ kinds = {} /\ n = 0 /\ wire = WireAfterDone
    <3>1. FirstOf([f EXCEPT !.out = <<EndFrame>>])
      BY <2>2 DEF AfterDone
    <3> QED BY <1>2, <3>1, SurfaceFrames
  <2>3. CASE NoEvent
    <3>1. tr.out = << >> /\ pending = NoFrame
      BY <2>3 DEF NoEvent, A!Fresh
    <3> QED BY <3>1, PlainEmpty, SurfaceFrames
  <2> QED BY <2>1, <2>2, <2>3 DEF Init, f
<1>4. hand = << >> /\ got = << >>
  BY DEF Init
<1> QED BY <1>3, <1>4, PlainEmpty

LEMMA PlainStep ==
    ASSUME SessionInv, PlainFrames, [Next]_vars
    PROVE  PlainFrames'
<1>0. AnthropicState(tr) /\ IsSeq(hand) /\ (pc \in {"yield", "sent"} => hand # << >>)
  BY DEF SessionInv, Waiting, Flows
<1>a. surface' = surface
  BY DEF Next, Step, ReadChunk, ReadDone, PullNothing, PullNext, PullEnds, PullFails, PullCrashes, Resume, Deliver,
         Translate, TranslateDone, Finalize, Leave, Closed, vars
<1> SUFFICES ASSUME surface # "translated"
             PROVE  /\ PlainFrame(pending') /\ PlainSeq(hand') /\ PlainSeq(tr'.out)
                    /\ surface # "responses" => PlainSeq(got')
  BY <1>a DEF PlainFrames
<1>b. /\ PlainFrame(pending) /\ PlainSeq(hand) /\ PlainSeq(tr.out)
      /\ surface # "responses" => PlainSeq(got)
  BY DEF PlainFrames
<1>1. CASE UNCHANGED vars \/ Closed \/ PullNothing \/ PullCrashes \/ Leave \/ Finalize
  <2>1. UNCHANGED <<pending, hand, tr, got>>
    BY <1>1 DEF vars, reading, pump, Closed, PullNothing, PullCrashes, Leave, Finalize
  <2> QED BY <1>b, <2>1
<1>2. CASE ReadChunk \/ ReadDone
  <2>1. UNCHANGED <<pending, hand, got>>
    BY <1>2 DEF ReadChunk, ReadDone, pump
  <2>2. PICK d : PlainFrame(d) /\ tr' = [tr EXCEPT !.out = <<d>>]
    <3>1. ASSUME NEW c \in Chunks, tr' = AfterChunk(tr, c) PROVE PlainFrame(Data(c)) /\ tr' = [tr EXCEPT !.out = <<Data(c)>>]
      BY <3>1, SurfaceFrames DEF AfterChunk
    <3>2. ASSUME tr' = AfterDone(tr) PROVE PlainFrame(EndFrame) /\ tr' = [tr EXCEPT !.out = <<EndFrame>>]
      BY <3>2, SurfaceFrames DEF AfterDone
    <3> QED BY <1>2, <3>1, <3>2 DEF ReadChunk, ReadDone
  <2>3. tr'.out = <<d>>
    BY <1>0, <2>2 DEF AnthropicState
  <2> QED BY <1>b, <2>1, <2>2, <2>3, PlainSingle
<1>3. CASE PullNext
  <2>1. /\ pending' = Head(tr.out) /\ tr' = [tr EXCEPT !.out = Tail(tr.out)] /\ hand' = <<pending>> /\ got' = got
        /\ tr.out # << >>
    BY <1>3 DEF PullNext
  <2>2. tr'.out = Tail(tr.out) /\ IsSeq(tr.out)
    BY <1>0, <2>1 DEF AnthropicState
  <2> QED BY <1>b, <2>1, <2>2, PlainTail, PlainSingle
<1>4. CASE PullEnds
  <2>1. pending' = NoFrame /\ tr' = tr /\ hand' = <<pending>> /\ got' = got
    BY <1>4 DEF PullEnds
  <2> QED BY <1>b, <2>1, SurfaceFrames, PlainSingle
<1>5. CASE PullFails
  <2>1. pending' = NoFrame /\ tr' = tr /\ hand' = <<pending>> \o ErrorFrames /\ got' = got
    BY <1>5 DEF PullFails
  <2>2. PlainSeq(ErrorFrames) /\ IsSeq(ErrorFrames) /\ PlainFrame(NoFrame)
    BY SurfaceFrames
  <2>3. PlainSeq(<<pending>>) /\ IsSeq(<<pending>>)
    BY <1>b, PlainSingle, SingleSeq
  <2>4. PlainSeq(hand')
    BY <2>1, <2>2, <2>3, PlainConcat
  <2> QED BY <1>b, <2>1, <2>2, <2>4
<1>6. CASE Resume
  <2>1. UNCHANGED <<pending, tr, got>> /\ hand' = Tail(hand) /\ pc = "sent"
    BY <1>6 DEF Resume, reading
  <2> QED BY <1>0, <1>b, <2>1, PlainTail
<1>7. CASE Deliver
  <2>1. UNCHANGED <<pending, tr, hand>> /\ got' = Append(got, Head(hand)) /\ pc = "yield"
    BY <1>7 DEF Deliver, reading
  <2>2. PlainFrame(Head(hand))
    BY <1>0, <1>b, <2>1, PlainTail
  <2>3. surface # "responses" => PlainSeq(got')
    <3> SUFFICES ASSUME surface # "responses" PROVE PlainSeq(got')
      OBVIOUS
    <3>1. IsSeq(got)
      BY DEF SessionInv, Flows
    <3> DEFINE e == Head(hand)
    <3>2. IsSeq(<<e>>) /\ PlainSeq(<<e>>)
      BY <2>2, SingleSeq, PlainSingle
    <3>3. Append(got, e) = got \o <<e>>
      <4> DEFINE S == Parts(got) \cup {e}
      <4>1. got \in Seq(S) /\ e \in S
        BY <3>1, SeqMonotonic DEF IsSeq
      <4> HIDE DEF S, e
      <4> QED BY <4>1, AppendIsConcat
    <3> QED BY <1>b, <2>1, <3>1, <3>2, <3>3, PlainConcat
  <2> QED BY <1>b, <2>1, <2>3
<1>8. CASE Translate \/ TranslateDone
  <2>1. UNCHANGED <<pending, tr, hand>> /\ surface = "responses"
    BY <1>8 DEF Translate, TranslateDone, reading
  <2> QED BY <1>b, <2>1
<1> QED BY <1>1, <1>2, <1>3, <1>4, <1>5, <1>6, <1>7, <1>8 DEF Next, Step

---------------------------------------------------------------------------
(* On /v1/responses *)

Running == pc \notin {"abandoned", "closed"}
Responded ==
    surface = "responses" =>
        /\ Ordered(got) /\ IsSeq(got)
        /\ Running => RTracks(resp, got)

LEMMA RespondedInit == Init => Responded
<1> SUFFICES ASSUME Init PROVE Responded
  OBVIOUS
<1>1. got = << >> /\ resp = R!Fresh
  BY DEF Init
<1>2. Tally(<< >>, 0, {}) /\ IsSeq(<< >>) /\ Ordered(<< >>)
  BY TallyEmpty DEF Tally
<1>3. /\ resp.next = 0 /\ resp.think = R!None /\ resp.text = R!None /\ resp.calls = << >>
      /\ DOMAIN << >> = {} /\ 0..(0 - 1) = {}
  BY <1>1 DEF R!Fresh
<1>4. RTracks(resp, got)
  BY <1>1, <1>2, <1>3 DEF RTracks
<1> QED BY <1>1, <1>2, <1>4 DEF Responded

LEMMA RespondedStep ==
    ASSUME SessionInv, PlainFrames, Responded, [Next]_vars
    PROVE  Responded'
<1>1. CASE UNCHANGED vars \/ Closed
  BY <1>1 DEF vars, Closed, Responded, Running, pump
<1>2. CASE ReadChunk \/ ReadDone \/ PullNext \/ PullEnds \/ PullFails
  <2>1. UNCHANGED <<surface, resp, got>> /\ pc = "pull"
    BY <1>2 DEF ReadChunk, ReadDone, PullNext, PullEnds, PullFails, Awaiting
  <2> QED BY <2>1 DEF Responded, Running
<1>3. CASE PullNothing \/ PullCrashes \/ Leave \/ Finalize
  <2>1. UNCHANGED <<surface, resp, got>> /\ pc' \in {"closed", "abandoned"}
    BY <1>3 DEF PullNothing, PullCrashes, Leave, Finalize, Close
  <2> QED BY <2>1 DEF Responded, Running
<1>4. CASE Resume
  <2>1. UNCHANGED <<surface, resp, got>> /\ pc = "sent"
    BY <1>4 DEF Resume
  <2> QED BY <2>1 DEF Responded, Running
<1>5. CASE Deliver
  <2>1. surface # "responses" /\ surface' = surface
    BY <1>5 DEF Deliver
  <2> QED BY <2>1 DEF Responded
<1>6. CASE Translate
  <2> DEFINE h == Head(hand)
             s == R!Read(resp, h)
  <2>1. /\ surface = "responses" /\ surface' = surface /\ pc = "yield"
        /\ got' = got \o s.out /\ resp' = [s EXCEPT !.out = << >>]
    BY <1>6 DEF Translate
  <2>2. IsSeq(hand) /\ hand # << >> /\ PlainSeq(hand) /\ ResponsesState(resp) /\ resp.out = << >>
    BY <2>1 DEF SessionInv, Flows, PlainFrames
  <2>3. h.at \in Nat
    BY <2>2, PlainTail DEF PlainFrame
  <2>4. IsSeq(got) /\ RTracks(resp, got)
    BY <2>1 DEF Responded, Running
  <2>5. Made(got, resp) = got
    <3>1. got \in Seq(Parts(got))
      BY <2>4 DEF IsSeq
    <3> QED BY <2>2, <3>1, ConcatEmptySeq DEF Made
  <2> HIDE DEF h
  <2>6. RTracks(s, Made(got, s)) /\ ResponsesState(s)
    BY <2>2, <2>3, <2>4, <2>5, RReadTracks, RespondsRead DEF Responds
  <2> HIDE DEF s
  <2>7. IsSeq(got')
    BY <2>1, <2>4, <2>6, ConcatSeq DEF ResponsesState
  <2>8. /\ resp'.think = s.think /\ resp'.text = s.text /\ resp'.calls = s.calls /\ resp'.next = s.next
        /\ resp'.started = s.started /\ got' = Made(got, s)
    BY <2>1, <2>6 DEF ResponsesState, Made
  <2>9. RTracks(resp', got')
    BY <2>6, <2>8 DEF RTracks
  <2>10. Ordered(got')
    BY <2>9 DEF RTracks, Tally
  <2> QED BY <2>7, <2>9, <2>10 DEF Responded
<1>7. CASE TranslateDone
  <2>1. /\ surface = "responses" /\ surface' = surface /\ pc = "yield" /\ pc' = "abandoned"
        /\ got' = got \o R!Finish(resp).out
    BY <1>7 DEF TranslateDone
  <2>2. ResponsesState(resp) /\ resp.out = << >> /\ RTracks(resp, got)
    BY <2>1 DEF SessionInv, Flows, Responded, Running
  <2>3. Ordered(got') /\ IsSeq(got')
    BY <2>1, <2>2, RFinishOrdered
  <2> QED BY <2>1, <2>3 DEF Responded, Running
<1> QED BY <1>1, <1>2, <1>3, <1>4, <1>5, <1>6, <1>7 DEF Next, Step

---------------------------------------------------------------------------
(* On /v1/messages over an OpenAI row *)

\* What the translator made so far: the client has it, the pump yields it,
\* holds it back, or has yet to pull it.
Left == IF last THEN << >> ELSE Cat(<<pending>>, tr.out)
Log == Cat(Cat(got, Rest), Left)

Translated ==
    surface = "translated" =>
        /\ wire # "done"
        /\ ~Mixed =>
            /\ Ordered(got)
            /\ Running => Ordered(Log)
            /\ Running /\ ~last /\ wire = "open" => Tracks(tr, Log, kinds)

LEMMA CatEmpty ==
    ASSUME NEW q, IsSeq(q)
    PROVE  Cat(q, << >>) = q /\ Cat(<< >>, q) = q
<1>1. q \in Seq(Parts(q))
  BY DEF IsSeq
<1> QED BY <1>1, ConcatEmptySeq DEF Cat

LEMMA CatHead ==
    ASSUME NEW q, IsSeq(q), q # << >>
    PROVE  Cat(<<Head(q)>>, Tail(q)) = q
<1> DEFINE S == Parts(q)
           z == <<Head(q)>>
           t == Tail(q)
           r == z \o t
<1>1. q \in Seq(S)
  BY DEF IsSeq
<1> HIDE DEF S
<1>2. /\ Head(q) \in S /\ t \in Seq(S) /\ Len(t) = Len(q) - 1 /\ Len(q) \in Nat \ {0}
      /\ \A i \in 1..(Len(q) - 1) : t[i] = q[i + 1]
      /\ Head(q) = q[1]
  BY <1>1, HeadTailProperties, LenProperties, EmptySeq
<1>3. z \in Seq(S) /\ Len(z) = 1 /\ z[1] = Head(q)
  BY <1>2
<1> HIDE DEF z, t
<1>4. /\ r \in Seq(S) /\ Len(r) = Len(q)
      /\ \A i \in 1..Len(q) : r[i] = IF i <= 1 THEN z[i] ELSE t[i - 1]
  <2>1. /\ r \in Seq(S) /\ Len(r) = Len(z) + Len(t)
        /\ \A i \in 1..(Len(z) + Len(t)) : r[i] = IF i <= Len(z) THEN z[i] ELSE t[i - Len(z)]
    BY <1>2, <1>3, ConcatProperties
  <2>2. Len(z) + Len(t) = Len(q)
    BY <1>2, <1>3
  <2> QED BY <1>3, <2>1, <2>2
<1> HIDE DEF r
<1>5. \A i \in 1..Len(q) : r[i] = q[i]
  <2> TAKE i \in 1..Len(q)
  <2>1. CASE i = 1
    BY <1>2, <1>3, <1>4, <2>1
  <2>2. CASE i # 1
    <3>1. i - 1 \in 1..(Len(q) - 1) /\ ~(i <= 1)
      BY <1>2, <2>2
    <3>2. t[i - 1] = q[i]
      BY <1>2, <3>1
    <3> QED BY <1>4, <3>1, <3>2
  <2> QED BY <2>1, <2>2
<1>6. r = q
  BY <1>1, <1>4, <1>5, SeqEqual
<1> QED BY <1>6 DEF Cat, r, z, t

LEMMA CatAppend ==
    ASSUME NEW g, IsSeq(g), NEW h, IsSeq(h), h # << >>
    PROVE  Cat(Append(g, Head(h)), Tail(h)) = Cat(g, h) /\ IsSeq(Append(g, Head(h))) /\ IsSeq(Tail(h))
<1> DEFINE e == Head(h)
           z == <<e>>
           t == Tail(h)
<1>1. Append(g, e) = Cat(g, z)
  <2> DEFINE S == Parts(g) \cup {e}
  <2>1. g \in Seq(S) /\ e \in S
    BY SeqMonotonic DEF IsSeq
  <2> HIDE DEF S, e
  <2> QED BY <2>1, AppendIsConcat DEF Cat
<1>2. IsSeq(z) /\ IsSeq(t) /\ Cat(z, t) = h
  BY SingleSeq, TailSeq, CatHead
<1> HIDE DEF e, z, t
<1>3. Cat(Cat(g, z), t) = Cat(g, Cat(z, t)) /\ IsSeq(Cat(g, z))
  BY <1>2, CatRegroups
<1> QED BY <1>1, <1>2, <1>3 DEF e, t

\* With nothing in its hands the pump keeps one frame, ahead of the rest.
LEMMA LogPull ==
    ASSUME NEW g, IsSeq(g), NEW p, NEW o, IsSeq(o)
    PROVE  /\ Cat(Cat(g, << >>), Cat(<<p>>, o)) = Cat(Cat(g, <<p>>), o)
           /\ IsSeq(Cat(g, <<p>>)) /\ Cat(Cat(g, <<p>>), << >>) = Cat(g, <<p>>)
<1> DEFINE z == <<p>>
<1>1. IsSeq(z)
  BY SingleSeq
<1> HIDE DEF z
<1>2. Cat(g, << >>) = g
  BY CatEmpty
<1>3. Cat(g, Cat(z, o)) = Cat(Cat(g, z), o) /\ IsSeq(Cat(g, z))
  BY <1>1, CatRegroups
<1>4. Cat(Cat(g, z), << >>) = Cat(g, z)
  BY <1>3, CatEmpty
<1> QED BY <1>2, <1>3, <1>4 DEF z

LEMMA TracksOut ==
    ASSUME NEW s, NEW q, NEW K, Tracks(s, q, K), NEW t,
           t.started = s.started, t.text = s.text, t.blocks = s.blocks, t.open = s.open, t.next = s.next
    PROVE  Tracks(t, q, K)
BY DEF Tracks

LEMMA TranslatedInit == Init => Translated
<1> SUFFICES ASSUME Init, surface = "translated"
             PROVE  /\ wire # "done"
                    /\ ~Mixed => /\ Ordered(got) /\ Ordered(Log)
                                 /\ wire = "open" => Tracks(tr, Log, kinds)
  BY DEF Translated
<1> DEFINE f == A!Fresh
           q == << >>
<1>1. /\ AnthropicState(f) /\ f.next = 0 /\ DOMAIN f.blocks = {} /\ f.text = A!None /\ f.open = {}
      /\ ~f.started /\ ~f.crashed /\ f.out = q
  <2>1. DOMAIN << >> = {}
    OBVIOUS
  <2> QED BY <2>1, EmptyIsSeq, FS_EmptySet DEF A!Fresh, AnthropicState
<1>2. Tally(q, 0, {}) /\ IsSeq(q) /\ Ordered(q)
  BY TallyEmpty DEF Tally
<1>3. Cat(q, q) = q
  BY <1>2, CatEmpty
<1>4. got = q /\ Rest = q /\ ~last
  BY DEF Init, Rest
<1>5. \A r : IsSeq(r) => Cat(q, r) = r
  BY CatEmpty
<1> HIDE DEF f, q
<1>6. Tracks(f, Made(q, f), {}) /\ Clean(f, {})
  <2>1. Made(q, f) = q
    BY <1>1, <1>3 DEF Made, Cat
  <2>2. Tracks(f, q, {})
    BY <1>1, <1>2 DEF Tracks, q
  <2>3. Clean(f, {})
    BY <1>1 DEF Clean
  <2> QED BY <2>1, <2>2, <2>3
<1>7. ASSUME NEW t, AnthropicState(t), t.out # q, FirstOf(t)
      PROVE  /\ Log = Made(q, t)
             /\ tr.started = t.started /\ tr.text = t.text /\ tr.blocks = t.blocks
             /\ tr.open = t.open /\ tr.next = t.next
  <2>1. pending = Head(t.out) /\ tr = [t EXCEPT !.out = Tail(t.out)]
    BY <1>7 DEF FirstOf
  <2>2. IsSeq(t.out)
    BY <1>7 DEF AnthropicState
  <2>3. Cat(<<Head(t.out)>>, Tail(t.out)) = t.out
    BY <1>7, <2>2, CatHead DEF q
  <2>4. tr.out = Tail(t.out)
    BY <1>7, <2>1 DEF AnthropicState
  <2>5. Left = t.out
    BY <1>4, <2>1, <2>3, <2>4 DEF Left
  <2>6. Log = Cat(q, t.out)
    BY <1>3, <1>4, <2>5 DEF Log
  <2> QED BY <1>7, <2>1, <2>6 DEF Made, Cat, AnthropicState
<1>8. CASE \E c \in Chunks : FirstOf(AfterChunk(f, c)) /\ kinds = {c.kind} /\ n = 1 /\ wire = "open"
  <2>1. PICK c \in Chunks : FirstOf(AfterChunk(f, c)) /\ kinds = {c.kind} /\ wire = "open"
    BY <1>8
  <2> DEFINE t == A!Read(f, c)
  <2>2. AfterChunk(f, c) = t
    BY DEF AfterChunk
  <2>3. AnthropicState(t) /\ t.out # q
    BY <1>1, <2>2, AfterChunkKeeps DEF q
  <2>4. ~Mixed => Tracks(t, Made(q, t), kinds)
    <3> SUFFICES ASSUME ~Mixed PROVE Tracks(t, Made(q, t), kinds)
      OBVIOUS
    <3>1. ~({"text", "tool"} \subseteq {} \cup {c.kind})
      BY <2>1 DEF Mixed
    <3>2. Tracks(t, Made(q, t), {} \cup {c.kind})
      BY <1>1, <1>2, <1>6, <3>1, ReadTracks
    <3> QED BY <2>1, <3>2
  <2> HIDE DEF t
  <2>5. ~Mixed => Tracks(tr, Log, kinds)
    BY <1>7, <2>1, <2>2, <2>3, <2>4, TracksOut
  <2> QED BY <1>2, <1>4, <2>1, <2>5 DEF Tracks, Tally
<1>9. CASE FirstOf(AfterDone(f)) /\ kinds = {} /\ n = 0 /\ wire = WireAfterDone
  <2> DEFINE t == A!Finish(f)
  <2>1. AfterDone(f) = t /\ wire = "ended"
    BY <1>9 DEF AfterDone, WireAfterDone
  <2>2. AnthropicState(t) /\ t.out # q
    BY <1>1, <2>1, AfterDoneKeeps DEF q
  <2>3. Ordered(Made(q, t))
    BY <1>1, <1>2, <1>6, FinishOrdered
  <2> HIDE DEF t
  <2>4. Ordered(Log)
    BY <1>7, <1>9, <2>1, <2>2, <2>3
  <2> QED BY <1>2, <1>4, <2>1, <2>4
<1>10. CASE NoEvent
  BY <1>10 DEF NoEvent
<1> QED BY <1>8, <1>9, <1>10 DEF Init, f

\* Between pulls the log is what the client has, the frame held back and what
\* waits to be pulled.
LEMMA LogAtPull ==
    ASSUME SessionInv, surface = "translated", pc = "pull", ~last
    PROVE  /\ IsSeq(got) /\ IsSeq(Cat(got, <<pending>>)) /\ AnthropicState(tr) /\ IsSeq(tr.out)
           /\ Log = Cat(Cat(got, <<pending>>), tr.out)
<1>1. IsSeq(got) /\ AnthropicState(tr) /\ IsSeq(tr.out)
  BY DEF SessionInv, Flows, Waiting, AnthropicState
<1>2. Rest = << >> /\ Left = Cat(<<pending>>, tr.out)
  BY DEF Rest, Left
<1> QED BY <1>1, <1>2, LogPull DEF Log

LEMMA TranslatedReads ==
    ASSUME SessionInv, Tripping, Translated, ReadChunk \/ ReadDone
    PROVE  Translated'
<1>1. /\ UNCHANGED <<surface, pc, pending, hand, last, got>> /\ pc = "pull" /\ ~last /\ wire = "open"
      /\ tr.out = << >> /\ ~tr.crashed
  BY DEF ReadChunk, ReadDone, Awaiting, pump, SessionInv, Settled, TypeOK
<1> SUFFICES ASSUME surface = "translated", ~Mixed'
             PROVE  Ordered(Log') /\ (wire' = "open" => Tracks(tr', Log', kinds'))
  <2>1. surface = "translated" => wire' # "done"
    BY <1>1 DEF ReadChunk, ReadDone, WireAfterDone
  <2>2. Mixed => Mixed'
    BY <1>1 DEF Mixed, ReadChunk, ReadDone
  <2> QED BY <1>1, <2>1, <2>2 DEF Translated, Running
<1> DEFINE P == Cat(got, <<pending>>)
<1>2. /\ IsSeq(got) /\ IsSeq(P) /\ AnthropicState(tr)
      /\ Log = Cat(P, tr.out)
  BY <1>1, LogAtPull
<1>3. Made(P, tr) = Log /\ ~Mixed /\ Clean(tr, kinds) /\ Tracks(tr, Log, kinds)
  <2>1. ~Mixed
    BY <1>1 DEF Mixed, ReadChunk, ReadDone
  <2> QED BY <1>1, <1>2, <2>1 DEF Made, Cat, Tripping, Translated, Running
<1>4. IsSeq(tr'.out) => Log' = Made(P, tr')
  <2> SUFFICES ASSUME IsSeq(tr'.out) PROVE Log' = Made(P, tr')
    OBVIOUS
  <2>1. Rest' = << >> /\ Left' = Cat(<<pending>>, tr'.out)
    BY <1>1 DEF Rest, Left
  <2>2. Log' = Cat(Cat(got, << >>), Cat(<<pending>>, tr'.out))
    BY <1>1, <2>1 DEF Log
  <2>3. Cat(Cat(got, << >>), Cat(<<pending>>, tr'.out)) = Cat(P, tr'.out)
    BY <1>2, LogPull
  <2> QED BY <2>2, <2>3 DEF Made, Cat
<1> HIDE DEF P
<1>5. CASE ReadChunk
  <2>1. PICK c \in Chunks : kinds' = kinds \cup {c.kind} /\ tr' = A!Read(tr, c)
    BY <1>5 DEF ReadChunk, AfterChunk
  <2>2. ~({"text", "tool"} \subseteq kinds \cup {c.kind})
    BY <1>1, <2>1 DEF Mixed
  <2> DEFINE t == A!Read(tr, c)
  <2>3. Tracks(t, Made(P, t), kinds \cup {c.kind})
    BY <1>2, <1>3, <2>2, ReadTracks
  <2>4. IsSeq(t.out)
    BY <1>2, ReadEmits DEF Emits, AnthropicState
  <2> HIDE DEF t
  <2>5. Log' = Made(P, t) /\ tr' = t
    BY <1>4, <2>1, <2>4 DEF t
  <2>6. Tracks(tr', Log', kinds')
    BY <2>1, <2>3, <2>5
  <2> QED BY <2>6 DEF Tracks, Tally
<1>6. CASE ReadDone
  <2>1. tr' = A!Finish(tr) /\ wire' = "ended"
    BY <1>6 DEF ReadDone, AfterDone, WireAfterDone
  <2>2. Ordered(Made(P, A!Finish(tr)))
    BY <1>2, <1>3, FinishOrdered
  <2>3. IsSeq(tr'.out)
    BY <1>1, <1>2, <2>1, FinishEnds DEF AnthropicState
  <2> QED BY <1>4, <2>1, <2>2, <2>3
<1> QED BY <1>5, <1>6

LEMMA TranslatedPullNext ==
    ASSUME SessionInv, Translated, PullNext
    PROVE  Translated'
<1>1. /\ UNCHANGED <<surface, wire, kinds, last, got>> /\ pc = "pull" /\ pc' = "yield" /\ ~last
      /\ pending' = Head(tr.out) /\ tr' = [tr EXCEPT !.out = Tail(tr.out)] /\ hand' = <<pending>>
      /\ tr.out # << >>
  BY DEF PullNext, SessionInv, Settled, TypeOK
<1>2. CASE surface = "translated"
  <2>1. /\ IsSeq(tr.out) /\ AnthropicState(tr)
        /\ Log = Cat(Cat(got, <<pending>>), tr.out)
    BY <1>1, <1>2, LogAtPull
  <2>2. Cat(<<Head(tr.out)>>, Tail(tr.out)) = tr.out
    BY <1>1, <2>1, CatHead
  <2>3. /\ tr'.out = Tail(tr.out) /\ tr'.started = tr.started /\ tr'.text = tr.text
        /\ tr'.blocks = tr.blocks /\ tr'.open = tr.open /\ tr'.next = tr.next
    BY <1>1, <2>1 DEF AnthropicState
  <2>4. Rest' = <<pending>> /\ Left' = tr.out
    <3>1. Rest' = hand'
      BY <1>1 DEF Rest
    <3>2. Left' = Cat(<<pending'>>, tr'.out)
      BY <1>1 DEF Left
    <3> QED BY <1>1, <2>2, <2>3, <3>1, <3>2
  <2>5. Log' = Log
    BY <1>1, <2>1, <2>4 DEF Log
  <2>6. Tracks(tr, Log, kinds) => Tracks(tr', Log, kinds)
    BY <2>3, TracksOut
  <2> QED BY <1>1, <2>5, <2>6 DEF Translated, Mixed, Running
<1> QED BY <1>1, <1>2 DEF Translated

LEMMA TranslatedPullEnds ==
    ASSUME SessionInv, Translated, PullEnds
    PROVE  Translated'
<1>1. /\ UNCHANGED <<surface, kinds, tr, got>> /\ pc = "pull" /\ pc' = "yield" /\ ~last /\ last'
      /\ (surface = "translated" => wire' = "ended") /\ hand' = <<pending>> /\ tr.out = << >>
  BY DEF PullEnds, Stops, Awaiting, SessionInv, Settled, TypeOK
<1>2. CASE surface = "translated"
  <2>1. Log = Cat(Cat(got, <<pending>>), << >>)
    BY <1>1, <1>2, LogAtPull
  <2>2. Rest' = <<pending>> /\ Left' = << >>
    BY <1>1 DEF Rest, Left
  <2>3. Log' = Log
    BY <1>1, <2>1, <2>2 DEF Log
  <2> QED BY <1>1, <2>3 DEF Translated, Mixed, Running
<1> QED BY <1>1, <1>2 DEF Translated

LEMMA TranslatedPullFails ==
    ASSUME SessionInv, Translated, PullFails
    PROVE  Translated'
<1>1. /\ UNCHANGED <<surface, kinds, tr, got>> /\ pc = "pull" /\ pc' = "yield" /\ ~last /\ last'
      /\ wire \in {"open", "done"} /\ wire' = "ended" /\ hand' = <<pending>> \o ErrorFrames /\ tr.out = << >>
  BY DEF PullFails, Awaiting, SessionInv, Settled, TypeOK
<1>2. CASE surface = "translated"
  <2> DEFINE a == Frame("error")
             b == EndFrame
             p == <<pending>>
             P == Cat(got, p)
  <2>0. wire = "open"
    BY <1>1, <1>2 DEF Translated, SessionInv, TypeOK
  <2>1. a.type = "error" /\ b.type = "message_stop"
    BY <1>2 DEF Frame, EndFrame
  <2>2. IsSeq(got) /\ IsSeq(P) /\ Log = P
    <3>1. Log = Cat(P, << >>) /\ IsSeq(P) /\ IsSeq(got)
      BY <1>1, <1>2, LogAtPull
    <3> QED BY <3>1, CatEmpty
  <2>3. IsSeq(p) /\ IsSeq(<<a>>) /\ IsSeq(<<b>>)
    BY SingleSeq
  <2>4. ErrorFrames = Cat(<<a>>, <<b>>)
    BY DEF ErrorFrames, Cat
  <2>5. hand' = Cat(p, Cat(<<a>>, <<b>>))
    BY <1>1, <2>4 DEF Cat
  <2>6. Rest' = hand' /\ Left' = << >>
    BY <1>1 DEF Rest, Left
  <2>7. Log' = Cat(Cat(got, hand'), << >>)
    BY <1>1, <2>6 DEF Log
  <2> HIDE DEF a, b, p
  <2>8. Cat(got, Cat(p, Cat(<<a>>, <<b>>))) = Cat(Cat(P, <<a>>), <<b>>)
        /\ IsSeq(Cat(Cat(P, <<a>>), <<b>>))
    <3>1. Cat(Cat(got, p), Cat(<<a>>, <<b>>)) = Cat(got, Cat(p, Cat(<<a>>, <<b>>)))
      BY <2>2, <2>3, CatRegroups
    <3>2. Cat(Cat(P, <<a>>), <<b>>) = Cat(P, Cat(<<a>>, <<b>>)) /\ IsSeq(Cat(P, <<a>>))
      BY <2>2, <2>3, CatRegroups
    <3>3. IsSeq(Cat(Cat(P, <<a>>), <<b>>))
      BY <2>3, <3>2, CatRegroups
    <3> QED BY <3>1, <3>2, <3>3
  <2>9. Log' = Cat(Cat(P, <<a>>), <<b>>)
    BY <2>5, <2>7, <2>8, CatEmpty
  <2>10. ~Mixed => Ordered(Log')
    <3> SUFFICES ASSUME ~Mixed PROVE Ordered(Log')
      OBVIOUS
    <3> HIDE DEF P
    <3>1. Tally(P, tr.next, tr.open)
      BY <1>1, <1>2, <2>0, <2>2 DEF Translated, Running, Tracks
    <3>2. Admits(P, Len(P), a)
      BY <2>1 DEF Admits, MessageEnds
    <3>3. Tally(P \o <<a>>, tr.next, tr.open)
      BY <2>1, <3>1, <3>2, TallyQuiet DEF MessageEnds
    <3>4. "error" \in Types(P \o <<a>>)
      BY <2>1, <2>2, AppendIs
    <3>5. Ordered((P \o <<a>>) \o <<b>>)
      BY <2>1, <3>3, <3>4, TallyEnd DEF MessageEnds
    <3> QED BY <2>9, <3>5 DEF Cat
  <2> QED BY <1>1, <2>10 DEF Translated, Mixed, Running
<1> QED BY <1>1, <1>2 DEF Translated

LEMMA TranslatedDeliver ==
    ASSUME SessionInv, Translated, Deliver
    PROVE  Translated'
<1>1. /\ UNCHANGED <<surface, wire, kinds, tr, pending, hand, last>> /\ pc = "yield" /\ pc' = "sent"
      /\ got' = Append(got, Head(hand)) /\ surface # "responses"
  BY DEF Deliver, reading
<1>2. IsSeq(got) /\ IsSeq(hand) /\ hand # << >> /\ IsSeq(tr.out)
  BY <1>1 DEF SessionInv, Flows, Waiting, AnthropicState
<1>3. Cat(got', Tail(hand)) = Cat(got, hand) /\ IsSeq(got') /\ IsSeq(Tail(hand))
  BY <1>1, <1>2, CatAppend
<1>4. Rest = hand /\ Rest' = Tail(hand) /\ Left' = Left
  BY <1>1 DEF Rest, Left
<1>5. Log' = Log
  BY <1>1, <1>3, <1>4 DEF Log
<1>6. Ordered(Log) => Ordered(got')
  <2> DEFINE t == Tail(hand)
  <2>1. IsSeq(Left)
    <3>1. IsSeq(<<pending>>) /\ IsSeq(<< >>)
      BY SingleSeq, EmptyIsSeq
    <3>2. IsSeq(Cat(<<pending>>, tr.out))
      BY <1>2, <3>1, CatRegroups
    <3> QED BY <3>1, <3>2 DEF Left
  <2>2. IsSeq(t) /\ Log = Cat(Cat(got', t), Left)
    BY <1>3, <1>4, <1>5 DEF Log
  <2> HIDE DEF t
  <2>3. Log = Cat(got', Cat(t, Left)) /\ IsSeq(Cat(t, Left))
    <3> DEFINE g == got'
               l == Left
    <3>1. IsSeq(g) /\ IsSeq(t) /\ IsSeq(l) /\ Log = Cat(Cat(g, t), l)
      BY <1>3, <2>1, <2>2
    <3> HIDE DEF g, l
    <3>2. Cat(Cat(g, t), l) = Cat(g, Cat(t, l)) /\ IsSeq(Cat(t, l))
      BY <3>1, CatRegroups
    <3>3. Log = Cat(g, Cat(t, l)) /\ IsSeq(Cat(t, l))
      BY <3>1, <3>2
    <3> QED BY <3>3 DEF g, l
  <2> DEFINE u == Cat(t, Left)
  <2>4. Log = got' \o u /\ IsSeq(u)
    BY <2>3 DEF Cat
  <2> HIDE DEF u
  <2> QED BY <1>3, <2>4, PrefixOrdered
<1> QED BY <1>1, <1>5, <1>6 DEF Translated, Mixed, Running

LEMMA TranslatedResume ==
    ASSUME SessionInv, Translated, Resume
    PROVE  Translated'
<1>1. /\ UNCHANGED <<surface, wire, kinds, tr, pending, last, got>> /\ pc = "sent" /\ hand' = Tail(hand)
      /\ \/ pc' = "closed"
         \/ pc' = "yield"
         \/ pc' = "pull" /\ ~(Len(hand) > 1)
  BY DEF Resume, reading, Close
<1>2. CASE pc' = "closed"
  BY <1>1, <1>2 DEF Translated, Mixed, Running
<1>3. CASE pc' # "closed"
  <2>1. IsSeq(hand) /\ hand # << >>
    BY <1>1 DEF SessionInv, Flows
  <2>2. Len(hand) \in Nat /\ (Len(hand) <= 1 => Tail(hand) = << >>)
    BY <2>1, TailSeq
  <2>3. Rest = Tail(hand) /\ Left' = Left
    BY <1>1 DEF Rest, Left
  <2>4. Rest' = Rest
    <3>1. CASE pc' = "yield"
      BY <1>1, <2>3, <3>1 DEF Rest
    <3>2. CASE pc' = "pull" /\ ~(Len(hand) > 1)
      <4>1. Tail(hand) = << >>
        BY <2>2, <3>2
      <4>2. Rest' = << >>
        BY <3>2 DEF Rest
      <4> QED BY <2>3, <4>1, <4>2
    <3> QED BY <1>1, <1>3, <3>1, <3>2
  <2>5. Log' = Log
    BY <1>1, <2>3, <2>4 DEF Log
  <2> QED BY <1>1, <2>5 DEF Translated, Mixed, Running
<1> QED BY <1>2, <1>3

LEMMA TranslatedStep ==
    ASSUME SessionInv, Tripping, Translated, [Next]_vars
    PROVE  Translated'
<1>1. CASE UNCHANGED vars \/ Closed
  BY <1>1 DEF vars, reading, pump, Closed, Translated, Mixed, Running, Log, Left, Rest
<1>2. CASE PullNothing \/ PullCrashes \/ Leave \/ Finalize
  <2>1. UNCHANGED <<surface, wire, kinds, got>> /\ pc' \in {"closed", "abandoned"}
    BY <1>2 DEF PullNothing, PullCrashes, Leave, Finalize, Close, reading
  <2> QED BY <2>1 DEF Translated, Mixed, Running
<1>3. CASE Translate \/ TranslateDone
  <2>1. surface # "translated" /\ surface' = surface
    BY <1>3 DEF Translate, TranslateDone
  <2> QED BY <2>1 DEF Translated
<1> QED BY <1>1, <1>2, <1>3, TranslatedReads, TranslatedPullNext, TranslatedPullEnds, TranslatedPullFails,
           TranslatedDeliver, TranslatedResume DEF Next, Step

---------------------------------------------------------------------------

OrderInv == EndInv /\ PlainFrames /\ Responded /\ Translated

LEMMA OrderAlways == Spec => []OrderInv
<1>1. Init => OrderInv
  BY SessionInit, TrippingInit, EndingInit, PlainInit, RespondedInit, TranslatedInit DEF OrderInv, EndInv
<1>2. OrderInv /\ [Next]_vars => OrderInv'
  BY SessionStep, TrippingStep, EndingStep, PlainStep, RespondedStep, TranslatedStep DEF OrderInv, EndInv
<1> QED BY <1>1, <1>2, PTL DEF Spec

\* On every surface the client sees the blocks of a message as the dialect
\* says: each starts once, in index order, takes deltas of its own kind only
\* while it is open, and stops once, before a message that was not cut short
\* by an error stops; whatever the upstream sends, save text and tool calls
\* in one message over the Anthropic translator.
THEOREM BlocksKept == Spec => []BlocksWellFormed
<1>1. OrderInv => BlocksWellFormed
  <2> SUFFICES ASSUME OrderInv, ~Mixed PROVE Ordered(got) /\ IsSeq(got)
    BY OrderedBlocks DEF BlocksWellFormed
  <2>1. surface \in {"direct", "native", "translated", "responses"}
    BY SessionAssumption DEF OrderInv, EndInv, SessionInv, TypeOK
  <2>2. CASE surface \in {"direct", "native"}
    <3>1. IsSeq(got) /\ PlainSeq(got)
      BY <2>2 DEF OrderInv, EndInv, SessionInv, Flows, PlainFrames
    <3> QED BY <3>1, PlainOrdered
  <2>3. CASE surface = "translated"
    BY <2>3 DEF OrderInv, EndInv, SessionInv, Flows, Translated
  <2>4. CASE surface = "responses"
    BY <2>4 DEF OrderInv, Responded
  <2> QED BY <2>1, <2>2, <2>3, <2>4
<1> QED BY <1>1, OrderAlways, PTL
=============================================================================
