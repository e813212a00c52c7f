--------------------------- MODULE ResponsesBridge ---------------------------
(***************************************************************************)
(* translate_chat_stream_to_responses: chat frames folded into the events  *)
(* of a Responses answer.  Every output item (reasoning, message, one per  *)
(* function call) takes the next output index when it first appears.       *)
(***************************************************************************)
EXTENDS Integers, Sequences, FiniteSets

None == -1

Event(type, at, kind) == [type |-> type, at |-> at, kind |-> kind]
Plain(type) == Event(type, None, "")
Emit(s, events) == [s EXCEPT !.out = @ \o events]
Put(f, i, v) == [x \in DOMAIN f \cup {i} |-> IF x = i THEN v ELSE f[x]]

\* `think` and `text` are the output indices of those items, `calls` maps the
\* upstream index of a tool call to its output index.
Fresh == [started |-> FALSE, think |-> None, text |-> None, calls |-> << >>,
          next |-> 0, out |-> << >>]

Opened(s) ==
    IF s.started THEN s
    ELSE Emit([s EXCEPT !.started = TRUE], <<Plain("created")>>)

Think(s) ==
    LET t == IF s.think # None THEN s
             ELSE Emit([s EXCEPT !.think = s.next, !.next = @ + 1],
                       <<Event("start", s.next, "think")>>)
    IN Emit(t, <<Event("delta", t.think, "think")>>)

Text(s) ==
    LET t == IF s.text # None THEN s
             ELSE Emit([s EXCEPT !.text = s.next, !.next = @ + 1],
                       <<Event("start", s.next, "text")>>)
    IN Emit(t, <<Event("delta", t.text, "text")>>)

Tool(s, i, args) ==
    LET t == IF i \in DOMAIN s.calls THEN s
             ELSE Emit([s EXCEPT !.calls = Put(@, i, s.next), !.next = @ + 1],
                       <<Event("start", s.next, "tool")>>)
    IN IF args THEN Emit(t, <<Event("delta", t.calls[i], "tool")>>) ELSE t

\* One chat frame that is not the terminator; an error frame has no choices.
Read(s, c) ==
    LET t == Opened(s) IN
    CASE c.kind = "think" -> Think(t)
      [] c.kind = "text" -> Text(t)
      [] c.kind = "tool" -> Tool(t, c.at, c.args)
      [] OTHER -> t

\* The index of S that n others come before.
Nth(S, n) == CHOOSE i \in S : Cardinality({j \in S : j < i}) = n

\* After [DONE]: the items are done in this order, whatever order they came in.
Finish(s) ==
    LET item(at, kind) == IF at = None THEN << >> ELSE <<Event("stop", at, kind)>>
        calls == [i \in 1..Cardinality(DOMAIN s.calls) |->
                     Event("stop", s.calls[Nth(DOMAIN s.calls, i - 1)], "tool")]
    IN Emit(s, item(s.think, "think") \o item(s.text, "text") \o calls
                 \o <<Plain("completed")>>)
=============================================================================
