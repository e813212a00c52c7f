--------------------------- MODULE AnthropicBridge ---------------------------
(***************************************************************************)
(* translate_openai_stream_to_anthropic: the chunks of an OpenAI stream    *)
(* folded into the events of an Anthropic message.  A state is what the    *)
(* translator remembers between chunks, with the events it has yet to      *)
(* yield in `out`; `crashed` is the KeyError it raises when a tool call    *)
(* finds a text block under its own index.                                 *)
(***************************************************************************)
EXTENDS Integers, Sequences, FiniteSets

None == -1
TextEntry == -2     \* the entry {"type": "text"}, which has no block_index

Event(type, at, kind) == [type |-> type, at |-> at, kind |-> kind]
Plain(type) == Event(type, None, "")
Emit(s, events) == [s EXCEPT !.out = @ \o events]
Put(f, i, v) == [x \in DOMAIN f \cup {i} |-> IF x = i THEN v ELSE f[x]]

\* `blocks` maps upstream tool indices, and the index of the text block, to
\* what the translator keeps under them.
Fresh == [started |-> FALSE, text |-> None, blocks |-> << >>, open |-> {},
          next |-> 0, out |-> << >>, crashed |-> FALSE]

Opened(s) ==
    IF s.started THEN s
    ELSE Emit([s EXCEPT !.started = TRUE], <<Plain("message_start")>>)

TextStarted(s) ==
    IF s.text # None THEN s
    ELSE Emit([s EXCEPT !.text = s.next, !.next = @ + 1, !.open = @ \cup {s.next},
                        !.blocks = Put(@, s.next, TextEntry)],
              <<Event("start", s.next, "text")>>)

TextClosed(s) ==
    IF s.text \notin s.open THEN s
    ELSE Emit([s EXCEPT !.open = @ \ {s.text}], <<Event("stop", s.text, "")>>)

ToolStarted(s, i) ==
    IF i \in DOMAIN s.blocks THEN s
    ELSE LET t == TextClosed(s)
         IN Emit([t EXCEPT !.blocks = Put(@, i, t.next), !.next = @ + 1,
                           !.open = @ \cup {t.next}],
                 <<Event("start", t.next, "tool")>>)

Text(s) == LET t == TextStarted(s) IN Emit(t, <<Event("delta", t.text, "text")>>)

\* Arguments go to state["block_index"], which the text entry does not have.
Tool(s, i, args) ==
    LET t == ToolStarted(s, i) IN
    IF ~args THEN t
    ELSE IF t.blocks[i] = TextEntry THEN [t EXCEPT !.crashed = TRUE]
    ELSE Emit(t, <<Event("delta", t.blocks[i], "tool")>>)

\* One chunk; a chunk with neither content nor tool calls (the role opener,
\* reasoning, usage, an error a peer sent in band) only opens the message.
Read(s, c) ==
    LET t == Opened(s) IN
    CASE c.kind = "text" -> Text(t)
      [] c.kind = "tool" -> Tool(t, c.at, c.args)
      [] OTHER -> t

\* Mutant of Finish: the blocks still open are not closed.
FinishOpen(s) == Emit(Opened(s), <<Plain("message_stop")>>)

\* The block of S that n others come before.
Nth(S, n) == CHOOSE b \in S : Cardinality({c \in S : c < b}) = n

\* [DONE]: an empty message gets a text block, open blocks close in order.
Finish(s) ==
    LET t == Opened(s)
        u == IF t.blocks = << >> THEN TextStarted(t) ELSE t
        closing == [i \in 1..Cardinality(u.open) |-> Nth(u.open, i - 1)]
    IN Emit([u EXCEPT !.open = {}],
            [i \in 1..Len(closing) |-> Event("stop", closing[i], "")]
                \o <<Plain("message_stop")>>)
=============================================================================
