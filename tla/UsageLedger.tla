---------------------------- MODULE UsageLedger ----------------------------
(* What the agent counts of the requests it completed: the windowed ledger,  *)
(* whose buckets are reused round a ring and never swept, the capped entries *)
(* of a dimension, and the all-time counters with their file, which is       *)
(* written at most once per interval and may be cut short by a crash.        *)
(*                                                                           *)
(* One dimension (by_model) and one source stand for the others.  A request  *)
(* that streams has one token, and one second of measured prefill.  The wall *)
(* clock and the monotonic clock are one, which does not step back.          *)
EXTENDS Naturals, Sequences, FiniteSets, Functions

CONSTANTS
    Spans,        \* sequence of [buckets, width]
    Ladder,       \* number of buckets of the latency ladder
    KeyCap,       \* LEDGER_MAX_KEYS
    TallyCap,     \* _SOURCE_MODEL_CAP
    SaveInterval, \* _ALLTIME_SAVE_INTERVAL_S
    Tags,         \* models that requests name
    NoTag,        \* a request without the dimension
    Overflow,     \* LEDGER_OVERFLOW_KEY, no request's tag
    Since,        \* the clock when the agent first starts
    Until,        \* bound on the clock
    Diaries       \* sets of [calls, file, full, unread]: the requests to come,
                  \* as [tag, ttft] with ttft 0 or a step of the ladder, the
                  \* file of an earlier agent, whether the disk may fill up,
                  \* and whether a start may be unable to read the file

NoFile == [torn |-> FALSE]
Torn == [torn |-> TRUE]

ASSUME LedgerAssumption ==
    /\ \A i \in DOMAIN Spans : Spans[i].buckets \in Nat \ {0} /\ Spans[i].width \in Nat \ {0}
    /\ 1 \in DOMAIN Spans
    /\ KeyCap \in Nat /\ TallyCap \in Nat /\ SaveInterval \in Nat /\ Ladder \in Nat
    /\ {NoTag, Overflow} \cap Tags = {} /\ NoTag # Overflow
    \* No slot's initial tick, 0, is within a window.
    /\ Since \in Nat /\ \A i \in DOMAIN Spans : Since >= Spans[i].buckets * Spans[i].width
    /\ \A d \in Diaries : d.calls \in Seq([tag : Tags \cup {NoTag}, ttft : 0..Ladder])
    \* A file whose durations were measured has one of every timed request.
    /\ \A d \in Diaries :
           \/ d.file = NoFile
           \/ /\ d.file \in [requests : Nat, timed : Nat, seconds : Nat, genuine : BOOLEAN]
              /\ d.file.genuine => d.file.timed = d.file.seconds

VARIABLES
    diary,     \* the story
    clock,
    entries,   \* by_model: tag -> measure -> span -> slot -> [tick, n]
    histogram, \* _ttft: slot of the first span -> [tick, n: step -> count]
    tally,     \* the source's models: tag -> count
    truncated, \* requests folded into the overflow row
    alltime,   \* _RouterCounters: [requests, timed, seconds]
    stats,     \* stats.json: counters and `genuine`, or Torn
    scratch,   \* stats.json.tmp
    savedAt, dirty,
    saving,    \* "no", or the next step of a save
    phase,     \* of the process: serve, close, down
    full,      \* the disk refuses writes
    history,   \* requests completed since the start: [at, tag, ttft]
    refused,   \* a save failed since the last one that did not
    blind      \* the counters began without the file, which is not replaced yet

ledgerVars == <<diary, clock, entries, histogram, tally, truncated, alltime, stats, scratch,
                savedAt, dirty, saving, phase, full, history, refused, blind>>
memoryVars == <<entries, histogram, tally, truncated, alltime, history>>

Measures == {"requests", "tokens", "seconds"}
Zero == [requests |-> 0, timed |-> 0, seconds |-> 0]

---------------------------------------------------------------------------
(* _SpanRing, _LatencyHistogram *)

Tick(span, now) == now \div span.width
Slot(span, now) == Tick(span, now) % span.buckets
SpanRing == [i \in DOMAIN Spans |-> [s \in 0..(Spans[i].buckets - 1) |-> [tick |-> 0, n |-> 0]]]

\* A slot with the tick of an earlier round is reset before it counts again.
AddUncleared(ring, now, amount) ==
    [i \in DOMAIN ring |->
        [ring[i] EXCEPT ![Slot(Spans[i], now)] =
            [tick |-> Tick(Spans[i], now), n |-> @.n + amount]]]
Add(ring, now, amount) ==
    [i \in DOMAIN ring |->
        [ring[i] EXCEPT ![Slot(Spans[i], now)] =
            [tick |-> Tick(Spans[i], now),
             n |-> amount + (IF @.tick = Tick(Spans[i], now) THEN @.n ELSE 0)]]]

InWindow(cells, i, now) == {s \in DOMAIN cells : cells[s].tick + Spans[i].buckets > Tick(Spans[i], now)}
Window(ring, now, i) ==
    SumFunctionOnSet([s \in DOMAIN ring[i] |-> ring[i][s].n], InWindow(ring[i], i, now))
\* What series shows `age` buckets ago.
Series(ring, now, i, age) ==
    LET wanted == Tick(Spans[i], now) - age
        slot == ring[i][wanted % Spans[i].buckets]
    IN IF slot.tick = wanted THEN slot.n ELSE 0

Observe(h, now, step) ==
    LET slot == Slot(Spans[1], now)
        old == IF h[slot].tick = Tick(Spans[1], now) THEN h[slot].n ELSE [k \in 1..Ladder |-> 0]
    IN [h EXCEPT ![slot] = [tick |-> Tick(Spans[1], now), n |-> [old EXCEPT ![step] = @ + 1]]]
Snapshot(h, now, step) ==
    SumFunctionOnSet([s \in DOMAIN h |-> h[s].n[step]], InWindow(h, 1, now))

---------------------------------------------------------------------------
(* TelemetryService.record_usage, RequestLedger.record *)

\* The row a request is counted in: its own, or the overflow row once the
\* dimension is full.
EntryFor(tag) == IF tag \in DOMAIN entries \/ Cardinality(DOMAIN entries) < KeyCap THEN tag ELSE Overflow

Fresh == [q \in Measures |-> SpanRing]
Counted(entry, now, ttft) ==
    [q \in Measures |-> IF q = "requests" \/ ttft > 0 THEN Add(entry[q], now, 1) ELSE entry[q]]

CountRow(tag, ttft) ==
    IF tag = NoTag THEN UNCHANGED <<entries, truncated>>
    ELSE LET key == EntryFor(tag)
             entry == IF key \in DOMAIN entries THEN entries[key] ELSE Fresh
         IN /\ entries' = [k \in DOMAIN entries \cup {key} |->
                           IF k = key THEN Counted(entry, clock, ttft) ELSE entries[k]]
            /\ truncated' = truncated + (IF key # tag THEN 1 ELSE 0)

\* _record_source: a model the full tally does not know is not counted.
CountSource(tag) ==
    tally' = IF tag \in DOMAIN tally THEN [tally EXCEPT ![tag] = @ + 1]
             ELSE IF tag # NoTag /\ Cardinality(DOMAIN tally) < TallyCap
             THEN [k \in DOMAIN tally \cup {tag} |-> IF k = tag THEN 1 ELSE tally[k]]
             ELSE tally

\* Debounced: a save is due an interval after the last one that succeeded.
Due == clock - savedAt >= SaveInterval

RecordUsage ==
    /\ phase = "serve" /\ saving = "no" /\ diary.calls # <<>>
    /\ LET call == Head(diary.calls)
       IN /\ alltime' = [requests |-> alltime.requests + 1,
                         timed |-> alltime.timed + (IF call.ttft > 0 THEN 1 ELSE 0),
                         seconds |-> alltime.seconds + (IF call.ttft > 0 THEN 1 ELSE 0)]
          /\ CountRow(call.tag, call.ttft) /\ CountSource(call.tag)
          /\ histogram' = IF call.ttft > 0 THEN Observe(histogram, clock, call.ttft) ELSE histogram
          /\ history' = Append(history, [at |-> clock, tag |-> call.tag, ttft |-> call.ttft])
    /\ diary' = [diary EXCEPT !.calls = Tail(@)]
    /\ dirty' = TRUE /\ saving' = IF Due THEN "open" ELSE "no"
    /\ UNCHANGED <<clock, stats, scratch, savedAt, phase, full, refused, blind>>

---------------------------------------------------------------------------
(* _save_alltime, _load_alltime, close *)

\* The file to come is opened, written and renamed; the loop does nothing else
\* meanwhile.
SaveInPlace ==
    /\ phase # "down" /\ saving = "open" /\ ~full
    /\ stats' = Torn /\ saving' = "write"
    /\ UNCHANGED <<diary, clock, memoryVars, scratch, savedAt, dirty, phase, full, refused, blind>>
OpenScratch ==
    /\ phase # "down" /\ saving = "open" /\ ~full
    /\ scratch' = Torn /\ saving' = "write"
    /\ UNCHANGED <<diary, clock, memoryVars, stats, savedAt, dirty, phase, full, refused, blind>>
WriteScratch ==
    /\ phase # "down" /\ saving = "write" /\ ~full
    /\ scratch' = [requests |-> alltime.requests, timed |-> alltime.timed,
                   seconds |-> alltime.seconds, genuine |-> TRUE]
    /\ saving' = "rename"
    /\ UNCHANGED <<diary, clock, memoryVars, stats, savedAt, dirty, phase, full, refused, blind>>
Replace ==
    /\ phase # "down" /\ saving = "rename"
    /\ stats' = scratch /\ scratch' = NoFile
    /\ savedAt' = clock /\ dirty' = FALSE /\ saving' = "no" /\ refused' = FALSE
    /\ blind' = FALSE
    /\ UNCHANGED <<diary, clock, memoryVars, phase, full>>
\* OSError: the next request tries again.
SaveRefused ==
    /\ phase # "down" /\ saving \in {"open", "write"} /\ full
    /\ saving' = "no" /\ refused' = TRUE
    /\ UNCHANGED <<diary, clock, memoryVars, stats, scratch, savedAt, dirty, phase, full, blind>>

\* The end of lifespan flushes what the debounce holds back.
Close ==
    /\ phase = "serve" /\ saving = "no"
    /\ phase' = "close" /\ saving' = IF dirty THEN "open" ELSE "no"
    /\ UNCHANGED <<diary, clock, memoryVars, stats, scratch, savedAt, dirty, full, refused, blind>>
Leave ==
    /\ phase = "close" /\ saving = "no"
    /\ phase' = "down"
    /\ UNCHANGED <<diary, clock, memoryVars, stats, scratch, savedAt, dirty, saving, full, refused, blind>>
Kill ==
    /\ phase # "down"
    /\ phase' = "down" /\ saving' = "no"
    /\ UNCHANGED <<diary, clock, memoryVars, stats, scratch, savedAt, dirty, full, refused, blind>>

\* from_dict: the durations of a file of an older build were not measured.
Counters(file) ==
    IF file \in {NoFile, Torn} THEN Zero
    ELSE [requests |-> file.requests,
          timed |-> IF file.genuine THEN file.timed ELSE 0,
          seconds |-> IF file.genuine THEN file.seconds ELSE 0]

NoHistogram == [s \in 0..(Spans[1].buckets - 1) |-> [tick |-> 0, n |-> [k \in 1..Ladder |-> 0]]]

\* _load_alltime: a file that is there and cannot be read counts as none.
Unreadable == IF diary.unread /\ stats # NoFile THEN {FALSE, TRUE} ELSE {FALSE}
Loaded(fails) == IF fails THEN Zero ELSE Counters(stats)

\* Only the all-time counters outlive the process.
Boot ==
    /\ phase = "down" /\ phase' = "serve"
    /\ \E fails \in Unreadable : blind' = fails /\ alltime' = Loaded(fails)
    /\ entries' = << >> /\ histogram' = NoHistogram /\ tally' = << >>
    /\ truncated' = 0 /\ history' = <<>>
    /\ savedAt' = 0 /\ dirty' = FALSE /\ refused' = FALSE
    /\ UNCHANGED <<diary, clock, stats, scratch, saving, full>>

---------------------------------------------------------------------------
(* Specification *)

Pass ==
    /\ clock < Until /\ saving = "no" /\ clock' = clock + 1
    /\ UNCHANGED <<diary, memoryVars, stats, scratch, savedAt, dirty, saving, phase, full, refused, blind>>
DiskChanges ==
    /\ diary.full /\ full' = ~full /\ diary' = [diary EXCEPT !.full = ~full]
    /\ UNCHANGED <<clock, memoryVars, stats, scratch, savedAt, dirty, saving, phase, refused, blind>>

UsageInit ==
    /\ diary \in Diaries
    /\ clock = Since /\ stats = diary.file /\ scratch = NoFile /\ full = FALSE
    /\ phase = "serve"
    /\ \E fails \in Unreadable : blind = fails /\ alltime = Loaded(fails)
    /\ entries = << >> /\ histogram = NoHistogram /\ tally = << >>
    /\ truncated = 0 /\ history = <<>>
    /\ savedAt = 0 /\ dirty = FALSE /\ saving = "no" /\ refused = FALSE
UsageNext ==
    \/ RecordUsage \/ OpenScratch \/ WriteScratch \/ Replace \/ SaveRefused
    \/ Close \/ Leave \/ Kill \/ Boot \/ Pass \/ DiskChanges
UsageSpec == UsageInit /\ [][UsageNext]_ledgerVars

---------------------------------------------------------------------------
(* Properties *)

RowFor(tag) == IF tag \in DOMAIN entries THEN tag ELSE Overflow
\* The completed requests of a row, or of all for NoTag, that P holds of.
Completed(key, q, P(_)) ==
    Cardinality({e \in DOMAIN history :
        /\ key = NoTag \/ (history[e].tag # NoTag /\ RowFor(history[e].tag) = key)
        /\ q = "requests" \/ history[e].ttft > 0
        /\ P(history[e])})

\* What a row shows of a span is the requests it counts that completed within
\* the span, whatever its slots held before; so are each bucket of the series
\* and each step of the latency ladder; and what no row of its own counts is in
\* the overflow row and in truncated.
WindowsExact ==
    /\ \A key \in DOMAIN entries : \A q \in Measures : \A i \in DOMAIN Spans :
           LET now == Tick(Spans[i], clock)
           IN /\ Window(entries[key][q], clock, i) =
                     Completed(key, q, LAMBDA e : Tick(Spans[i], e.at) + Spans[i].buckets > now)
              /\ \A age \in 0..(Spans[i].buckets - 1) :
                     Series(entries[key][q], clock, i, age) =
                         Completed(key, q, LAMBDA e : Tick(Spans[i], e.at) + age = now)
    /\ \A k \in 1..Ladder :
           Snapshot(histogram, clock, k) =
               Completed(NoTag, "tokens", LAMBDA e :
                   e.ttft = k /\ Tick(Spans[1], e.at) + Spans[1].buckets > Tick(Spans[1], clock))
    /\ truncated = Cardinality({e \in DOMAIN history : history[e].tag \notin DOMAIN entries \cup {NoTag}})

\* The requests of this process that the file does not have.
Unsaved == {e \in DOMAIN history : alltime.requests - (Len(history) - e) > Counters(stats).requests}

\* If the process could read the file when it started: the all-time count in it
\* never goes back; a clean shutdown loses no request, and a hard kill loses,
\* beside the request being saved, only those of one interval after the last
\* save, unless the disk refused one.  In any process the durations are those of
\* the requests whose durations were measured.
AlltimeKept ==
    [][/\ ~blind => Counters(stats').requests >= Counters(stats).requests
       /\ alltime'.seconds = alltime'.timed
       /\ (phase # "down" /\ phase' = "down" /\ ~refused /\ ~blind) =>
              \A e \in Unsaved :
                  /\ phase = "serve" \/ saving # "no"
                  /\ \/ saving # "no" /\ e = Len(history)
                     \/ history[e].at < savedAt + SaveInterval]_ledgerVars

\* "losing at most one interval's worth": no process lowers the count.  A start
\* that cannot read the file counts from zero, and its first save says so.
CountNeverBack == [][Counters(stats').requests >= Counters(stats).requests]_ledgerVars

\* A list of a source's top models is partial only when truncated says so.
\* RequestLedger does not keep this: the cap of the tally has no count.
TopIsTold == truncated = 0 => \A e \in DOMAIN history : history[e].tag \in DOMAIN tally \cup {NoTag}
=============================================================================
