----------------------------- MODULE AgentProofs -----------------------------
(* Four parts of an agent that meet in its process only.  The control plane,  *)
(* for any keys, urls, menus and number of steps: what the gate of a cloud    *)
(* provider lets through, what a page shows of it, which configuration the    *)
(* pool's rows are of.  Its life, for any number of processes, clients and    *)
(* listen hosts: one agent serves an address, whatever crashes, replacements  *)
(* and restarts come before it.  The copies of its configuration file, for    *)
(* any files and number of generations.  And what it counts, for any stories, *)
(* spans and caps: the windows over their rings, the counters and their file. *)
EXTENDS ControlPlane, AgentLifecycle, ConfigStore, UsageLedger, Integers, SequenceTheorems,
        FiniteSetTheorems, WellFoundedInduction, TLAPS

-----------------------------------------------------------------------------
(* The control plane: its invariant *)

Configs ==
    [on : BOOLEAN, key : Keys \cup {NoKey}, named : BOOLEAN,
     auth : {"api_key", "oauth_pkce", "plan_token"}, status : Statuses, of : Keys \cup {NoKey},
     pinned : SUBSET Urls, learned : SUBSET Urls, ignored : SUBSET Urls, custom : SUBSET Urls,
     providers : SUBSET Providers, strategy : {"own", "gateway"}, future : BOOLEAN]

ControlTypes ==
    /\ menu \in Menus
    /\ mem \in Configs /\ file \in Configs
    /\ future \in [{"cfg", "service"} -> BOOLEAN]
    /\ cli # Absent => /\ IsEdit(cli.for) /\ cli.config \in Configs
                       /\ ~cli.stored => cli.for.op = "set-key"
    /\ probe # Absent => probe.for \in Keys \cup {NoKey}
    /\ scan # Absent => scan.config \in Configs

\* A record of a check is of an answer the provider gave about that key.
Witnessed(c) == c.status # "" => <<c.of, c.status>> \in answers
Records == Witnessed(mem) /\ Witnessed(file) /\ (cli # Absent => Witnessed(cli.config))

\* Unless a forced scan waits, the scan in progress asks what the present
\* configuration would have asked, and a cached one found what it would find.
SameScan(c, d) == ScanUrls(c) = ScanUrls(d) /\ ByName(c) = ByName(d) /\ c.pinned = d.pinned

\* What the gate reads of an entry.
SameEntry(c, d) ==
    /\ c.key = d.key /\ c.named = d.named /\ c.auth = d.auth
    /\ c.status = d.status /\ c.of = d.of
Scanned ==
    /\ cache # {"none"} => rows = cache
    /\ "force" \notin waiting /\ scan # Absent => SameScan(scan.config, mem)
    /\ "force" \notin waiting /\ scan = Absent /\ cache # {"none"} => cache = RowsFound(mem, mem)

ControlInv == ControlTypes /\ Records /\ Scanned

\* A copy of a configuration keeps the record, and answers are never forgotten.
LEMMA WitnessStays ==
    ASSUME NEW c, NEW d, Witnessed(c), d.status = c.status, d.of = c.of, answers \subseteq answers'
    PROVE  d.status # "" => <<d.of, d.status>> \in answers'
<1>1. <<d.of, d.status>> = <<c.of, c.status>>
  OBVIOUS
<1> QED BY <1>1 DEF Witnessed

---------------------------------------------------------------------------
(* Patches, records and edits *)

\* The gate does not read the switch.
LEMMA GateReads ==
    ASSUME NEW c, NEW d, SameEntry(c, d), NEW env
    PROVE  Gate(c, env) = Gate(d, env)
<1>1. Resolve(c, env) = Resolve(d, env)
  BY DEF SameEntry, Resolve
<1>2. HasSource(c, env) <=> HasSource(d, env)
  BY <1>1, Zenon DEF SameEntry, HasSource
<1> QED BY <1>1, <1>2 DEF SameEntry, Gate

LEMMA GuardedKeeps ==
    ASSUME NEW c \in Configs, NEW d \in Configs, NEW env
    PROVE  LET g == Guarded(c, d, env) IN
           /\ g \in Configs /\ g.status = d.status /\ g.of = d.of
           /\ g.on => d.on /\ (c.on \/ Gate(d, env) = "allow")
<1>1. CASE d.on /\ Gate(d, env) # "allow" /\ ~(Gate(d, env) = "unverified" /\ c.on)
  BY <1>1 DEF Guarded, Configs
<1>2. CASE ~(d.on /\ Gate(d, env) # "allow" /\ ~(Gate(d, env) = "unverified" /\ c.on))
  BY <1>2 DEF Guarded, Configs
<1> QED BY <1>1, <1>2

\* A patch keeps the record of the check, and turns nothing on but by the gate.
LEMMA PatchedKeeps ==
    ASSUME NEW c \in Configs, NEW p, IsPatch(p), NEW env
    PROVE  LET d == Patched(c, p, env) IN
           /\ d \in Configs /\ d.status = c.status /\ d.of = c.of
           /\ d.on => c.on \/ Gate(d, env) = "allow"
<1>1. CASE p.kind = "cloud"
  <2> DEFINE d == [c EXCEPT !.on = p.on, !.auth = p.auth, !.named = p.named,
                            !.key = IF p.key = NoKey THEN @ ELSE p.key]
  <2>1. d \in Configs /\ d.status = c.status /\ d.of = c.of
    BY <1>1 DEF IsPatch, Configs
  <2>2. Patched(c, p, env) = Guarded(c, d, env)
    BY <1>1 DEF Patched
  <2> HIDE DEF d
  <2>3. Guarded(c, d, env).on => c.on \/ Gate(Guarded(c, d, env), env) = "allow"
    <3>1. Guarded(c, d, env).on => Guarded(c, d, env) = d
      BY <2>1 DEF Guarded, Configs
    <3> QED BY <2>1, <3>1, GuardedKeeps
  <2> QED BY <2>1, <2>2, <2>3, GuardedKeeps
<1>2. CASE p.kind = "pinned"
  BY <1>2 DEF IsPatch, Patched, Configs
<1>3. CASE p.kind = "ignored"
  BY <1>3 DEF IsPatch, Patched, Configs
<1>4. CASE p.kind = "learned"
  BY <1>4 DEF IsPatch, Patched, Configs
<1>5. CASE p.kind = "custom"
  BY <1>5 DEF IsPatch, Patched, Configs
<1>6. CASE p.kind = "providers"
  BY <1>6 DEF IsPatch, Patched, Configs
<1>7. CASE p.kind = "future"
  BY <1>7 DEF IsPatch, Patched, Configs
<1> QED BY <1>1, <1>2, <1>3, <1>4, <1>5, <1>6, <1>7 DEF IsPatch

LEMMA OutcomeTypes ==
    ASSUME NEW k \in Keys \cup {NoKey}, NEW s \in Outcomes(k)
    PROVE  s \in Statuses /\ s # ""
BY DEF Outcomes, Statuses, Conclusive

LEMMA RecordedKeeps ==
    ASSUME NEW c \in Configs, NEW k \in Keys \cup {NoKey}, NEW s \in Statuses
    PROVE  /\ Recorded(c, k, s) \in Configs
           /\ Recorded(c, k, s).status = s /\ Recorded(c, k, s).of = k
           /\ Recorded(c, k, s).on = c.on
BY DEF Recorded, Configs

LEMMA RecordedScans ==
    ASSUME NEW c \in Configs, NEW k \in Keys \cup {NoKey}, NEW s \in Statuses
    PROVE  SameScan(c, Recorded(c, k, s))
<1> DEFINE d == Recorded(c, k, s)
<1>1. /\ d.pinned = c.pinned /\ d.ignored = c.ignored /\ d.learned = c.learned
      /\ d.custom = c.custom /\ d.providers = c.providers
  BY DEF Recorded, Configs
<1> HIDE DEF d
<1>2. SameScan(c, d)
  BY <1>1 DEF SameScan, ScanUrls, ByName, Ignored
<1> QED BY <1>2 DEF d

\* The key an entry stands for, as a process with these variables sees it.
LEMMA ResolveTypes ==
    ASSUME NEW c \in Configs, NEW env \in Environments
    PROVE  Resolve(c, env) \in Keys \cup {NoKey}
<1>1. /\ c.key \in Keys \cup {NoKey} /\ env.named \in Keys \cup {NoKey}
      /\ env.default \in Keys \cup {NoKey} /\ env.plan \in Keys \cup {NoKey}
  BY DEF Configs, Environments
<1> QED BY <1>1, Zenon DEF Resolve

\* What an open gate knows of the key.
LEMMA OpenGate ==
    ASSUME NEW c \in Configs, NEW env \in Environments, Gate(c, env) = "allow",
           NEW A, c.status # "" => <<c.of, c.status>> \in A
    PROVE  Checked(c, env, A)
<1>1. c.status \in Statuses \ Conclusive /\ c.status # "" /\ Resolve(c, env) \in {NoKey, c.of}
  BY DEF Gate, Configs
<1> QED BY <1>1 DEF Checked

\* An edit of the command line, with the answer it got.
LEMMA EditedKeeps ==
    ASSUME menu \in Menus, NEW e, IsEdit(e), NEW c \in Configs, Witnessed(c),
           NEW s \in IF Asks(e) THEN Outcomes(AskedKey(c)) ELSE {""},
           answers' = IF Asks(e) THEN answers \cup {<<AskedKey(c), s>>} ELSE answers
    PROVE  /\ Edited(e, c, s) \in Configs
           /\ Edited(e, c, s).status # "" => <<Edited(e, c, s).of, Edited(e, c, s).status>> \in answers'
           /\ Edited(e, c, s).on => c.on \/ Checked(Edited(e, c, s), menu.cliEnv, answers')
<1> DEFINE env == menu.cliEnv
           k == Resolve(c, env)
           d == Recorded(c, k, s)
<1>1. env \in Environments /\ k \in Keys \cup {NoKey}
  BY ControlAssumption, ResolveTypes
<1>2. c.status # "" => <<c.of, c.status>> \in answers'
  BY DEF Witnessed
<1>3. Asks(e) => /\ s \in Statuses /\ s # "" /\ <<k, s>> \in answers'
                 /\ d \in Configs /\ d.status = s /\ d.of = k /\ d.on = c.on
  <2> SUFFICES ASSUME Asks(e)
               PROVE  /\ s \in Statuses /\ s # "" /\ <<k, s>> \in answers'
                      /\ d \in Configs /\ d.status = s /\ d.of = k /\ d.on = c.on
    OBVIOUS
  <2>1. AskedKey(c) = k
    BY DEF AskedKey
  <2>2. s \in Outcomes(k) /\ answers' = answers \cup {<<k, s>>}
    BY <2>1
  <2>3. s \in Statuses /\ s # ""
    BY <1>1, <2>2, OutcomeTypes
  <2>4. /\ Recorded(c, k, s) \in Configs /\ Recorded(c, k, s).status = s
        /\ Recorded(c, k, s).of = k /\ Recorded(c, k, s).on = c.on
    BY <1>1, <2>3, RecordedKeeps
  <2> QED BY <2>2, <2>3, <2>4
<1> HIDE DEF d
<1>4. CASE e.op = "enable"
  <2>1. Asks(e)
    BY <1>4 DEF Asks
  <2>2. CASE Gate(d, env) = "allow"
    <3> DEFINE f == [d EXCEPT !.on = TRUE]
    <3>1. Edited(e, c, s) = f
      BY <1>4, <2>2 DEF Edited, d
    <3>2. f \in Configs /\ f.status = s /\ f.of = k /\ SameEntry(d, f)
      BY <1>3, <2>1 DEF Configs, SameEntry
    <3> HIDE DEF f
    <3>3. Gate(f, env) = "allow"
      BY <2>2, <3>2, GateReads
    <3>4. Checked(f, env, answers')
      BY <1>1, <1>3, <2>1, <3>2, <3>3, OpenGate
    <3> QED BY <1>3, <2>1, <3>1, <3>2, <3>4
  <2>3. CASE Gate(d, env) # "allow"
    <3>1. Edited(e, c, s) = d
      BY <1>4, <2>3 DEF Edited, d
    <3> QED BY <1>3, <2>1, <3>1
  <2> QED BY <2>2, <2>3
<1>5. CASE e.op = "disable"
  <2> DEFINE f == [c EXCEPT !.on = FALSE]
  <2>1. Edited(e, c, s) = f
    BY <1>5 DEF Edited
  <2>2. f \in Configs /\ ~f.on /\ f.status = c.status /\ f.of = c.of
    BY DEF Configs
  <2> HIDE DEF f
  <2> QED BY <1>2, <2>1, <2>2
<1>6. CASE e.op \in {"set-key", "verify"}
  <2>1. Edited(e, c, s) = d
    BY <1>6 DEF Edited, d
  <2>2. Asks(e)
    BY <1>6 DEF Asks
  <2> QED BY <1>3, <2>1, <2>2
<1>7. CASE e.op = "ignore"
  <2> DEFINE f == [c EXCEPT !.ignored = @ \cup {e.url}]
  <2>1. Edited(e, c, s) = f /\ e.url \in Urls
    BY <1>7 DEF Edited, IsEdit
  <2>2. f \in Configs /\ f.on = c.on /\ f.status = c.status /\ f.of = c.of
    BY <2>1 DEF Configs
  <2> HIDE DEF f
  <2> QED BY <1>2, <2>1, <2>2
<1>8. CASE e.op = "import"
  <2>1. Edited(e, c, s) = Patched(c, e.patch, env) /\ IsPatch(e.patch)
    BY <1>8 DEF Edited, IsEdit
  <2> DEFINE f == Patched(c, e.patch, env)
  <2>2. f \in Configs /\ f.status = c.status /\ f.of = c.of /\ (f.on => c.on \/ Gate(f, env) = "allow")
    BY <2>1, PatchedKeeps
  <2>3. Edited(e, c, s) = f
    BY <2>1
  <2> HIDE DEF f
  <2>4. f.on => c.on \/ Checked(f, env, answers')
    BY <1>1, <1>2, <2>2, OpenGate
  <2> QED BY <1>2, <2>2, <2>3, <2>4
<1> QED BY <1>4, <1>5, <1>6, <1>7, <1>8 DEF IsEdit

---------------------------------------------------------------------------
(* The steps *)

LEMMA InitControl == ControlInit => ControlInv
<1> SUFFICES ASSUME ControlInit PROVE ControlInv
  OBVIOUS
<1>1. DefaultConfig \in Configs /\ DefaultConfig.status = ""
  BY DEF DefaultConfig, Configs, Statuses
<1>2. ControlTypes
  BY <1>1 DEF ControlInit, ControlTypes
<1>3. Records
  BY <1>1 DEF ControlInit, Records, Witnessed
<1>4. Scanned
  BY DEF ControlInit, Scanned
<1> QED BY <1>2, <1>3, <1>4 DEF ControlInv

\* What a save of the agent writes.
LEMMA SavedKeeps ==
    ASSUME NEW c \in Configs, future \in [{"cfg", "service"} -> BOOLEAN]
    PROVE  /\ Saved(c, "cfg") \in Configs /\ Saved(c, "service") \in Configs
           /\ Saved(c, "cfg").status = c.status /\ Saved(c, "cfg").of = c.of
           /\ Saved(c, "service").status = c.status /\ Saved(c, "service").of = c.of
BY DEF Saved, Configs

\* Learning adds nothing that would not have been asked.
LEMMA LearnedKeeps ==
    ASSUME NEW c \in Configs, NEW d \in Configs, menu \in Menus
    PROVE  /\ Learned(c, d) \in Configs /\ Learned(c, d).status = d.status /\ Learned(c, d).of = d.of
           /\ Learned(c, d).on = d.on
           /\ SameScan(c, d) => /\ SameScan(d, Learned(c, d))
                                /\ RowsFound(Learned(c, d), Learned(c, d)) = RowsFound(c, d)
<1> DEFINE l == Learned(c, d)
           turnedUp == (Hits(c) \cup (c.pinned \cap menu.serving)) \ d.pinned
           more == {x \in turnedUp : ModelCount[x] > 0}
<1>1. Hits(c) \subseteq ScanUrls(c) /\ Hits(c) \subseteq menu.serving
  BY DEF Hits
<1>2. more \subseteq Urls
  BY <1>1, ControlAssumption
<1>3. l = [d EXCEPT !.learned = @ \cup more]
  BY DEF Learned
<1>4. /\ l \in Configs /\ l.status = d.status /\ l.of = d.of /\ l.on = d.on
      /\ l.pinned = d.pinned /\ l.ignored = d.ignored /\ l.learned = d.learned \cup more
      /\ l.custom = d.custom /\ l.providers = d.providers
  BY <1>2, <1>3 DEF Configs
<1>5. c.pinned \subseteq ByName(c)
  BY DEF ByName
<1> HIDE DEF l
<1>6. ByName(l) = ByName(d) /\ Ignored(l) = Ignored(d)
  BY <1>4 DEF ByName, Ignored
<1>7. ASSUME SameScan(c, d) PROVE RowsFound(l, l) = RowsFound(c, d) /\ SameScan(d, l)
  <2>1. more \subseteq ScanUrls(d)
    BY <1>1, <1>7 DEF SameScan
  <2>2. ScanUrls(l) = ScanUrls(d)
    BY <1>4, <1>6, <2>1 DEF ScanUrls
  <2>3. Hits(l) = Hits(c)
    BY <1>7, <2>2 DEF Hits, SameScan
  <2>4. RowsFound(l, l) = RowsFound(c, d)
    BY <1>4, <1>6, <1>7, <2>3 DEF RowsFound, SameScan
  <2> QED BY <1>4, <1>6, <2>2, <2>4 DEF SameScan
<1> QED BY <1>4, <1>7 DEF l

\* What a scan finds follows from what it asks.
LEMMA SameRows ==
    ASSUME NEW c, NEW d, SameScan(c, d)
    PROVE  RowsFound(c, d) = RowsFound(d, d)
BY DEF SameScan, RowsFound, Hits

LEMMA ScanFollows ==
    ASSUME Scanned, SameScan(mem, mem'),
           UNCHANGED <<waiting, scan, cache, rows, menu>>
    PROVE  Scanned'
<1>1. RowsFound(mem, mem) = RowsFound(mem', mem')
  BY DEF SameScan, RowsFound, Hits
<1>2. RowsFound(mem', mem') = RowsFound(mem, mem)'
  BY DEF RowsFound, Hits, ScanUrls, ByName, Ignored
<1>3. scan # Absent => (SameScan(scan.config, mem)' <=> SameScan(scan.config, mem))
  <2>1. scan'.config = scan.config
    OBVIOUS
  <2> QED BY <2>1 DEF SameScan, ScanUrls, ByName, Ignored
<1> QED BY <1>1, <1>2, <1>3 DEF Scanned

LEMMA ControlStep == ControlInv /\ [ControlNext]_controlVars => ControlInv'
<1> SUFFICES ASSUME ControlInv, [ControlNext]_controlVars PROVE ControlInv'
  OBVIOUS
<1> USE DEF ControlInv
<1>0. /\ mem \in Configs /\ file \in Configs /\ menu \in Menus
      /\ menu.env \in Environments /\ menu.cliEnv \in Environments
      /\ future \in [{"cfg", "service"} -> BOOLEAN]
  BY ControlAssumption DEF ControlTypes
<1>1. ASSUME NEW p \in menu.patches, PostConfig(p) PROVE ControlInv'
  <2> DEFINE d == Patched(mem, p, menu.env)
  <2>1. IsPatch(p)
    BY <1>0, ControlAssumption
  <2>2. d \in Configs /\ d.status = mem.status /\ d.of = mem.of
    BY <1>0, <2>1, PatchedKeeps
  <2>3. /\ mem' = [d EXCEPT !.future = FALSE]
        /\ file' = [d EXCEPT !.future = future["cfg"] \/ p.kind = "future"]
        /\ future' = [future EXCEPT !["service"] = future["cfg"] \/ p.kind = "future"]
        /\ cache' = {"none"} /\ waiting' = waiting \cup {"force"}
        /\ UNCHANGED <<cli, probe, answers, scan, fresh, rows, cloudRow, menu>>
    BY <1>1 DEF PostConfig
  <2> HIDE DEF d
  <2>4. /\ mem' \in Configs /\ mem'.status = d.status /\ mem'.of = d.of
        /\ file' \in Configs /\ file'.status = d.status /\ file'.of = d.of
        /\ future' \in [{"cfg", "service"} -> BOOLEAN]
    BY <1>0, <2>2, <2>3 DEF Configs
  <2>5. ControlTypes'
    BY <1>0, <2>3, <2>4 DEF ControlTypes
  <2>6. Records'
    <3>1. Witnessed(mem)' /\ Witnessed(file)'
      <4>1. Witnessed(mem) /\ answers \subseteq answers'
        BY <2>3 DEF Records
      <4>2. mem'.status # "" => <<mem'.of, mem'.status>> \in answers'
        BY <2>2, <2>4, <4>1, WitnessStays
      <4>3. file'.status # "" => <<file'.of, file'.status>> \in answers'
        BY <2>2, <2>4, <4>1, WitnessStays
      <4> QED BY <4>2, <4>3 DEF Witnessed
    <3>2. cli # Absent => Witnessed(cli.config)'
      BY <2>3 DEF Records, Witnessed
    <3> QED BY <2>3, <3>1, <3>2 DEF Records
  <2>7. Scanned'
    BY <2>3 DEF Scanned
  <2> QED BY <2>5, <2>6, <2>7
<1>2. ASSUME NEW k \in Keys \cup {NoKey}, BeginVerify(k) PROVE ControlInv'
  <2>1. probe' = [for |-> IF k = NoKey THEN Resolve(mem, menu.env) ELSE k]
        /\ UNCHANGED <<configVars, cli, answers, scanVars, cloudRow, menu>>
    BY <1>2 DEF BeginVerify
  <2>2. probe'.for \in Keys \cup {NoKey}
    BY <1>0, <2>1, ResolveTypes
  <2>3. ControlTypes'
    BY <2>1, <2>2 DEF ControlTypes, configVars, scanVars
  <2>4. Records'
    BY <2>1 DEF Records, Witnessed, configVars
  <2>5. Scanned'
    BY <2>1 DEF Scanned, SameScan, ScanUrls, ByName, Hits, Ignored, RowsFound, configVars, scanVars
  <2> QED BY <2>3, <2>4, <2>5
<1>3. ASSUME NEW s \in Statuses, FinishVerify(s) PROVE ControlInv'
  <2> DEFINE k == probe.for
             d == Recorded(mem, k, s)
  <2>1. k \in Keys \cup {NoKey}
    BY <1>3 DEF FinishVerify, ControlTypes
  <2>2. d \in Configs /\ d.status = s /\ d.of = k /\ SameScan(mem, d)
    BY <1>0, <2>1, RecordedKeeps, RecordedScans
  <2>3. /\ mem' = d /\ file' = Saved(d, "cfg") /\ probe' = Absent /\ answers' = answers \cup {<<k, s>>}
        /\ UNCHANGED <<future, cli, scanVars, cloudRow, menu>>
    BY <1>3 DEF FinishVerify
  <2> HIDE DEF d, k
  <2>4. file' \in Configs /\ file'.status = s /\ file'.of = k
    BY <1>0, <2>2, <2>3, SavedKeeps
  <2>5. ControlTypes'
    BY <1>0, <2>2, <2>3, <2>4 DEF ControlTypes, scanVars
  <2>6. Records'
    <3>1. <<mem'.of, mem'.status>> = <<k, s>> /\ <<file'.of, file'.status>> = <<k, s>>
      BY <2>2, <2>3, <2>4
    <3>2. Witnessed(mem)' /\ Witnessed(file)'
      BY <2>3, <3>1 DEF Witnessed
    <3>3. cli # Absent => Witnessed(cli.config)'
      BY <2>3 DEF Records, Witnessed
    <3> QED BY <2>3, <3>2, <3>3 DEF Records
  <2>7. Scanned'
    <3>1. SameScan(mem, mem')
      BY <2>2, <2>3
    <3> QED BY <2>3, <3>1, ScanFollows DEF scanVars
  <2> QED BY <2>5, <2>6, <2>7
<1>4. CASE FollowGateway
  <2>1. /\ mem' = [mem EXCEPT !.strategy = "gateway"]
        /\ UNCHANGED <<future, file, cli, probe, answers, scanVars, cloudRow, menu, steps>>
    BY <1>4 DEF FollowGateway
  <2>2. /\ mem' \in Configs /\ mem'.status = mem.status /\ mem'.of = mem.of
        /\ mem'.pinned = mem.pinned /\ mem'.ignored = mem.ignored /\ mem'.learned = mem.learned
        /\ mem'.custom = mem.custom /\ mem'.providers = mem.providers
    BY <1>0, <2>1 DEF Configs
  <2>3. ControlTypes' /\ Records'
    <3>1. mem'.status # "" => <<mem'.of, mem'.status>> \in answers'
      BY <2>1, <2>2, WitnessStays DEF Records
    <3>2. Records'
      BY <2>1, <3>1 DEF Records, Witnessed
    <3>3. ControlTypes'
      BY <2>1, <2>2 DEF ControlTypes, scanVars
    <3> QED BY <3>2, <3>3
  <2>4. Scanned'
    <3>1. SameScan(mem, mem')
      BY <2>2 DEF SameScan, ScanUrls, ByName, Ignored
    <3> QED BY <2>1, <3>1, ScanFollows DEF scanVars
  <2> QED BY <2>3, <2>4
<1>5. ASSUME NEW for \in {"request", "discover"}, Refresh(for) PROVE ControlInv'
  <2>1. /\ UNCHANGED <<configVars, cli, probe, answers, scan, cache, fresh, menu>>
        /\ \/ rows' = cache /\ UNCHANGED waiting
           \/ waiting' = waiting \cup {for} /\ UNCHANGED rows
    BY <1>5 DEF Refresh
  <2>2. ControlTypes' /\ Records'
    BY <2>1 DEF ControlTypes, Records, Witnessed, configVars
  <2>3. Scanned'
    BY <2>1 DEF Scanned, SameScan, ScanUrls, ByName, Hits, Ignored, RowsFound, configVars
  <2> QED BY <2>2, <2>3
<1>6. ASSUME NEW for \in waiting, StartScan(for) PROVE ControlInv'
  <2>1. /\ waiting' = waiting \ {for} /\ scan = Absent
        /\ UNCHANGED <<configVars, cli, probe, answers, cache, fresh, menu>>
        /\ \/ rows' = cache /\ scan' = scan /\ for = "request"
           \/ scan' = [for |-> for, config |-> mem] /\ rows' = rows
    BY <1>6 DEF StartScan, Reuses
  <2>2. CASE rows' = cache /\ scan' = scan /\ for = "request"
    <3>1. ControlTypes' /\ Records'
      BY <2>1, <2>2 DEF ControlTypes, Records, Witnessed, configVars
    <3>2. Scanned'
      BY <2>1, <2>2 DEF Scanned, SameScan, ScanUrls, ByName, Hits, Ignored, RowsFound, configVars
    <3> QED BY <3>1, <3>2
  <2>3. CASE scan' = [for |-> for, config |-> mem] /\ rows' = rows
    <3>1. scan'.config = mem /\ scan' # Absent
      BY <2>3 DEF Absent
    <3>2. ControlTypes'
      BY <1>0, <2>1, <3>1 DEF ControlTypes, configVars
    <3>3. Records'
      BY <2>1 DEF Records, Witnessed, configVars
    <3>4. Scanned'
      BY <2>1, <2>3, <3>1 DEF Scanned, SameScan, configVars
    <3> QED BY <3>2, <3>3, <3>4
  <2> QED BY <2>1, <2>2, <2>3
<1>7. CASE FinishScan
  <2> DEFINE c == scan.config
             l == Learned(c, mem)
             found == RowsFound(c, mem)
  <2>1. c \in Configs
    BY <1>7 DEF FinishScan, ControlTypes
  <2>2. /\ l \in Configs /\ l.status = mem.status /\ l.of = mem.of
        /\ SameScan(c, mem) => RowsFound(l, l) = found
    BY <1>0, <2>1, LearnedKeeps
  <2>3. /\ scan # Absent /\ scan' = Absent /\ cache' = found /\ rows' = found
        /\ \/ mem' = l /\ file' = Saved(l, "service")
           \/ mem' = mem /\ file' = file
        /\ UNCHANGED <<future, cli, probe, answers, waiting, menu>>
    BY <1>7 DEF FinishScan
  <2>4. SameScan(c, mem) => found = RowsFound(mem, mem)
    BY SameRows
  <2> HIDE DEF l, found, c
  <2>5. /\ Saved(l, "service") \in Configs
        /\ Saved(l, "service").status = l.status /\ Saved(l, "service").of = l.of
    BY <1>0, <2>2, SavedKeeps
  <2>6. ControlTypes'
    BY <1>0, <2>2, <2>3, <2>5 DEF ControlTypes
  <2>7. Records'
    BY <2>2, <2>3, <2>5 DEF Records, Witnessed
  <2>8. Scanned'
    <3>1. \A x, y : RowsFound(x, y)' = RowsFound(x, y)
      BY <2>3 DEF RowsFound, Hits, ByName, ScanUrls, Ignored
    <3>2. "force" \notin waiting => SameScan(c, mem)
      BY <2>3 DEF Scanned, c
    <3> QED BY <2>2, <2>3, <2>4, <3>1, <3>2 DEF Scanned
  <2> QED BY <2>6, <2>7, <2>8
<1>8. CASE Expire \/ UNCHANGED controlVars
  <2>1. UNCHANGED <<configVars, cli, probe, answers, waiting, scan, cache, rows, cloudRow, menu>>
    BY <1>8 DEF Expire, controlVars, configVars, scanVars
  <2>2. ControlTypes' /\ Records'
    BY <2>1 DEF ControlTypes, Records, Witnessed, configVars
  <2>3. Scanned'
    BY <2>1 DEF Scanned, SameScan, ScanUrls, ByName, Hits, Ignored, RowsFound, configVars
  <2> QED BY <2>2, <2>3
<1>9. CASE Restart
  <2>1. /\ mem' = [file EXCEPT !.future = FALSE] /\ probe' = Absent /\ waiting' = {"discover"}
        /\ scan' = Absent /\ cache' = {"none"}
        /\ future' = [h \in {"cfg", "service"} |-> file.future]
        /\ UNCHANGED <<file, cli, answers, menu>>
    BY <1>9 DEF Restart
  <2>2. /\ mem' \in Configs /\ mem'.status = file.status /\ mem'.of = file.of
        /\ file.future \in BOOLEAN
    BY <1>0, <2>1 DEF Configs
  <2>3. future' \in [{"cfg", "service"} -> BOOLEAN]
    BY <2>1, <2>2
  <2>4. ControlTypes'
    BY <2>1, <2>2, <2>3 DEF ControlTypes
  <2>5. Records'
    <3>1. mem'.status # "" => <<mem'.of, mem'.status>> \in answers'
      BY <2>1, <2>2, WitnessStays DEF Records
    <3> QED BY <2>1, <3>1 DEF Records, Witnessed
  <2>6. Scanned'
    BY <2>1 DEF Scanned
  <2> QED BY <2>4, <2>5, <2>6
<1>10. ASSUME NEW e \in menu.edits, CliLoad(e) PROVE ControlInv'
  <2>1. /\ cli' = [for |-> e, config |-> file, stored |-> e.op # "set-key"]
        /\ UNCHANGED <<configVars, probe, answers, scanVars, cloudRow, menu>>
    BY <1>10 DEF CliLoad
  <2>2. IsEdit(e)
    BY <1>0, ControlAssumption
  <2>3. ControlTypes' /\ Records'
    BY <1>0, <2>1, <2>2 DEF ControlTypes, Records, Witnessed, configVars, scanVars
  <2>4. Scanned'
    BY <2>1 DEF Scanned, SameScan, ScanUrls, ByName, Hits, Ignored, RowsFound, configVars, scanVars
  <2> QED BY <2>3, <2>4
<1>11. CASE CliStore
  <2>1. /\ cli # Absent
        /\ file' = [cli.config EXCEPT !.key = IF cli.for.key = Named THEN NoKey ELSE cli.for.key,
                                      !.named = (cli.for.key = Named)]
        /\ cli' = [for |-> cli.for, config |-> file', stored |-> TRUE]
        /\ UNCHANGED <<mem, future, probe, answers, scanVars, menu>>
    BY <1>11 DEF CliStore
  <2>2. cli.config \in Configs /\ cli.for.key \in Keys \cup {Named} /\ IsEdit(cli.for)
    BY <1>11 DEF CliStore, ControlTypes, IsEdit
  <2>3. file' \in Configs /\ file'.status = cli.config.status /\ file'.of = cli.config.of
    BY <2>1, <2>2 DEF Configs
  <2>4. cli'.for = cli.for /\ cli'.config = file' /\ cli'.stored
    BY <2>1
  <2>5. ControlTypes'
    BY <1>0, <2>1, <2>2, <2>3, <2>4 DEF ControlTypes, scanVars
  <2>6. Records'
    <3>1. Witnessed(mem)'
      BY <2>1 DEF Records, Witnessed
    <3>2. Witnessed(file)'
      <4>1. Witnessed(cli.config) /\ answers \subseteq answers'
        BY <2>1 DEF Records
      <4>2. file'.status # "" => <<file'.of, file'.status>> \in answers'
        BY <2>3, <4>1, WitnessStays
      <4> QED BY <4>2 DEF Witnessed
    <3>3. Witnessed(cli.config)'
      BY <3>2, <2>4 DEF Witnessed
    <3> QED BY <3>1, <3>2, <3>3 DEF Records
  <2>7. Scanned'
    BY <2>1 DEF Scanned, SameScan, ScanUrls, ByName, Hits, Ignored, RowsFound, scanVars
  <2> QED BY <2>5, <2>6, <2>7
<1>12. ASSUME NEW s \in Statuses, CliSave(s) PROVE ControlInv'
  <2>1. /\ cli # Absent /\ cli' = Absent
        /\ s \in IF Asks(cli.for) THEN Outcomes(AskedKey(cli.config)) ELSE {""}
        /\ file' = Edited(cli.for, cli.config, s)
        /\ answers' = IF Asks(cli.for) THEN answers \cup {<<AskedKey(cli.config), s>>} ELSE answers
        /\ UNCHANGED <<mem, future, probe, scanVars, menu>>
    BY <1>12 DEF CliSave
  <2>2. IsEdit(cli.for) /\ cli.config \in Configs /\ Witnessed(cli.config)
    BY <2>1 DEF ControlTypes, Records
  <2>3. file' \in Configs /\ (file'.status # "" => <<file'.of, file'.status>> \in answers')
    BY <1>0, <2>1, <2>2, EditedKeeps
  <2>4. ControlTypes'
    BY <1>0, <2>1, <2>3 DEF ControlTypes, scanVars
  <2>5. Records'
    <3>1. Witnessed(mem)'
      BY <2>1 DEF Records, Witnessed
    <3>2. Witnessed(file)'
      BY <2>3 DEF Witnessed
    <3> QED BY <2>1, <3>1, <3>2 DEF Records
  <2>6. Scanned'
    BY <2>1 DEF Scanned, SameScan, ScanUrls, ByName, Hits, Ignored, RowsFound, scanVars
  <2> QED BY <2>4, <2>5, <2>6
<1> QED BY <1>1, <1>2, <1>3, <1>4, <1>5, <1>6, <1>7, <1>8, <1>9, <1>10, <1>11, <1>12
        DEF ControlNext

LEMMA ControlAlways == ControlSpec => []ControlInv
BY InitControl, ControlStep, PTL DEF ControlSpec

---------------------------------------------------------------------------
(* What follows *)

\* cloud/verification.py and the cloud page: for every entry whose key the
\* agent can see, "can enable" is what the gate of a patch then decides.
THEOREM PageIsTheGate == ControlSpec => []ShownIsTheGate
<1>1. ControlInv => ShownIsTheGate
  <2> SUFFICES ASSUME ControlInv, mem.named => Resolve(mem, menu.env) # NoKey
               PROVE  CanEnable(Shown(mem, menu.env)) <=> (Gate(mem, menu.env) = "allow")
    BY DEF ShownIsTheGate
  <2>1. mem.status \in Statuses
    BY DEF ControlInv, ControlTypes, Configs
  <2>2. mem.key # NoKey => Resolve(mem, menu.env) # NoKey
    BY Zenon DEF Resolve
  <2>3. HasSource(mem, menu.env) <=> Resolve(mem, menu.env) # NoKey
    BY <2>2, Zenon DEF HasSource
  <2> QED BY <2>1, <2>3 DEF CanEnable, Shown, Gate, Conclusive, Statuses
<1> QED BY <1>1, ControlAlways, PTL

\* refresh_local_backends under its lock: when nothing scans and nothing waits
\* to, the rows are those of the configuration that is in force.
THEOREM RowsCurrent == ControlSpec => []RowsFollowConfig
<1>1. ControlInv => RowsFollowConfig
  BY DEF ControlInv, Scanned, RowsFollowConfig
<1> QED BY <1>1, ControlAlways, PTL

\* gate_decision on every way to turn a provider on: a patch of the agent, an
\* enable or an import of the command line.
THEOREM GateHolds == ControlSpec => EnabledKeyWasChecked
<1> DEFINE Enabling == ~mem.on /\ mem'.on /\ "force" \in waiting' => Checked(mem', menu.env, answers')
           Editing == cli # Absent /\ cli' = Absent /\ ~cli.config.on /\ file'.on
                        => Checked(file', menu.cliEnv, answers')
<1>1. ControlInv /\ [ControlNext]_controlVars => [Enabling /\ Editing]_controlVars
  <2> SUFFICES ASSUME ControlInv, ControlNext PROVE Enabling /\ Editing
    OBVIOUS
  <2> USE DEF ControlInv
  <2>0. /\ mem \in Configs /\ file \in Configs /\ menu \in Menus
        /\ menu.env \in Environments /\ menu.cliEnv \in Environments
    BY ControlAssumption DEF ControlTypes
  <2>1. ASSUME NEW p \in menu.patches, PostConfig(p) PROVE Enabling /\ Editing
    <3> DEFINE d == Patched(mem, p, menu.env)
    <3>1. IsPatch(p)
      BY <2>0, ControlAssumption
    <3>2. d \in Configs /\ d.status = mem.status /\ d.of = mem.of
          /\ (d.on => mem.on \/ Gate(d, menu.env) = "allow")
      BY <2>0, <3>1, PatchedKeeps
    <3>3. mem' = [d EXCEPT !.future = FALSE] /\ answers' = answers /\ cli' = cli
      BY <2>1 DEF PostConfig
    <3> HIDE DEF d
    <3>4. /\ mem' \in Configs /\ mem'.on = d.on /\ mem'.status = d.status /\ mem'.of = d.of
          /\ SameEntry(d, mem')
      BY <3>2, <3>3 DEF Configs, SameEntry
    <3>5. ASSUME ~mem.on, mem'.on PROVE Gate(mem', menu.env) = "allow"
      BY <3>2, <3>4, <3>5, GateReads
    <3>6. mem'.status # "" => <<mem'.of, mem'.status>> \in answers'
      <4>1. Witnessed(mem) /\ answers \subseteq answers'
        BY <3>3 DEF Records
      <4> QED BY <3>2, <3>4, <4>1, WitnessStays
    <3>7. Enabling
      BY <2>0, <3>4, <3>5, <3>6, OpenGate
    <3> QED BY <3>3, <3>7
  <2>2. ASSUME NEW s \in Statuses, CliSave(s) PROVE Enabling /\ Editing
    <3>1. /\ cli # Absent /\ cli' = Absent /\ mem' = mem
          /\ s \in IF Asks(cli.for) THEN Outcomes(AskedKey(cli.config)) ELSE {""}
          /\ file' = Edited(cli.for, cli.config, s)
          /\ answers' = IF Asks(cli.for) THEN answers \cup {<<AskedKey(cli.config), s>>} ELSE answers
      BY <2>2 DEF CliSave
    <3>2. IsEdit(cli.for) /\ cli.config \in Configs /\ Witnessed(cli.config)
      BY <3>1 DEF ControlTypes, Records
    <3>3. file'.on => cli.config.on \/ Checked(file', menu.cliEnv, answers')
      BY <2>0, <3>1, <3>2, EditedKeeps
    <3> QED BY <3>1, <3>3
  <2>3. CASE \/ \E k \in Keys \cup {NoKey} : BeginVerify(k)
             \/ \E e \in menu.edits : CliLoad(e)
             \/ \E for \in {"request", "discover"} : Refresh(for)
             \/ \E for \in waiting : StartScan(for)
             \/ CliStore \/ Expire
    <3>1. mem' = mem
      BY <2>3 DEF BeginVerify, CliLoad, Refresh, StartScan, CliStore, Expire, configVars
    <3>2. cli' = cli \/ cli = Absent \/ cli' # Absent
      BY <2>3 DEF BeginVerify, CliLoad, Refresh, StartScan, CliStore, Expire, Absent
    <3> QED BY <3>1, <3>2
  <2>4. CASE \/ \E s \in Statuses : FinishVerify(s)
             \/ FollowGateway \/ FinishScan
    <3>1. cli' = cli
      BY <2>4 DEF FinishVerify, FollowGateway, FinishScan
    <3>2. CASE \E s \in Statuses : FinishVerify(s)
      BY <2>0, <3>2, <3>1 DEF FinishVerify, Recorded, Configs
    <3>3. CASE FollowGateway
      BY <2>0, <3>1, <3>3 DEF FollowGateway, Configs
    <3>4. CASE FinishScan
      BY <2>0, <3>1, <3>4 DEF FinishScan, Learned, Configs
    <3> QED BY <2>4, <3>2, <3>3, <3>4
  <2>5. CASE Restart
    BY <2>5 DEF Restart
  <2> QED BY <2>1, <2>2, <2>3, <2>4, <2>5 DEF ControlNext
<1> QED BY <1>1, ControlAlways, PTL DEF ControlSpec, EnabledKeyWasChecked

-----------------------------------------------------------------------------
(* The life of an agent's processes *)

Stages == {"idle", "lock", "read", "retry", "write", "held", "check", "stop", "find", "wait", "app",
           "bind", "serving", "draining", "dead", "client"}

ProcessTypes ==
    /\ launch \in Launches
    /\ pc \in [Procs \cup Clients -> Stages]
    /\ lock \in [Hosts -> Procs \cup {NoProc}] /\ payload \in [Hosts -> Procs \cup {NoProc}]
    /\ port \in Procs \cup {NoProc, Other}
    /\ connected \subseteq Clients
    /\ back \in [Procs -> {"", "lock", "bind"}]
    /\ target \in [Procs -> Procs \cup Clients \cup {NoProc}]
    /\ signalled \in [Procs -> SUBSET (Procs \cup Clients)]
    /\ \A p \in Procs : pc[p] # "client"
    /\ \A c \in Clients : pc[c] \in {"client", "dead"}

\* Who has passed the lock: a process that stops another passed it before the
\* port was looked at, or not yet.
Inside ==
    {p \in Procs : \/ pc[p] \in {"write", "check", "app", "bind", "serving", "draining"}
                   \/ pc[p] \in {"stop", "find", "wait"} /\ back[p] = "bind"}

\* The flock of a host belongs to the one process inside.
LocksHeld == \A p \in Inside : p \in DOMAIN launch.host /\ lock[HostOf(p)] = p

\* No process keeps a flock it has no more use for.
LocksReturned == \A h \in Hosts, p \in Procs : lock[h] = p => p \in Inside /\ HostOf(p) = h

\* The listener is the serving process.
PortServed == \A p \in Procs : port = p <=> pc[p] = "serving"

\* A process waits for one that was told to stop, and all it told before are gone.
Stopped ==
    \A p \in Procs :
        /\ pc[p] \in {"stop", "find", "wait"} => back[p] # ""
        /\ pc[p] = "wait" => target[p] # NoProc /\ pc[target[p]] \in {"draining", "dead"}
        /\ \A q \in signalled[p] :
             pc[q] = "dead" \/ pc[p] = "dead" \/ (pc[p] = "wait" /\ q = target[p])

LifecycleInv == ProcessTypes /\ LocksHeld /\ LocksReturned /\ PortServed /\ Stopped

---------------------------------------------------------------------------
(* What a step of one process leaves true *)

LEMMA InitLifecycle == LifecycleInit => LifecycleInv
<1> SUFFICES ASSUME LifecycleInit PROVE LifecycleInv
  OBVIOUS
<1>1. /\ \A p \in Procs : pc[p] = "idle" /\ \A c \in Clients : pc[c] = "client"
      /\ pc \in [Procs \cup Clients -> Stages]
  BY LifecycleAssumption DEF LifecycleInit, Stages
<1>2. ProcessTypes
  BY <1>1 DEF LifecycleInit, ProcessTypes
<1>3. Inside = {}
  BY <1>1 DEF Inside
<1>4. LocksHeld /\ LocksReturned
  BY <1>3, LifecycleAssumption DEF LifecycleInit, LocksHeld, LocksReturned
<1>5. PortServed
  BY <1>1, LifecycleAssumption DEF LifecycleInit, PortServed
<1>6. Stopped
  BY <1>1 DEF LifecycleInit, Stopped
<1> QED BY <1>2, <1>4, <1>5, <1>6 DEF LifecycleInv

LEMMA Launched ==
    ASSUME ProcessTypes
    PROVE  /\ DOMAIN launch.host \subseteq Procs /\ launch.child \in Procs \cup {NoProc}
           /\ \A p \in DOMAIN launch.host : HostOf(p) \in Hosts
BY LifecycleAssumption DEF ProcessTypes, HostOf

\* A process goes on to x; it keeps its place before or behind the lock, or
\* takes the lock; it binds, begins to drain or leaves the port alone.
GoesTo(p, x) ==
    /\ pc[p] \notin {"draining", "dead"} /\ pc' = [pc EXCEPT ![p] = x]
    /\ UNCHANGED <<launch, connected, target, signalled>>
    /\ payload' \in [Hosts -> Procs \cup {NoProc}]
KeepsBack(p) ==
    /\ back' \in [Procs -> {"", "lock", "bind"}] /\ \A q \in Procs \ {p} : back'[q] = back[q]
    /\ pc'[p] \in {"stop", "find"} => back'[p] # ""
    /\ pc[p] = "wait" => pc[target[p]] = "dead"
TakesLock(p) ==
    \/ lock' = lock /\ (p \in Inside' <=> p \in Inside)
    \/ lock[HostOf(p)] = NoProc /\ lock' = [lock EXCEPT ![HostOf(p)] = p] /\ p \in Inside'
TakesPort(p) ==
    \/ port = NoProc /\ port' = p /\ pc'[p] = "serving"
    \/ pc[p] = "serving" /\ port' = NoProc /\ pc'[p] # "serving"
    \/ pc[p] # "serving" /\ port' = port /\ pc'[p] # "serving"

LEMMA GoesOn ==
    ASSUME LifecycleInv, NEW p \in DOMAIN launch.host, NEW x \in Stages \ {"dead", "client", "wait"},
           GoesTo(p, x), KeepsBack(p), TakesLock(p), TakesPort(p)
    PROVE  LifecycleInv'
<1>1. /\ p \in Procs /\ p \notin Clients /\ HostOf(p) \in Hosts
      /\ NoProc \notin Procs /\ Clients \cap Procs = {}
  BY Launched, LifecycleAssumption DEF LifecycleInv
<1>2. /\ pc'[p] = x /\ \A q \in (Procs \cup Clients) \ {p} : pc'[q] = pc[q]
      /\ pc' \in [Procs \cup Clients -> Stages]
  BY <1>1 DEF GoesTo, LifecycleInv, ProcessTypes
<1>3. \A q \in Procs \ {p} : q \in Inside' <=> q \in Inside
  BY <1>2 DEF Inside, KeepsBack
<1>4. \A q : HostOf(q)' = HostOf(q)
  BY DEF HostOf, GoesTo
<1>5. ProcessTypes'
  <2>1. lock' \in [Hosts -> Procs \cup {NoProc}]
    BY <1>1 DEF LifecycleInv, ProcessTypes, TakesLock
  <2>2. port' \in Procs \cup {NoProc, Other}
    BY <1>1 DEF LifecycleInv, ProcessTypes, TakesPort
  <2>3. /\ \A q \in Procs : pc'[q] # "client"
        /\ \A c \in Clients : pc'[c] \in {"client", "dead"}
    BY <1>1, <1>2 DEF LifecycleInv, ProcessTypes
  <2> QED BY <1>2, <2>1, <2>2, <2>3 DEF LifecycleInv, ProcessTypes, GoesTo, KeepsBack
<1>6. lock \in [Hosts -> Procs \cup {NoProc}] /\ DOMAIN launch.host \subseteq Procs
  BY Launched DEF LifecycleInv, ProcessTypes
<1>7. LocksHeld'
  <2> SUFFICES ASSUME NEW q \in Inside' PROVE q \in DOMAIN launch.host /\ lock'[HostOf(q)] = q
    BY <1>4 DEF LocksHeld, GoesTo
  <2>1. q \in Procs
    BY DEF Inside
  <2>2. CASE q = p
    BY <1>1, <1>6, <2>2 DEF LifecycleInv, LocksHeld, TakesLock
  <2>3. CASE q # p
    <3>1. q \in DOMAIN launch.host /\ lock[HostOf(q)] = q
      BY <1>3, <2>1, <2>3 DEF LifecycleInv, LocksHeld
    <3>2. lock' = lock \/ (lock[HostOf(p)] = NoProc /\ lock' = [lock EXCEPT ![HostOf(p)] = p])
      BY DEF TakesLock
    <3>3. HostOf(q) \in Hosts
      BY <3>1, Launched DEF LifecycleInv
    <3> QED BY <1>1, <1>6, <2>1, <3>1, <3>2, <3>3
  <2> QED BY <2>2, <2>3
<1>8. LocksReturned'
  <2> SUFFICES ASSUME NEW h \in Hosts, NEW q \in Procs, lock'[h] = q PROVE q \in Inside' /\ HostOf(q) = h
    BY <1>4 DEF LocksReturned
  <2>1. CASE lock' = lock /\ (p \in Inside' <=> p \in Inside)
    BY <1>3, <2>1 DEF LifecycleInv, LocksReturned
  <2>2. CASE lock[HostOf(p)] = NoProc /\ lock' = [lock EXCEPT ![HostOf(p)] = p] /\ p \in Inside'
    <3>1. CASE h = HostOf(p)
      BY <1>1, <1>6, <2>2, <3>1
    <3>2. CASE h # HostOf(p)
      <4>1. lock[h] = q
        BY <1>6, <2>2, <3>2
      <4>2. q \in Inside /\ HostOf(q) = h
        BY <4>1 DEF LifecycleInv, LocksReturned
      <4> QED BY <1>3, <3>2, <4>2
    <3> QED BY <3>1, <3>2
  <2> QED BY <2>1, <2>2 DEF TakesLock
<1>9. PortServed'
  BY <1>1, <1>2 DEF LifecycleInv, PortServed, TakesPort
<1>10. Stopped'
  <2>1. /\ \A q \in Procs : target[q] \in Procs \cup Clients \cup {NoProc}
        /\ \A q \in Procs : \A r \in signalled[q] : r \in Procs \cup Clients
    BY DEF LifecycleInv, ProcessTypes
  <2>2. target' = target /\ signalled' = signalled /\ pc[p] \notin {"draining", "dead"}
    BY DEF GoesTo
  <2>3. ASSUME NEW q \in Procs
        PROVE  /\ pc'[q] \in {"stop", "find", "wait"} => back'[q] # ""
               /\ pc'[q] = "wait" => target[q] # NoProc /\ pc'[target[q]] \in {"draining", "dead"}
    <3>1. CASE q = p
      BY <1>2, <3>1 DEF KeepsBack
    <3>2. CASE q # p
      BY <1>2, <2>1, <2>2, <3>2 DEF LifecycleInv, Stopped, KeepsBack
    <3> QED BY <3>1, <3>2
  <2>4. ASSUME NEW q \in Procs, NEW r \in signalled[q]
        PROVE  pc'[r] = "dead" \/ pc'[q] = "dead" \/ (pc'[q] = "wait" /\ r = target[q])
    <3>1. pc[r] = "dead" \/ pc[q] = "dead" \/ (pc[q] = "wait" /\ r = target[q])
      BY DEF LifecycleInv, Stopped
    <3>2. pc[r] = "dead" => pc'[r] = "dead"
      BY <1>2, <2>1, <2>2
    <3>3. CASE q = p
      BY <1>2, <2>2, <3>1, <3>2, <3>3 DEF KeepsBack
    <3>4. CASE q # p
      BY <1>2, <3>1, <3>2, <3>4
    <3> QED BY <3>3, <3>4
  <2> QED BY <2>2, <2>3, <2>4 DEF Stopped
<1> QED BY <1>5, <1>7, <1>8, <1>9, <1>10 DEF LifecycleInv

\* Processes end: what they held is free, the others stay where they were.
LEMMA LocksFollow ==
    ASSUME LifecycleInv, NEW D, launch' = launch,
           lock' = [h \in Hosts |-> IF lock[h] \in D THEN NoProc ELSE lock[h]],
           \A q \in Procs : q \in Inside' <=> q \in Inside /\ q \notin D
    PROVE  LocksHeld' /\ LocksReturned' /\ lock' \in [Hosts -> Procs \cup {NoProc}]
<1>1. /\ lock \in [Hosts -> Procs \cup {NoProc}] /\ NoProc \notin Procs
      /\ \A q \in DOMAIN launch.host : HostOf(q) \in Hosts
      /\ \A q : HostOf(q)' = HostOf(q)
  BY Launched, LifecycleAssumption DEF LifecycleInv, ProcessTypes, HostOf
<1>2. LocksHeld'
  <2> SUFFICES ASSUME NEW q \in Inside' PROVE q \in DOMAIN launch.host /\ lock'[HostOf(q)] = q
    BY <1>1 DEF LocksHeld
  <2>1. q \in Procs /\ q \in Inside /\ q \notin D
    BY DEF Inside
  <2>2. q \in DOMAIN launch.host /\ lock[HostOf(q)] = q
    BY <2>1 DEF LifecycleInv, LocksHeld
  <2> QED BY <1>1, <2>1, <2>2
<1>3. LocksReturned'
  <2> SUFFICES ASSUME NEW h \in Hosts, NEW q \in Procs, lock'[h] = q PROVE q \in Inside' /\ HostOf(q) = h
    BY <1>1 DEF LocksReturned
  <2>1. lock[h] = q /\ q \notin D
    BY <1>1
  <2> QED BY <2>1 DEF LifecycleInv, LocksReturned
<1> QED BY <1>1, <1>2, <1>3

\* A process ends, by itself or in a crash.
LEMMA Ends ==
    ASSUME LifecycleInv, NEW p \in DOMAIN launch.host, Exit(p),
           UNCHANGED <<launch, payload, connected, back, target, signalled>>,
           port' = IF port = p THEN NoProc ELSE port
    PROVE  LifecycleInv'
<1>1. p \in Procs /\ p \notin Clients /\ NoProc \notin Procs /\ Other \notin Procs
  BY Launched, LifecycleAssumption DEF LifecycleInv
<1>2. /\ pc'[p] = "dead" /\ \A q \in (Procs \cup Clients) \ {p} : pc'[q] = pc[q]
      /\ pc' \in [Procs \cup Clients -> Stages]
  BY <1>1 DEF Exit, Goto, LifecycleInv, ProcessTypes, Stages
<1>3. \A q \in Procs : q \in Inside' <=> q \in Inside /\ q \notin {p}
  BY <1>2 DEF Inside
<1>4. lock' = [h \in Hosts |-> IF lock[h] \in {p} THEN NoProc ELSE lock[h]]
  BY DEF Exit, Freed
<1>5. LocksHeld' /\ LocksReturned' /\ lock' \in [Hosts -> Procs \cup {NoProc}]
  BY <1>3, <1>4, LocksFollow, Zenon
<1>6. ProcessTypes'
  BY <1>1, <1>2, <1>5 DEF LifecycleInv, ProcessTypes
<1>7. PortServed'
  BY <1>1, <1>2 DEF LifecycleInv, PortServed
<1>8. Stopped'
  <2>1. /\ \A q \in Procs : target[q] \in Procs \cup Clients \cup {NoProc}
        /\ \A q \in Procs : \A r \in signalled[q] : r \in Procs \cup Clients
    BY DEF LifecycleInv, ProcessTypes
  <2>2. \A r \in Procs \cup Clients : pc'[r] = "dead" \/ (r # p /\ pc'[r] = pc[r])
    BY <1>2
  <2>3. ASSUME NEW q \in Procs
        PROVE  /\ pc'[q] \in {"stop", "find", "wait"} => back[q] # ""
               /\ pc'[q] = "wait" => target[q] # NoProc /\ pc'[target[q]] \in {"draining", "dead"}
    BY <2>1, <2>2 DEF LifecycleInv, Stopped
  <2>4. ASSUME NEW q \in Procs, NEW r \in signalled[q]
        PROVE  pc'[r] = "dead" \/ pc'[q] = "dead" \/ (pc'[q] = "wait" /\ r = target[q])
    <3>1. pc[r] = "dead" \/ pc[q] = "dead" \/ (pc[q] = "wait" /\ r = target[q])
      BY DEF LifecycleInv, Stopped
    <3> QED BY <2>1, <2>2, <3>1
  <2> QED BY <2>3, <2>4 DEF Stopped
<1> QED BY <1>5, <1>6, <1>7, <1>8 DEF LifecycleInv

---------------------------------------------------------------------------
(* Steps that touch another process *)

LEMMA SignalStep ==
    ASSUME LifecycleInv, NEW p \in DOMAIN launch.host, Signal(p)
    PROVE  LifecycleInv'
<1>1. p \in Procs /\ NoProc \notin Procs \cup Clients /\ Other \notin Procs \cup Clients /\ Clients \cap Procs = {}
  BY Launched, LifecycleAssumption DEF LifecycleInv
<1>2. pc[p] = "find" /\ UNCHANGED <<launch, payload, back>>
  BY DEF Signal
<1>3. CASE OnPort = {} /\ Exit(p) /\ UNCHANGED <<port, connected, target, signalled>>
  <2>1. port # p
    BY <1>1, <1>2 DEF LifecycleInv, PortServed
  <2> QED BY <1>2, <1>3, <2>1, Ends
<1>4. ASSUME NEW t \in OnPort \ {Other},
             /\ target' = [target EXCEPT ![p] = t]
             /\ signalled' = [signalled EXCEPT ![p] = @ \cup {t}]
             /\ pc' = [pc EXCEPT ![p] = "wait", ![t] = IF t \in Clients THEN "dead" ELSE "draining"]
             /\ port' = IF port = t THEN NoProc ELSE port
             /\ connected' = connected \ {t}
             /\ UNCHANGED lock
      PROVE  LifecycleInv'
  <2>1. /\ t \in Procs \cup Clients
        /\ t \in Procs => pc[t] \in {"serving", "draining"}
        /\ t \in Procs => (port = t <=> pc[t] = "serving")
    BY <1>1 DEF OnPort, LifecycleInv, ProcessTypes, PortServed
  <2>2. t # p
    BY <1>1, <1>2, <2>1
  <2>3. /\ pc'[p] = "wait" /\ pc'[t] = (IF t \in Clients THEN "dead" ELSE "draining")
        /\ \A q \in (Procs \cup Clients) \ {p, t} : pc'[q] = pc[q]
        /\ pc' \in [Procs \cup Clients -> Stages]
    <3> DEFINE end == IF t \in Clients THEN "dead" ELSE "draining"
    <3>1. /\ pc \in [Procs \cup Clients -> Stages] /\ {"wait", end} \subseteq Stages
          /\ pc' = [pc EXCEPT ![p] = "wait", ![t] = end]
      BY <1>4 DEF LifecycleInv, ProcessTypes, Stages
    <3> HIDE DEF end
    <3>2. /\ pc'[p] = "wait" /\ pc'[t] = end
          /\ \A q \in (Procs \cup Clients) \ {p, t} : pc'[q] = pc[q]
          /\ pc' \in [Procs \cup Clients -> Stages]
      BY <1>1, <2>1, <2>2, <3>1
    <3> QED BY <3>2 DEF end
  <2>4. \A q \in Procs : q \in Inside' <=> q \in Inside
    BY <1>1, <1>2, <2>1, <2>3 DEF Inside
  <2>5. lock' = [h \in Hosts |-> lock[h]] /\ launch' = launch
    BY <1>2, <1>4 DEF LifecycleInv, ProcessTypes
  <2>6. LocksHeld' /\ LocksReturned' /\ lock' \in [Hosts -> Procs \cup {NoProc}]
    <3> DEFINE ended == {}
    <3>1. /\ \A q \in Procs : q \in Inside' <=> q \in Inside /\ q \notin ended
          /\ lock' = [h \in Hosts |-> IF lock[h] \in ended THEN NoProc ELSE lock[h]]
      BY <2>4, <2>5
    <3> HIDE DEF ended
    <3> QED BY <2>5, <3>1, LocksFollow, Zenon
  <2>7. ProcessTypes'
    <3>1. target' \in [Procs -> Procs \cup Clients \cup {NoProc}] /\ connected' \subseteq Clients
      <4>1. target \in [Procs -> Procs \cup Clients \cup {NoProc}] /\ connected \subseteq Clients
        BY DEF LifecycleInv, ProcessTypes
      <4> QED BY <1>1, <1>4, <2>1, <4>1
    <3>2. signalled' \in [Procs -> SUBSET (Procs \cup Clients)]
      <4>1. signalled \in [Procs -> SUBSET (Procs \cup Clients)]
        BY DEF LifecycleInv, ProcessTypes
      <4>2. signalled[p] \cup {t} \in SUBSET (Procs \cup Clients)
        BY <1>1, <2>1, <4>1
      <4> QED BY <1>1, <1>4, <4>1, <4>2
    <3>3. port' \in Procs \cup {NoProc, Other}
      BY <1>4 DEF LifecycleInv, ProcessTypes
    <3>4. /\ \A q \in Procs : pc'[q] # "client"
          /\ \A c \in Clients : pc'[c] \in {"client", "dead"}
      BY <1>1, <2>1, <2>3 DEF LifecycleInv, ProcessTypes
    <3> QED BY <1>2, <2>3, <2>6, <3>1, <3>2, <3>3, <3>4 DEF LifecycleInv, ProcessTypes
  <2>8. PortServed'
    BY <1>1, <1>2, <1>4, <2>1, <2>2, <2>3 DEF LifecycleInv, PortServed
  <2>9. Stopped'
    <3>1. /\ \A q \in Procs : target[q] \in Procs \cup Clients \cup {NoProc}
          /\ \A q \in Procs : \A r \in signalled[q] : r \in Procs \cup Clients
      BY DEF LifecycleInv, ProcessTypes
    <3>2. /\ target'[p] = t /\ signalled'[p] = signalled[p] \cup {t}
          /\ \A q \in Procs \ {p} : target'[q] = target[q] /\ signalled'[q] = signalled[q]
      BY <1>1, <1>4 DEF LifecycleInv, ProcessTypes
    <3>3. \A r \in Procs \cup Clients : pc[r] \in {"draining", "dead"} => r # p /\ (pc[r] = "dead" => pc'[r] = "dead" \/ r = t)
                                             /\ pc'[r] \in {"draining", "dead"}
      BY <1>2, <2>3
    <3>4. t \in Procs => pc[t] # "dead"
      BY <2>1
    <3>5. ASSUME NEW q \in Procs
          PROVE  /\ pc'[q] \in {"stop", "find", "wait"} => back[q] # ""
                 /\ pc'[q] = "wait" => target'[q] # NoProc /\ pc'[target'[q]] \in {"draining", "dead"}
      <4>1. CASE q = p
        <5>1. back[p] # ""
          BY <1>1, <1>2 DEF LifecycleInv, Stopped
        <5>2. target'[p] = t /\ t # NoProc /\ pc'[t] \in {"draining", "dead"}
          BY <1>1, <2>1, <2>3, <3>2
        <5> QED BY <4>1, <5>1, <5>2
      <4>2. CASE q = t
        BY <1>1, <2>3, <4>2
      <4>3. CASE q \notin {p, t}
        <5>1. pc'[q] = pc[q] /\ target'[q] = target[q]
          BY <2>3, <3>2, <4>3
        <5> QED BY <3>1, <3>3, <5>1 DEF LifecycleInv, Stopped
      <4> QED BY <4>1, <4>2, <4>3
    <3>6. ASSUME NEW q \in Procs, NEW r \in signalled'[q]
          PROVE  pc'[r] = "dead" \/ pc'[q] = "dead" \/ (pc'[q] = "wait" /\ r = target'[q])
      <4>1. CASE r = t /\ q = p
        BY <2>3, <3>2, <4>1
      <4>2. CASE ~(r = t /\ q = p)
        <5>1. r \in signalled[q]
          BY <3>2, <4>2
        <5>2. pc[r] = "dead" \/ pc[q] = "dead" \/ (pc[q] = "wait" /\ r = target[q])
          BY <5>1 DEF LifecycleInv, Stopped
        <5> QED BY <1>1, <1>2, <2>1, <2>2, <2>3, <3>1, <3>2, <3>4, <4>2, <5>1, <5>2
      <4> QED BY <4>1, <4>2
    <3> QED BY <1>2, <3>5, <3>6 DEF Stopped
  <2> QED BY <2>6, <2>7, <2>8, <2>9 DEF LifecycleInv
<1> QED BY <1>3, <1>4 DEF Signal

LEMMA EscalateStep ==
    ASSUME LifecycleInv, NEW p \in DOMAIN launch.host, Escalate(p)
    PROVE  LifecycleInv'
<1> DEFINE t == target[p]
           then == IF port = NoProc THEN back[p] ELSE "dead"
           ended == IF port = NoProc THEN {t} ELSE {p, t}
<1>1. /\ p \in Procs /\ p \notin Clients /\ NoProc \notin Procs \cup Clients
      /\ Other \notin Procs \cup Clients /\ Clients \cap Procs = {}
  BY Launched, LifecycleAssumption DEF LifecycleInv
<1>2. /\ pc[p] = "wait" /\ t \in Procs \cup Clients
      /\ pc[t] \in {"draining", "dead"} /\ back[p] \in {"lock", "bind"}
      /\ UNCHANGED <<launch, payload, port, connected, back, target, signalled>>
  BY <1>1 DEF Escalate, LifecycleInv, Stopped, ProcessTypes
<1>3. /\ pc' = [pc EXCEPT ![t] = "dead", ![p] = then]
      /\ lock' = [h \in Hosts |-> IF lock[h] = t \/ (lock[h] = p /\ port # NoProc) THEN NoProc ELSE lock[h]]
  BY DEF Escalate
<1>4. t # p
  BY <1>2
<1>5. /\ pc'[p] = then /\ pc'[t] = "dead"
      /\ \A q \in (Procs \cup Clients) \ {p, t} : pc'[q] = pc[q]
      /\ pc' \in [Procs \cup Clients -> Stages]
  <2>1. pc \in [Procs \cup Clients -> Stages] /\ {"dead", then} \subseteq Stages
    BY <1>2 DEF LifecycleInv, ProcessTypes, Stages
  <2> HIDE DEF t, then
  <2> QED BY <1>1, <1>2, <1>3, <1>4, <2>1
<1>6. port # p /\ port # t
  BY <1>1, <1>2 DEF LifecycleInv, PortServed, ProcessTypes
<1>7. LocksHeld' /\ LocksReturned' /\ lock' \in [Hosts -> Procs \cup {NoProc}]
  <2>1. \A q \in Procs : q \in Inside' <=> q \in Inside /\ q \notin ended
    BY <1>1, <1>2, <1>4, <1>5 DEF Inside
  <2>2. lock' = [h \in Hosts |-> IF lock[h] \in ended THEN NoProc ELSE lock[h]]
    BY <1>3
  <2>3. launch' = launch
    BY <1>2
  <2> HIDE DEF ended
  <2> QED BY <2>1, <2>2, <2>3, LocksFollow, Zenon
<1>8. ProcessTypes'
  <2>1. /\ \A q \in Procs : pc'[q] # "client"
        /\ \A c \in Clients : pc'[c] \in {"client", "dead"}
    <3>1. /\ \A q \in Procs : pc[q] # "client"
          /\ \A x \in Clients : pc[x] \in {"client", "dead"}
      BY DEF LifecycleInv, ProcessTypes
    <3>2. then \in {"lock", "bind", "dead"}
      BY <1>2
    <3> HIDE DEF t, then
    <3> QED BY <1>1, <1>5, <3>1, <3>2
  <2> QED BY <1>2, <1>5, <1>7, <2>1 DEF LifecycleInv, ProcessTypes
<1>9. PortServed'
  <2>1. pc'[p] # "serving" /\ pc'[t] # "serving" /\ pc[p] # "serving" /\ pc[t] # "serving"
    BY <1>2, <1>5
  <2> QED BY <1>2, <1>5, <1>6, <2>1 DEF LifecycleInv, PortServed
<1>10. Stopped'
  <2>1. /\ \A q \in Procs : target[q] \in Procs \cup Clients \cup {NoProc}
        /\ \A q \in Procs : \A r \in signalled[q] : r \in Procs \cup Clients
    BY DEF LifecycleInv, ProcessTypes
  <2>2. \A r \in Procs \cup Clients : pc'[r] = "dead" \/ (r = p /\ pc'[r] \in {"lock", "bind"}) \/ (r # p /\ pc'[r] = pc[r])
    BY <1>2, <1>5
  <2>3. ASSUME NEW q \in Procs
        PROVE  /\ pc'[q] \in {"stop", "find", "wait"} => back[q] # ""
               /\ pc'[q] = "wait" => target[q] # NoProc /\ pc'[target[q]] \in {"draining", "dead"}
    BY <1>2, <2>1, <2>2 DEF LifecycleInv, Stopped
  <2>4. ASSUME NEW q \in Procs, NEW r \in signalled[q]
        PROVE  pc'[r] = "dead" \/ pc'[q] = "dead" \/ (pc'[q] = "wait" /\ r = target[q])
    <3>1. pc[r] = "dead" \/ pc[q] = "dead" \/ (pc[q] = "wait" /\ r = target[q])
      BY DEF LifecycleInv, Stopped
    <3> QED BY <1>2, <1>5, <2>1, <2>2, <3>1
  <2> QED BY <1>2, <2>3, <2>4 DEF Stopped
<1> QED BY <1>7, <1>8, <1>9, <1>10 DEF LifecycleInv

LEMMA AppRestartStep ==
    ASSUME LifecycleInv, NEW p \in DOMAIN launch.host, AppRestart(p)
    PROVE  LifecycleInv'
<1> DEFINE c == launch.child
<1>1. /\ p \in Procs /\ p \notin Clients /\ NoProc \notin Procs \cup Clients
      /\ Other \notin Procs \cup Clients /\ Clients \cap Procs = {} /\ c \in Procs \cup {NoProc}
  BY Launched, LifecycleAssumption DEF LifecycleInv
<1>2. /\ pc[c] = "idle" /\ port' = (IF port \in Procs THEN NoProc ELSE port)
      /\ UNCHANGED <<launch, payload, connected, back, target, signalled>>
      /\ lock' = [h \in Hosts |-> IF lock[h] \in {port} THEN NoProc ELSE lock[h]]
  BY DEF AppRestart, Freed
<1>3. /\ \A q \in Procs \cup Clients :
            pc'[q] = (IF q = port THEN "dead" ELSE IF q = c THEN "lock" ELSE pc[q])
      /\ pc' \in [Procs \cup Clients -> Stages]
  BY DEF AppRestart, LifecycleInv, ProcessTypes, Stages
<1>4. \A q \in Procs : q = port <=> pc[q] = "serving"
  BY DEF LifecycleInv, PortServed
<1>5. LocksHeld' /\ LocksReturned' /\ lock' \in [Hosts -> Procs \cup {NoProc}]
  <2>1. \A q \in Procs : q \in Inside' <=> q \in Inside /\ q \notin {port}
    BY <1>2, <1>3, <1>4 DEF Inside
  <2>2. launch' = launch
    BY <1>2
  <2> QED BY <1>2, <2>1, <2>2, LocksFollow, Zenon
<1>6. ProcessTypes'
  <2>1. /\ \A q \in Procs : pc'[q] # "client"
        /\ \A x \in Clients : pc'[x] \in {"client", "dead"}
    <3>1. \A x \in Clients : x # c
      BY <1>1
    <3>2. /\ \A q \in Procs : pc[q] # "client"
          /\ \A x \in Clients : pc[x] \in {"client", "dead"}
      BY DEF LifecycleInv, ProcessTypes
    <3> QED BY <1>3, <3>1, <3>2
  <2> QED BY <1>2, <1>3, <1>5, <2>1 DEF LifecycleInv, ProcessTypes
<1>7. PortServed'
  <2>1. port' \notin Procs
    BY <1>1, <1>2
  <2>2. \A q \in Procs : pc'[q] # "serving"
    BY <1>3, <1>4
  <2> QED BY <2>1, <2>2 DEF PortServed
<1>8. Stopped'
  <2>1. /\ \A q \in Procs : target[q] \in Procs \cup Clients \cup {NoProc}
        /\ \A q \in Procs : \A r \in signalled[q] : r \in Procs \cup Clients
    BY DEF LifecycleInv, ProcessTypes
  <2>2. \A r \in Procs \cup Clients :
           pc'[r] = "dead" \/ (pc[r] = "idle" /\ pc'[r] = "lock") \/ pc'[r] = pc[r]
    BY <1>2, <1>3
  <2>3. ASSUME NEW q \in Procs
        PROVE  /\ pc'[q] \in {"stop", "find", "wait"} => back[q] # ""
               /\ pc'[q] = "wait" => target[q] # NoProc /\ pc'[target[q]] \in {"draining", "dead"}
    BY <2>1, <2>2 DEF LifecycleInv, Stopped
  <2>4. ASSUME NEW q \in Procs, NEW r \in signalled[q]
        PROVE  pc'[r] = "dead" \/ pc'[q] = "dead" \/ (pc'[q] = "wait" /\ r = target[q])
    <3>1. pc[r] = "dead" \/ pc[q] = "dead" \/ (pc[q] = "wait" /\ r = target[q])
      BY DEF LifecycleInv, Stopped
    <3> QED BY <2>1, <2>2, <3>1
  <2> QED BY <1>2, <2>3, <2>4 DEF Stopped
<1> QED BY <1>5, <1>6, <1>7, <1>8 DEF LifecycleInv

---------------------------------------------------------------------------
(* The invariant *)

LEMMA LifecycleStep == LifecycleInv /\ [LifecycleNext]_lifecycleVars => LifecycleInv'
<1> SUFFICES ASSUME LifecycleInv, [LifecycleNext]_lifecycleVars PROVE LifecycleInv'
  OBVIOUS
<1>0. /\ \A p \in DOMAIN launch.host : p \in Procs /\ HostOf(p) \in Hosts
      /\ pc \in [Procs \cup Clients -> Stages] /\ back \in [Procs -> {"", "lock", "bind"}]
      /\ lock \in [Hosts -> Procs \cup {NoProc}] /\ payload \in [Hosts -> Procs \cup {NoProc}]
      /\ \A p \in Procs : port = p <=> pc[p] = "serving"
      /\ \A p \in Procs : pc[p] \in {"stop", "find", "wait"} => back[p] # ""
  BY Launched DEF LifecycleInv, ProcessTypes, PortServed, Stopped
\* Steps of one process, to its end or on to x.
<1>1. ASSUME NEW p \in DOMAIN launch.host, Exit(p), pc[p] # "serving",
             UNCHANGED <<launch, payload, port, connected, back, target, signalled>>
      PROVE  LifecycleInv'
  <2>1. port' = IF port = p THEN NoProc ELSE port
    BY <1>0, <1>1
  <2> QED BY <1>1, <2>1, Ends
<1>2. ASSUME NEW p \in DOMAIN launch.host, NEW x \in Stages \ {"dead", "client", "wait"}, Goto(p, x),
             pc[p] \notin {"draining", "dead"}, UNCHANGED <<launch, connected, target, signalled>>,
             payload' \in [Hosts -> Procs \cup {NoProc}]
      PROVE  GoesTo(p, x) /\ pc'[p] = x
  BY <1>0, <1>2 DEF GoesTo, Goto
<1>3. ASSUME NEW p \in DOMAIN launch.host, Start(p) PROVE LifecycleInv'
  <2>1. GoesTo(p, "lock") /\ pc'[p] = "lock" /\ "lock" \in Stages \ {"dead", "client", "wait"}
    BY <1>0, <1>2, <1>3 DEF Start, Stages
  <2>2. KeepsBack(p)
    BY <1>0, <2>1, <1>3 DEF Start, KeepsBack
  <2>3. TakesLock(p)
    BY <1>0, <2>1, <1>3 DEF Start, TakesLock, Inside
  <2>4. TakesPort(p)
    BY <1>0, <2>1, <1>3 DEF Start, TakesPort
  <2> QED BY <2>1, <2>2, <2>3, <2>4, GoesOn
<1>4. ASSUME NEW p \in DOMAIN launch.host, TryLock(p) PROVE LifecycleInv'
  <2>1. CASE lock[HostOf(p)] = NoProc
    <3>1. GoesTo(p, "write") /\ pc'[p] = "write" /\ "write" \in Stages \ {"dead", "client", "wait"}
      BY <1>0, <1>2, <1>4, <2>1 DEF TryLock, Stages
    <3>2. KeepsBack(p)
      BY <1>0, <3>1, <1>4, <2>1 DEF TryLock, KeepsBack
    <3>3. TakesLock(p)
      BY <1>0, <3>1, <1>4, <2>1 DEF TryLock, TakesLock, Inside
    <3>4. TakesPort(p)
      BY <1>0, <3>1, <1>4, <2>1 DEF TryLock, TakesPort
    <3> QED BY <3>1, <3>2, <3>3, <3>4, GoesOn
  <2>2. CASE lock[HostOf(p)] # NoProc
    <3>1. GoesTo(p, "read") /\ pc'[p] = "read" /\ "read" \in Stages \ {"dead", "client", "wait"}
      BY <1>0, <1>2, <1>4, <2>2 DEF TryLock, Stages
    <3>2. KeepsBack(p)
      BY <1>0, <3>1, <1>4, <2>2 DEF TryLock, KeepsBack
    <3>3. TakesLock(p)
      BY <1>0, <3>1, <1>4, <2>2 DEF TryLock, TakesLock, Inside
    <3>4. TakesPort(p)
      BY <1>0, <3>1, <1>4, <2>2 DEF TryLock, TakesPort
    <3> QED BY <3>1, <3>2, <3>3, <3>4, GoesOn
  <2> QED BY <2>1, <2>2
<1>5. ASSUME NEW p \in DOMAIN launch.host, ReadPayload(p) PROVE LifecycleInv'
  <2>1. CASE payload[HostOf(p)] # NoProc /\ Alive(payload[HostOf(p)])
    <3>1. GoesTo(p, "held") /\ pc'[p] = "held" /\ "held" \in Stages \ {"dead", "client", "wait"}
      BY <1>0, <1>2, <1>5, <2>1 DEF ReadPayload, Stages
    <3>2. KeepsBack(p)
      BY <1>0, <3>1, <1>5, <2>1 DEF ReadPayload, KeepsBack
    <3>3. TakesLock(p)
      BY <1>0, <3>1, <1>5, <2>1 DEF ReadPayload, TakesLock, Inside
    <3>4. TakesPort(p)
      BY <1>0, <3>1, <1>5, <2>1 DEF ReadPayload, TakesPort
    <3> QED BY <3>1, <3>2, <3>3, <3>4, GoesOn
  <2>2. CASE ~(payload[HostOf(p)] # NoProc /\ Alive(payload[HostOf(p)]))
    <3>1. GoesTo(p, "retry") /\ pc'[p] = "retry" /\ "retry" \in Stages \ {"dead", "client", "wait"}
      BY <1>0, <1>2, <1>5, <2>2 DEF ReadPayload, Stages
    <3>2. KeepsBack(p)
      BY <1>0, <3>1, <1>5, <2>2 DEF ReadPayload, KeepsBack
    <3>3. TakesLock(p)
      BY <1>0, <3>1, <1>5, <2>2 DEF ReadPayload, TakesLock, Inside
    <3>4. TakesPort(p)
      BY <1>0, <3>1, <1>5, <2>2 DEF ReadPayload, TakesPort
    <3> QED BY <3>1, <3>2, <3>3, <3>4, GoesOn
  <2> QED BY <2>1, <2>2
<1>6. ASSUME NEW p \in DOMAIN launch.host, RetryLock(p) PROVE LifecycleInv'
  <2>1. CASE lock[HostOf(p)] = NoProc
    <3>1. GoesTo(p, "write") /\ pc'[p] = "write" /\ "write" \in Stages \ {"dead", "client", "wait"}
      BY <1>0, <1>2, <1>6, <2>1 DEF RetryLock, Stages
    <3>2. KeepsBack(p)
      BY <1>0, <3>1, <1>6, <2>1 DEF RetryLock, KeepsBack
    <3>3. TakesLock(p)
      BY <1>0, <3>1, <1>6, <2>1 DEF RetryLock, TakesLock, Inside
    <3>4. TakesPort(p)
      BY <1>0, <3>1, <1>6, <2>1 DEF RetryLock, TakesPort
    <3> QED BY <3>1, <3>2, <3>3, <3>4, GoesOn
  <2>2. CASE lock[HostOf(p)] # NoProc
    <3>1. GoesTo(p, "held") /\ pc'[p] = "held" /\ "held" \in Stages \ {"dead", "client", "wait"}
      BY <1>0, <1>2, <1>6, <2>2 DEF RetryLock, Stages
    <3>2. KeepsBack(p)
      BY <1>0, <3>1, <1>6, <2>2 DEF RetryLock, KeepsBack
    <3>3. TakesLock(p)
      BY <1>0, <3>1, <1>6, <2>2 DEF RetryLock, TakesLock, Inside
    <3>4. TakesPort(p)
      BY <1>0, <3>1, <1>6, <2>2 DEF RetryLock, TakesPort
    <3> QED BY <3>1, <3>2, <3>3, <3>4, GoesOn
  <2> QED BY <2>1, <2>2
<1>7. ASSUME NEW p \in DOMAIN launch.host, WritePayload(p) PROVE LifecycleInv'
  <2>1. GoesTo(p, "check") /\ pc'[p] = "check" /\ "check" \in Stages \ {"dead", "client", "wait"}
    BY <1>0, <1>2, <1>7 DEF WritePayload, Stages
  <2>2. KeepsBack(p)
    BY <1>0, <2>1, <1>7 DEF WritePayload, KeepsBack
  <2>3. TakesLock(p)
    BY <1>0, <2>1, <1>7 DEF WritePayload, TakesLock, Inside
  <2>4. TakesPort(p)
    BY <1>0, <2>1, <1>7 DEF WritePayload, TakesPort
  <2> QED BY <2>1, <2>2, <2>3, <2>4, GoesOn
<1>8. ASSUME NEW p \in DOMAIN launch.host, LockHeld(p) PROVE LifecycleInv'
  <2>1. CASE launch.replace[p] /\ back[p] # "lock"
    <3>1. GoesTo(p, "stop") /\ pc'[p] = "stop" /\ "stop" \in Stages \ {"dead", "client", "wait"}
      BY <1>0, <1>2, <1>8, <2>1 DEF LockHeld, Stages
    <3>2. KeepsBack(p)
      BY <1>0, <3>1, <1>8, <2>1 DEF LockHeld, KeepsBack
    <3>3. TakesLock(p)
      BY <1>0, <3>1, <1>8, <2>1 DEF LockHeld, TakesLock, Inside
    <3>4. TakesPort(p)
      BY <1>0, <3>1, <1>8, <2>1 DEF LockHeld, TakesPort
    <3> QED BY <3>1, <3>2, <3>3, <3>4, GoesOn
  <2>2. CASE ~(launch.replace[p] /\ back[p] # "lock")
    BY <1>1, <1>8, <2>2 DEF LockHeld
  <2> QED BY <2>1, <2>2
<1>9. ASSUME NEW p \in DOMAIN launch.host, Check(p) PROVE LifecycleInv'
  <2>1. CASE port = NoProc
    <3>1. GoesTo(p, "bind") /\ pc'[p] = "bind" /\ "bind" \in Stages \ {"dead", "client", "wait"}
      BY <1>0, <1>2, <1>9, <2>1 DEF Check, Stages
    <3>2. KeepsBack(p)
      BY <1>0, <3>1, <1>9, <2>1 DEF Check, KeepsBack
    <3>3. TakesLock(p)
      BY <1>0, <3>1, <1>9, <2>1 DEF Check, TakesLock, Inside
    <3>4. TakesPort(p)
      BY <1>0, <3>1, <1>9, <2>1 DEF Check, TakesPort
    <3> QED BY <3>1, <3>2, <3>3, <3>4, GoesOn
  <2>2. CASE port # NoProc /\ (port = Other \/ ~launch.replace[p])
    BY <1>1, <1>9, <2>2 DEF Check
  <2>3. CASE port \notin {NoProc, Other} /\ launch.replace[p] /\ launch.app[p]
    <3>1. GoesTo(p, "app") /\ pc'[p] = "app" /\ "app" \in Stages \ {"dead", "client", "wait"}
      BY <1>0, <1>2, <1>9, <2>3 DEF Check, Stages
    <3>2. KeepsBack(p)
      BY <1>0, <3>1, <1>9, <2>3 DEF Check, KeepsBack
    <3>3. TakesLock(p)
      BY <1>0, <3>1, <1>9, <2>3 DEF Check, TakesLock, Inside
    <3>4. TakesPort(p)
      BY <1>0, <3>1, <1>9, <2>3 DEF Check, TakesPort
    <3> QED BY <3>1, <3>2, <3>3, <3>4, GoesOn
  <2>4. CASE port \notin {NoProc, Other} /\ launch.replace[p] /\ ~launch.app[p]
    <3>1. GoesTo(p, "stop") /\ pc'[p] = "stop" /\ "stop" \in Stages \ {"dead", "client", "wait"}
      BY <1>0, <1>2, <1>9, <2>4 DEF Check, Stages
    <3>2. KeepsBack(p)
      BY <1>0, <3>1, <1>9, <2>4 DEF Check, KeepsBack
    <3>3. TakesLock(p)
      BY <1>0, <3>1, <1>9, <2>4 DEF Check, TakesLock, Inside
    <3>4. TakesPort(p)
      BY <1>0, <3>1, <1>9, <2>4 DEF Check, TakesPort
    <3> QED BY <3>1, <3>2, <3>3, <3>4, GoesOn
  <2> QED BY <2>1, <2>2, <2>3, <2>4
<1>10. ASSUME NEW p \in DOMAIN launch.host, StopProbe(p) PROVE LifecycleInv'
  <2>1. CASE port \in Procs
    <3>1. GoesTo(p, "find") /\ pc'[p] = "find" /\ "find" \in Stages \ {"dead", "client", "wait"}
      BY <1>0, <1>2, <1>10, <2>1 DEF StopProbe, Stages
    <3>2. KeepsBack(p)
      BY <1>0, <3>1, <1>10, <2>1 DEF StopProbe, KeepsBack
    <3>3. TakesLock(p)
      BY <1>0, <3>1, <1>10, <2>1 DEF StopProbe, TakesLock, Inside
    <3>4. TakesPort(p)
      BY <1>0, <3>1, <1>10, <2>1 DEF StopProbe, TakesPort
    <3> QED BY <3>1, <3>2, <3>3, <3>4, GoesOn
  <2>2. CASE port \notin Procs
    BY <1>1, <1>10, <2>2 DEF StopProbe
  <2> QED BY <2>1, <2>2
<1>11. ASSUME NEW p \in DOMAIN launch.host, Signal(p) PROVE LifecycleInv'
  BY <1>11, SignalStep
<1>12. ASSUME NEW p \in DOMAIN launch.host, StopWait(p) PROVE LifecycleInv'
  <2>1. GoesTo(p, back[p]) /\ pc'[p] = back[p] /\ back[p] \in Stages \ {"dead", "client", "wait"}
    BY <1>0, <1>2, <1>12 DEF StopWait, Stages
  <2>2. KeepsBack(p)
    <3>1. pc[target[p]] = "dead"
      BY <1>0, <1>12 DEF StopWait, Alive, LifecycleInv, Stopped
    <3> QED BY <1>0, <2>1, <1>12, <3>1 DEF StopWait, KeepsBack
  <2>3. TakesLock(p)
    BY <1>0, <2>1, <1>12 DEF StopWait, TakesLock, Inside
  <2>4. TakesPort(p)
    BY <1>0, <2>1, <1>12 DEF StopWait, TakesPort
  <2> QED BY <2>1, <2>2, <2>3, <2>4, GoesOn
<1>13. ASSUME NEW p \in DOMAIN launch.host, Escalate(p) PROVE LifecycleInv'
  BY <1>13, EscalateStep
<1>14. ASSUME NEW p \in DOMAIN launch.host, AppRestart(p) PROVE LifecycleInv'
  BY <1>14, AppRestartStep
<1>15. ASSUME NEW p \in DOMAIN launch.host, AppAnswered(p) PROVE LifecycleInv'
  BY <1>1, <1>15 DEF AppAnswered
<1>16. ASSUME NEW p \in DOMAIN launch.host, Bind(p) PROVE LifecycleInv'
  <2>1. CASE port = NoProc
    <3>1. GoesTo(p, "serving") /\ pc'[p] = "serving" /\ "serving" \in Stages \ {"dead", "client", "wait"}
      BY <1>0, <1>2, <1>16, <2>1 DEF Bind, Stages
    <3>2. KeepsBack(p)
      BY <1>0, <3>1, <1>16, <2>1 DEF Bind, KeepsBack
    <3>3. TakesLock(p)
      BY <1>0, <3>1, <1>16, <2>1 DEF Bind, TakesLock, Inside
    <3>4. TakesPort(p)
      BY <1>0, <3>1, <1>16, <2>1 DEF Bind, TakesPort
    <3> QED BY <3>1, <3>2, <3>3, <3>4, GoesOn
  <2>2. CASE port # NoProc
    BY <1>1, <1>16, <2>2 DEF Bind
  <2> QED BY <2>1, <2>2
<1>17. ASSUME NEW p \in DOMAIN launch.host, Shutdown(p) PROVE LifecycleInv'
  <2>1. GoesTo(p, "draining") /\ pc'[p] = "draining" /\ "draining" \in Stages \ {"dead", "client", "wait"}
    BY <1>0, <1>2, <1>17 DEF Shutdown, Stages
  <2>2. KeepsBack(p)
    BY <1>0, <2>1, <1>17 DEF Shutdown, KeepsBack
  <2>3. TakesLock(p)
    BY <1>0, <2>1, <1>17 DEF Shutdown, TakesLock, Inside
  <2>4. TakesPort(p)
    BY <1>0, <2>1, <1>17 DEF Shutdown, TakesPort
  <2> QED BY <2>1, <2>2, <2>3, <2>4, GoesOn
<1>18. ASSUME NEW p \in DOMAIN launch.host, Drained(p) PROVE LifecycleInv'
  BY <1>1, <1>18 DEF Drained
<1>19. ASSUME NEW p \in DOMAIN launch.host, Crash(p) PROVE LifecycleInv'
  BY <1>19, Ends DEF Crash
<1>20. ASSUME UNCHANGED <<launch, pc, lock, payload, port, back, target, signalled>>, connected' \subseteq Clients
      PROVE  LifecycleInv'
  <2>1. Inside' = Inside /\ \A p : HostOf(p)' = HostOf(p)
    BY <1>20 DEF Inside, HostOf
  <2>2. ProcessTypes'
    BY <1>20 DEF LifecycleInv, ProcessTypes
  <2>3. LocksHeld' /\ LocksReturned'
    BY <1>20, <2>1 DEF LifecycleInv, LocksHeld, LocksReturned
  <2>4. PortServed' /\ Stopped'
    BY <1>20 DEF LifecycleInv, PortServed, Stopped
  <2> QED BY <2>2, <2>3, <2>4 DEF LifecycleInv
<1>21. ASSUME NEW c \in Clients, Connect(c) \/ Disconnect(c) PROVE LifecycleInv'
  <2>1. connected' \subseteq Clients /\ UNCHANGED <<launch, pc, lock, payload, port, back, target, signalled>>
    BY <1>21 DEF Connect, Disconnect, LifecycleInv, ProcessTypes
  <2> QED BY <1>20, <2>1
<1>22. CASE UNCHANGED lifecycleVars
  <2>1. connected' \subseteq Clients /\ UNCHANGED <<launch, pc, lock, payload, port, back, target, signalled>>
    BY <1>22 DEF lifecycleVars, LifecycleInv, ProcessTypes
  <2> QED BY <1>20, <2>1
<1> QED BY <1>3, <1>4, <1>5, <1>6, <1>7, <1>8, <1>9, <1>10, <1>11, <1>12, <1>13, <1>14,
  <1>15, <1>16, <1>17, <1>18, <1>19, <1>21, <1>22 DEF LifecycleNext

LEMMA LifecycleAlways == LifecycleSpec => []LifecycleInv
BY InitLifecycle, LifecycleStep, PTL DEF LifecycleSpec

---------------------------------------------------------------------------

\* Two processes of one listen address never serve and drain at once, and an
\* agent that serves after a replacement left nobody it signalled alive: the
\* flock, the port and the wait hold together across crashes, kills, other
\* addresses and restarts by the menubar app.
THEOREM OneAgent == LifecycleSpec => []OneAgentPerAddress
<1>1. LifecycleInv => OneAgentPerAddress
  <2> SUFFICES ASSUME LifecycleInv, NEW p \in Procs, NEW q \in Procs, p # q, pc[p] = "serving",
                      pc[q] \in {"serving", "draining"}
               PROVE  HostOf(p) # HostOf(q) /\ q \notin signalled[p]
    BY DEF OneAgentPerAddress
  <2>1. lock[HostOf(p)] = p /\ lock[HostOf(q)] = q
    BY DEF LifecycleInv, LocksHeld, Inside
  <2>2. q \notin signalled[p]
    BY DEF LifecycleInv, Stopped, PortServed
  <2> QED BY <2>1, <2>2
<1> QED BY <1>1, LifecycleAlways, PTL

\* acquire_agent_lock fails only against a process that is using the address:
\* one inside serves, drains, or is on its way there with the flock, and no
\* crash, kill or end of a process leaves its flock behind.
THEOREM FlockReturned == LifecycleSpec => []LocksReturned
BY LifecycleAlways, PTL DEF LifecycleInv

-----------------------------------------------------------------------------
(* The first copies of the configuration file *)

Generations == 1..(CURRENT_SCHEMA_VERSION - 1)
Document(d) ==
    /\ DOMAIN d = {"version", "rows", "parses"}
    /\ d.version \in Nat \ {0} /\ d.parses \in BOOLEAN

Current(m) == "version" \in DOMAIN m /\ m.version \in Nat /\ m.version >= CURRENT_SCHEMA_VERSION

\* What is not the user's was written by a build that knows no older generation,
\* and a file of the agent's that does not parse is never saved over.
StoreTypes ==
    /\ \A d \in Given : Document(d)
    /\ disk \in Given \/ (Document(disk) /\ disk.version >= CURRENT_SCHEMA_VERSION
                          /\ (disk.parses \/ stage \in {"write", "down"}))
    /\ Current(memory)
    /\ DOMAIN backup = Generations
    /\ stage \in {"down", "ready", "save", "copy", "open", "write"}

\* A copy is whole unless it is being made, and what is written over has one.
CopiesWhole ==
    /\ \A v \in Generations :
           backup[v] \in Given \cup {NoCopy} \/ (stage = "copy" /\ v = label /\ backup[v] = HalfCopy)
    /\ stage = "copy" => /\ label \in Generations /\ backup[label] = HalfCopy
                         /\ disk \in Given /\ (disk.parses => label = disk.version)
    /\ stage = "open" /\ disk.parses /\ disk.version \in Generations => backup[disk.version] \in Given

StoreInv == StoreTypes /\ CopiesWhole /\ ~usage.torn

LEMMA NoneGiven == ASSUME StoreTypes PROVE NoCopy \notin Given /\ HalfCopy \notin Given
<1>1. DOMAIN NoCopy = {"whole"} /\ DOMAIN HalfCopy = {"half"}
  BY DEF NoCopy, HalfCopy
<1>2. \A d \in Given : "version" \in DOMAIN d
  BY DEF StoreTypes, Document
<1>3. QED
  BY <1>1, <1>2

LEMMA MigratedVersion ==
    ASSUME NEW d, d.version \in Nat
    PROVE  Current(Migrated(d))
BY DEF Current, Migrated, CURRENT_SCHEMA_VERSION

LEMMA StoreStarts ==
    ASSUME \A f \in Files : ~f.torn, StoreInit
    PROVE  StoreInv
<1>1. \A d \in Given : Document(d)
  BY StoreAssumption DEF StoreInit, StoreAssumption, Given, Document
<1>2. disk \in Given /\ disk = usage.disk
  BY DEF StoreInit, Given
<1>3. Current(memory)
  BY <1>1, <1>2, MigratedVersion DEF StoreInit, Document
<1>4. backup = [v \in Generations |-> NoCopy]
  BY DEF StoreInit, Generations
<1>5. StoreTypes
  BY <1>1, <1>2, <1>3, <1>4 DEF StoreTypes, StoreInit
<1>6. CopiesWhole
  BY <1>4 DEF CopiesWhole, StoreInit
<1>7. QED
  BY <1>5, <1>6 DEF StoreInv, StoreInit

\* A backup is made of a document the user once had.
LEMMA BackupStep ==
    ASSUME StoreInv, Backup
    PROVE  /\ StoreInv'
           /\ \A v \in Generations : backup[v] \in Given => backup'[v] = backup[v]
<1>1. PICK v \in Labels :
        IF v < CURRENT_SCHEMA_VERSION /\ backup[v] = NoCopy
        THEN backup' = [backup EXCEPT ![v] = HalfCopy] /\ label' = v /\ stage' = "copy"
        ELSE stage' = "open" /\ UNCHANGED <<backup, label>>
  BY DEF Backup
<1>2. disk \in Given \/ (disk.parses /\ disk.version >= CURRENT_SCHEMA_VERSION)
  BY DEF StoreInv, StoreTypes, Backup
<1>3. Document(disk) /\ v \in Nat \ {0} /\ (disk.parses => v = disk.version)
  BY <1>1 DEF StoreInv, StoreTypes, Labels, Document, LEGACY_SCHEMA_VERSION
<1>4. Given' = Given /\ UNCHANGED <<usage, disk, memory>>
  BY DEF Backup, Given
<1>5. NoCopy \notin Given
  BY NoneGiven DEF StoreInv
<1>6. CASE v < CURRENT_SCHEMA_VERSION /\ backup[v] = NoCopy
  <2>1. v \in Generations
    BY <1>3, <1>6 DEF Generations, CURRENT_SCHEMA_VERSION
  <2>2. backup' = [backup EXCEPT ![v] = HalfCopy] /\ label' = v /\ stage' = "copy"
    BY <1>1, <1>6
  <2>3. disk \in Given
    BY <1>2, <1>3, <1>6 DEF Document, CURRENT_SCHEMA_VERSION
  <2>4. \A w \in Generations : backup'[w] = IF w = v THEN HalfCopy ELSE backup[w]
    BY <2>1, <2>2 DEF StoreInv, StoreTypes
  <2>5. StoreTypes'
    BY <1>4, <2>2, <2>3 DEF StoreInv, StoreTypes
  <2>6. CopiesWhole'
    BY <1>3, <1>4, <2>1, <2>2, <2>3, <2>4 DEF StoreInv, CopiesWhole, Backup
  <2>7. QED
    BY <1>4, <1>5, <1>6, <2>4, <2>5, <2>6 DEF StoreInv
<1>7. CASE ~(v < CURRENT_SCHEMA_VERSION /\ backup[v] = NoCopy)
  <2>1. stage' = "open" /\ UNCHANGED <<backup, label>>
    BY <1>1, <1>7
  <2>2. StoreTypes'
    BY <1>2, <1>3, <1>4, <2>1 DEF StoreInv, StoreTypes
  <2>3. disk.parses /\ disk.version \in Generations => backup[disk.version] \in Given
    BY <1>3, <1>7 DEF StoreInv, CopiesWhole, Backup, Generations, CURRENT_SCHEMA_VERSION
  <2>4. CopiesWhole'
    BY <1>4, <2>1, <2>3 DEF StoreInv, CopiesWhole, Backup
  <2>5. QED
    BY <1>4, <2>1, <2>2, <2>4 DEF StoreInv
<1>8. QED
  BY <1>6, <1>7

LEMMA CopiedStep ==
    ASSUME StoreInv, Copied
    PROVE  /\ StoreInv'
           /\ \A v \in Generations : backup[v] \in Given => backup'[v] = backup[v]
<1>1. label \in Generations /\ backup[label] = HalfCopy /\ disk \in Given /\ (disk.parses => label = disk.version)
  BY DEF StoreInv, CopiesWhole, Copied
<1>2. HalfCopy \notin Given
  BY NoneGiven DEF StoreInv
<1>3. Given' = Given /\ UNCHANGED <<usage, disk, memory>> /\ stage' = "open"
  BY DEF Copied, Given
<1>4. \A w \in Generations : backup'[w] = IF w = label THEN disk ELSE backup[w]
  BY <1>1 DEF StoreInv, StoreTypes, Copied
<1>5. StoreTypes'
  BY <1>1, <1>3 DEF StoreInv, StoreTypes, Copied
<1>6. CopiesWhole'
  BY <1>1, <1>3, <1>4 DEF StoreInv, CopiesWhole
<1>7. QED
  BY <1>1, <1>2, <1>3, <1>4, <1>5, <1>6 DEF StoreInv

LEMMA StoreStep ==
    ASSUME StoreInv, [StoreNext]_storeVars
    PROVE  /\ StoreInv'
           /\ \A v \in Generations : backup[v] \in Given => backup'[v] = backup[v]
<1>1. CASE \E c \in Browsers : Fetch(c) \/ \E e \in usage.edits : Patch(c, e)
  <2>1. UNCHANGED <<usage, disk, backup, label>> /\ Current(memory')
    BY <1>1 DEF Fetch, Patch, StoreInv, StoreTypes, Current
  <2>2. stage = "ready" /\ stage' \in {"ready", "save"}
    BY <1>1 DEF Fetch, Patch
  <2>3. Given' = Given
    BY <2>1 DEF Given
  <2>4. StoreTypes' /\ CopiesWhole'
    BY <2>1, <2>2, <2>3 DEF StoreInv, StoreTypes, CopiesWhole
  <2>5. QED
    BY <2>1, <2>4 DEF StoreInv
<1>2. CASE \E d \in usage.hands : HandEdit(d)
  <2>1. UNCHANGED <<usage, backup, memory, stage, label>> /\ disk' \in Given /\ stage \in {"ready", "down"}
    BY <1>2 DEF HandEdit, Given
  <2>2. Given' = Given
    BY <2>1 DEF Given
  <2>3. StoreTypes' /\ CopiesWhole'
    BY <2>1, <2>2 DEF StoreInv, StoreTypes, CopiesWhole
  <2>4. QED
    BY <2>1, <2>3 DEF StoreInv
<1>3. CASE OpenFile \/ WriteFile
  <2>1. UNCHANGED <<usage, backup, memory, label>> /\ stage' \in {"write", "ready"}
    BY <1>3 DEF OpenFile, WriteFile
  <2>2. Document(disk') /\ disk'.version >= CURRENT_SCHEMA_VERSION /\ (disk'.parses \/ stage' = "write")
    <3>1. memory.version \in Nat \ {0} /\ memory.version >= CURRENT_SCHEMA_VERSION
      BY DEF StoreInv, StoreTypes, Current, CURRENT_SCHEMA_VERSION
    <3>2. CASE OpenFile
      BY <3>1, <3>2 DEF OpenFile, Document
    <3>3. CASE WriteFile
      BY <3>1, <3>3 DEF WriteFile, Document
    <3>4. QED
      BY <1>3, <3>2, <3>3
  <2>3. Given' = Given /\ stage \in {"open", "write"}
    BY <1>3, <2>1 DEF Given, OpenFile, WriteFile
  <2>4. StoreTypes' /\ CopiesWhole'
    BY <2>1, <2>2, <2>3 DEF StoreInv, StoreTypes, CopiesWhole
  <2>5. QED
    BY <2>1, <2>4 DEF StoreInv
<1>4. CASE AgentCrash \/ Load
  <2>1. UNCHANGED <<usage, disk, backup>> /\ stage' \in {"down", "ready"} /\ (stage' = "ready" => disk.parses)
    BY <1>4 DEF AgentCrash, Load
  <2>2. Given' = Given /\ stage # "copy"
    BY <1>4, <2>1 DEF Given, AgentCrash, Load, StoreInv
  <2>3. Current(memory')
    <3>1. Document(disk)
      BY DEF StoreInv, StoreTypes
    <3>2. QED
      BY <1>4, <3>1, MigratedVersion DEF AgentCrash, Load, StoreInv, StoreTypes, Document
  <2>4. StoreTypes' /\ CopiesWhole'
    BY <2>1, <2>2, <2>3 DEF StoreInv, StoreTypes, CopiesWhole
  <2>5. QED
    BY <2>1, <2>4 DEF StoreInv
<1>5. CASE UNCHANGED storeVars
  BY <1>5 DEF storeVars, StoreInv, StoreTypes, CopiesWhole, Given
<1>6. QED
  BY <1>1, <1>2, <1>3, <1>4, <1>5, BackupStep, CopiedStep DEF StoreNext

\* What a save writes over has a copy, and nothing touches a copy once made,
\* where no crash cuts the copying itself short.
THEOREM FirstCopies == (\A f \in Files : ~f.torn) => (StoreSpec => PristineKept)
<1> SUFFICES ASSUME \A f \in Files : ~f.torn
             PROVE  StoreSpec => PristineKept
  OBVIOUS
<1> DEFINE Kept ==
      \A v \in DOMAIN backup :
        /\ backup[v] \in Given => backup'[v] = backup[v]
        /\ stage = "open" /\ disk' # disk /\ disk.parses /\ disk.version = v
               => backup[v] \in Given
<1>1. StoreInit => StoreInv
  BY StoreStarts
<1>2. StoreInv /\ [StoreNext]_storeVars => StoreInv'
  BY StoreStep
<1>3. StoreInv /\ [StoreNext]_storeVars => [Kept]_storeVars
  BY StoreStep DEF StoreInv, StoreTypes, CopiesWhole
<1>4. QED
  BY <1>1, <1>2, <1>3, PTL DEF StoreSpec, PristineKept

-----------------------------------------------------------------------------
(* Write-only secrets.  Merging and stamping are recursive functions of the  *)
(* index: that there is one is shown from the least index that has none.     *)

LEMMA LeastOne ==
    ASSUME NEW S \in SUBSET Nat, S # {}
    PROVE  \E i \in S : \A j \in S : i <= j
<1>1. PICK i \in S : \A j \in S : ~ (<<j, i>> \in OpToRel(<, Nat))
  BY WFMin, NatLessThanWellFounded
<1>2. \A j \in S : i \in Nat /\ j \in Nat /\ ~ (j < i)
  BY <1>1 DEF OpToRel
<1>3. QED
  BY <1>2

\* A minted id is no taken one.
LEMMA MintedFresh ==
    ASSUME NEW url, NEW taken, IsFiniteSet(taken)
    PROVE  \E n \in Nat : Minted(url, taken) = <<url, n>> /\ <<url, n>> \notin taken
<1> DEFINE c == Cardinality(taken)
           N == 1..(c + 1)
           Free == {n \in N : <<url, n>> \notin taken}
<1>1. c \in Nat
  BY FS_CardinalityType
<1>2. IsFiniteSet(N) /\ Cardinality(N) = c + 1
  BY <1>1, FS_Interval
<1>3. Free # {}
  <2> SUFFICES ASSUME Free = {} PROVE FALSE
    OBVIOUS
  <2> DEFINE f == [n \in N |-> <<url, n>>]
  <2>1. f \in Injection(N, taken)
    BY DEF Injection, IsInjective
  <2>2. Cardinality(N) <= c
    BY <2>1, FS_Injection
  <2>3. QED
    BY <1>1, <1>2, <2>2
<1>4. PICK n \in Free : \A k \in Free : n <= k
  <2>1. Free \in SUBSET Nat
    BY <1>1
  <2> HIDE DEF Free
  <2>2. QED
    BY <1>3, <2>1, LeastOne
<1>5. n \in N /\ <<url, n>> \notin taken /\ \A k \in 1..(n - 1) : <<url, k>> \in taken
  BY <1>1, <1>4
<1>6. \E m : /\ m \in N /\ <<url, m>> \notin taken /\ (\A k \in 1..(m - 1) : <<url, k>> \in taken)
             /\ Minted(url, taken) = <<url, m>>
  BY <1>5 DEF Minted
<1>7. QED
  BY <1>1, <1>6

-----------------------------------------------------------------------------
(* Lists of rows and of entries *)

\* An id is on one row.
Distinct(list) ==
    \A i, j \in DOMAIN list : list[i].id = list[j].id /\ list[i].id # NoId => i = j
ListOf(list, fields) ==
    /\ Len(list) \in Nat /\ DOMAIN list = 1..Len(list)
    /\ \A i \in DOMAIN list : DOMAIN list[i] = fields
    /\ Distinct(list)
RowList(list) == ListOf(list, {"id", "url", "secret"})
EntryList(list) == ListOf(list, {"id", "url", "typed"})

LEMMA IdsFinite == ASSUME NEW list, Len(list) \in Nat, DOMAIN list = 1..Len(list) PROVE IsFiniteSet(Ids(list))
<1> DEFINE f == [i \in DOMAIN list |-> list[i].id]
           T == {list[i].id : i \in DOMAIN list}
<1>1. IsFiniteSet(DOMAIN list)
  BY FS_Interval
<1>2. f \in Surjection(DOMAIN list, T)
  BY DEF Surjection, Range
<1>3. IsFiniteSet(T)
  BY <1>1, <1>2, FS_Surjection
<1>4. QED
  BY <1>3, FS_Subset DEF Ids

StampAt(list, f, i) == IF i = 0 THEN Ids(list) ELSE f[i - 1] \cup {StampedId(list[i], f[i - 1])}

LEMMA StampExists ==
    ASSUME NEW list, NEW n \in Nat
    PROVE  \E f : f = [i \in 0..n |-> StampAt(list, f, i)]
<1> DEFINE Bad == {k \in Nat : ~ \E f : f = [i \in 0..k |-> StampAt(list, f, i)]}
<1> SUFFICES ASSUME n \in Bad PROVE FALSE
  OBVIOUS
<1>1. PICK m \in Bad : \A k \in Bad : m <= k
  BY LeastOne
<1>2. m \in Nat /\ ~ \E f : f = [i \in 0..m |-> StampAt(list, f, i)]
  BY <1>1
<1>3. CASE m = 0
  <2> DEFINE f == [i \in 0..0 |-> Ids(list)]
  <2>1. f = [i \in 0..0 |-> StampAt(list, f, i)]
    BY DEF StampAt
  <2>2. QED
    BY <1>2, <1>3, <2>1
<1>4. CASE m # 0
  <2>1. m - 1 \in Nat /\ ~ m <= m - 1
    BY <1>2, <1>4
  <2>2. PICK g : g = [i \in 0..(m - 1) |-> StampAt(list, g, i)]
    BY <1>1, <2>1
  <2> DEFINE f == [i \in 0..m |-> StampAt(list, g, i)]
  <2>3. \A i \in 0..(m - 1) : f[i] = g[i]
    <3>1. \A i \in 0..(m - 1) : g[i] = StampAt(list, g, i)
      BY <2>2
    <3>2. \A i \in 0..(m - 1) : i \in 0..m
      BY <2>1
    <3>3. QED
      BY <3>1, <3>2
  <2>4. \A i \in 0..m : f[i] = StampAt(list, f, i)
    <3>1. \A i \in 0..m : f[i] = StampAt(list, g, i)
      OBVIOUS
    <3> HIDE DEF f
    <3>2. \A i \in 0..m : i # 0 => f[i - 1] = g[i - 1]
      BY <1>2, <2>3
    <3>3. QED
      BY <3>1, <3>2 DEF StampAt
  <2>5. f = [i \in 0..m |-> StampAt(list, f, i)]
    BY <2>4
  <2>6. QED
    BY <2>5, <1>2
<1>5. QED
  BY <1>3, <1>4

\* Rows that have an id keep it, the others get new ones.
LEMMA StampedList ==
    ASSUME NEW list, RowList(list)
    PROVE  RowList(Stamped(list))
<1> DEFINE n == Len(list)
           out == Stamped(list)
<1>1. n \in Nat /\ DOMAIN list = 1..n /\ (\A i \in 1..n : DOMAIN list[i] = {"id", "url", "secret"}) /\ Distinct(list)
  BY DEF RowList, ListOf
<1> DEFINE F == CHOOSE f : f = [i \in 0..n |-> StampAt(list, f, i)]
<1>2. F = [i \in 0..n |-> StampAt(list, F, i)]
  BY <1>1, StampExists
<1>3. out = [i \in 1..n |-> [list[i] EXCEPT !.id = StampedId(list[i], F[i - 1])]]
  BY DEF Stamped, StampAt
<1> HIDE DEF F, out, n
<1>4. F[0] = Ids(list) /\ \A i \in 1..n : F[i] = F[i - 1] \cup {StampedId(list[i], F[i - 1])}
  <2>1. \A i \in 0..n : F[i] = StampAt(list, F, i)
    BY <1>2
  <2>2. 0 \in 0..n /\ \A i \in 1..n : i \in 0..n /\ i # 0
    BY <1>1
  <2>3. QED
    BY <2>1, <2>2 DEF StampAt
<1>5. DOMAIN out = 1..n /\ Len(out) = n /\ \A i \in 1..n : DOMAIN out[i] = {"id", "url", "secret"}
  <2>1. DOMAIN out = 1..n
    BY <1>3
  <2>2. Len(out) = n
    BY <1>1, <1>3
  <2>3. QED
    BY <1>1, <1>3, <2>1, <2>2
<1>6. \A i \in 1..n : out[i].id = StampedId(list[i], F[i - 1])
  BY <1>1, <1>3
<1> DEFINE Good(i) == /\ IsFiniteSet(F[i]) /\ Ids(list) \subseteq F[i]
                      /\ \A j \in 1..i : out[j].id # NoId /\ out[j].id \in F[i]
                      /\ \A j, k \in 1..i : out[j].id = out[k].id => j = k
                      /\ \A j \in 1..i, k \in 1..n : out[j].id = list[k].id => k <= i
           Bad == {i \in 0..n : ~Good(i)}
<1>7. Good(0)
  BY <1>1, <1>4, IdsFinite
<1>8. ASSUME NEW i \in 1..n, Good(i - 1) PROVE Good(i)
  <2> DEFINE id == StampedId(list[i], F[i - 1])
  <2>1. /\ IsFiniteSet(F[i - 1]) /\ Ids(list) \subseteq F[i - 1]
        /\ \A j \in 1..(i - 1) : out[j].id # NoId /\ out[j].id \in F[i - 1]
        /\ \A j, k \in 1..(i - 1) : out[j].id = out[k].id => j = k
        /\ \A j \in 1..(i - 1), k \in 1..n : out[j].id = list[k].id => k <= i - 1
    BY <1>8
  <2>2. i \in Nat /\ (\A j \in 1..i : j = i \/ j \in 1..(i - 1)) /\ \A k \in 1..n : k \in Int
    BY <1>1
  <2>3. F[i] = F[i - 1] \cup {id} /\ out[i].id = id
    BY <1>4, <1>6
  <2>4. IsFiniteSet(F[i])
    BY <2>1, <2>3, FS_AddElement
  <2>5. \/ list[i].id # NoId /\ id = list[i].id
        \/ id # NoId /\ id \notin F[i - 1]
    <3>1. CASE list[i].id # NoId
      BY <3>1 DEF StampedId
    <3>2. CASE list[i].id = NoId
      <4>1. PICK k \in Nat : Minted(list[i].url, F[i - 1]) = <<list[i].url, k>> /\ <<list[i].url, k>> \notin F[i - 1]
        BY <2>1, MintedFresh
      <4>2. <<list[i].url, k>> # NoId
        BY DEF NoId
      <4>3. QED
        BY <3>2, <4>1, <4>2 DEF StampedId
    <3>3. QED
      BY <3>1, <3>2
  <2> HIDE DEF id
  <2>6. id # NoId /\ \A j \in 1..(i - 1) : out[j].id # id
    <3>1. CASE list[i].id # NoId /\ id = list[i].id
      <4>1. \A j \in 1..(i - 1) : out[j].id = list[i].id => i <= i - 1
        BY <2>1
      <4>2. QED
        BY <2>2, <3>1, <4>1
    <3>2. CASE id # NoId /\ id \notin F[i - 1]
      BY <2>1, <3>2
    <3>3. QED
      BY <2>5, <3>1, <3>2
  <2>7. \A k \in 1..n : id = list[k].id => k <= i
    <3> TAKE k \in 1..n
    <3>1. CASE list[i].id # NoId /\ id = list[i].id
      <4>1. list[i].id = list[k].id => i = k
        BY <1>1, <3>1 DEF Distinct
      <4>2. QED
        BY <2>2, <3>1, <4>1
    <3>2. CASE id # NoId /\ id \notin F[i - 1]
      <4>1. list[k].id # NoId => list[k].id \in Ids(list)
        BY <1>1 DEF Ids
      <4>2. QED
        BY <2>1, <3>2, <4>1
    <3>3. QED
      BY <2>5, <3>1, <3>2
  <2>8. \A j \in 1..i : out[j].id # NoId /\ out[j].id \in F[i]
    BY <2>1, <2>2, <2>3, <2>6
  <2>9. \A j, k \in 1..i : out[j].id = out[k].id => j = k
    BY <2>1, <2>2, <2>3, <2>6
  <2>10. \A j \in 1..i, k \in 1..n : out[j].id = list[k].id => k <= i
    <3> TAKE j \in 1..i, k \in 1..n
    <3>1. CASE j = i
      BY <2>3, <2>7, <3>1
    <3>2. CASE j \in 1..(i - 1)
      <4>1. out[j].id = list[k].id => k <= i - 1
        BY <2>1, <3>2
      <4>2. QED
        BY <2>2, <4>1
    <3>3. QED
      BY <2>2, <3>1, <3>2
  <2>11. QED
    BY <2>1, <2>3, <2>4, <2>8, <2>9, <2>10
<1>9. Good(n)
  <2> SUFFICES ASSUME ~Good(n) PROVE FALSE
    OBVIOUS
  <2>1. n \in Bad /\ Bad \in SUBSET Nat
    BY <1>1
  <2>2. PICK m \in Bad : \A k \in Bad : m <= k
    BY <2>1, LeastOne
  <2>3. m # 0 /\ m \in 0..n /\ ~Good(m)
    BY <1>7, <2>2
  <2>4. m \in 1..n /\ m - 1 \in 0..n /\ ~ m <= m - 1
    BY <1>1, <2>3
  <2>5. Good(m - 1)
    BY <2>2, <2>4
  <2>6. QED
    BY <1>8, <2>3, <2>4, <2>5
<1>10. Distinct(out)
  BY <1>5, <1>9 DEF Distinct
<1>11. QED
  BY <1>1, <1>5, <1>10 DEF RowList, ListOf, out

-----------------------------------------------------------------------------
(* Merging: every entry claims at most one row, and no row twice *)

LEMMA TakesOne ==
    ASSUME NEW list, DOMAIN list \subseteq Nat, NEW claimed, NEW e
    PROVE  /\ Take(list, claimed, e) \subseteq DOMAIN list \ claimed
           /\ \A a, b \in Take(list, claimed, e) : a = b
<1>1. ASSUME NEW S \in SUBSET DOMAIN list
      PROVE  FirstOf(S) \subseteq S /\ \A a, b \in FirstOf(S) : a = b
  BY DEF FirstOf
<1> DEFINE U == {i \in DOMAIN list \ claimed : list[i].url = e.url}
           I == {i \in DOMAIN list : e.id # NoId /\ list[i].id = e.id}
<1>2. U \in SUBSET DOMAIN list /\ I \in SUBSET DOMAIN list /\ U \cap claimed = {}
  OBVIOUS
<1>3. Take(list, claimed, e) = IF FirstOf(I) \ claimed # {} THEN FirstOf(I) \ claimed ELSE FirstOf(U)
  BY DEF Take
<1> HIDE DEF U, I
<1>4. /\ FirstOf(U) \subseteq U /\ \A a, b \in FirstOf(U) : a = b
      /\ FirstOf(I) \subseteq I /\ \A a, b \in FirstOf(I) : a = b
  BY <1>1, <1>2
<1>5. CASE FirstOf(I) \ claimed # {}
  BY <1>2, <1>3, <1>4, <1>5
<1>6. CASE FirstOf(I) \ claimed = {}
  BY <1>2, <1>3, <1>4, <1>6
<1>7. QED
  BY <1>5, <1>6

\* What one entry becomes: p is the row it claims.
EntryMerged(list, acc, e, m, p) ==
    /\ p \subseteq DOMAIN list \ acc.claimed
    /\ m.claimed = acc.claimed \cup p
    /\ m.taken = acc.taken \cup {m.row.id}
    /\ DOMAIN m.row = {"id", "url", "secret"} /\ m.row.id # NoId
    /\ (\E k \in p : m.row.id = list[k].id) \/ m.row.id \notin acc.taken
    /\ e.typed # NoSecret => m.row.secret = e.typed
    /\ e.typed = NoSecret /\ p = {} => m.row.secret = NoSecret
    /\ e.typed = NoSecret => \A k \in p : m.row.secret = list[k].secret

LEMMA MergesEntry ==
    ASSUME NEW list, DOMAIN list \subseteq Nat, NEW acc, IsFiniteSet(acc.taken), NEW e
    PROVE  EntryMerged(list, acc, e, MergeEntry(list, acc, e), Take(list, acc.claimed, e))
<1> DEFINE p == Take(list, acc.claimed, e)
           ids == {list[i].id : i \in p} \ {NoId}
           id == IF ids # {} THEN CHOOSE k \in ids : TRUE ELSE Minted(e.url, acc.taken)
           stored == {list[i].secret : i \in p}
           secret == IF e.typed # NoSecret THEN e.typed
                     ELSE IF stored # {} THEN CHOOSE s \in stored : TRUE ELSE NoSecret
           m == MergeEntry(list, acc, e)
<1>1. p \subseteq DOMAIN list \ acc.claimed /\ \A a, b \in p : a = b
  BY TakesOne
<1>2. m = [claimed |-> acc.claimed \cup p, taken |-> acc.taken \cup {id},
           row |-> [id |-> id, url |-> e.url, secret |-> secret]]
  BY DEF MergeEntry
<1> HIDE DEF p, m
<1>3. id # NoId /\ ((\E k \in p : id = list[k].id) \/ id \notin acc.taken)
  <2>1. CASE ids # {}
    BY <2>1
  <2>2. CASE ids = {}
    <3>1. PICK n \in Nat : Minted(e.url, acc.taken) = <<e.url, n>> /\ <<e.url, n>> \notin acc.taken
      BY MintedFresh
    <3>2. <<e.url, n>> # NoId
      BY DEF NoId
    <3>3. QED
      BY <2>2, <3>1, <3>2
  <2>3. QED
    BY <2>1, <2>2
<1>4. /\ e.typed # NoSecret => secret = e.typed
      /\ e.typed = NoSecret /\ p = {} => secret = NoSecret
  OBVIOUS
<1>5. ASSUME e.typed = NoSecret, NEW k \in p PROVE secret = list[k].secret
  <2>1. stored = {list[k].secret}
    BY <1>1, <1>5
  <2>2. QED
    BY <1>5, <2>1
<1> HIDE DEF id, secret
<1>6. m.claimed = acc.claimed \cup p /\ m.taken = acc.taken \cup {id} /\ m.row = [id |-> id, url |-> e.url, secret |-> secret]
  BY <1>2
<1>7. m.row.id = id /\ m.row.secret = secret /\ DOMAIN m.row = {"id", "url", "secret"}
  BY <1>6
<1>8. EntryMerged(list, acc, e, m, p)
  BY <1>1, <1>3, <1>4, <1>5, <1>6, <1>7 DEF EntryMerged
<1>9. QED
  BY <1>8 DEF p, m

MergeAt(list, sent, f, i) ==
    IF i = 0 THEN [claimed |-> {}, taken |-> Ids(list)] ELSE MergeEntry(list, f[i - 1], sent[i])

LEMMA MergeExists ==
    ASSUME NEW list, NEW sent, NEW n \in Nat
    PROVE  \E f : f = [i \in 0..n |-> MergeAt(list, sent, f, i)]
<1> DEFINE Bad == {k \in Nat : ~ \E f : f = [i \in 0..k |-> MergeAt(list, sent, f, i)]}
<1> SUFFICES ASSUME n \in Bad PROVE FALSE
  OBVIOUS
<1>1. PICK m \in Bad : \A k \in Bad : m <= k
  BY LeastOne
<1>2. m \in Nat /\ ~ \E f : f = [i \in 0..m |-> MergeAt(list, sent, f, i)]
  BY <1>1
<1>3. CASE m = 0
  <2> DEFINE f == [i \in 0..0 |-> [claimed |-> {}, taken |-> Ids(list)]]
  <2>1. f = [i \in 0..0 |-> MergeAt(list, sent, f, i)]
    BY DEF MergeAt
  <2>2. QED
    BY <1>2, <1>3, <2>1
<1>4. CASE m # 0
  <2>1. m - 1 \in Nat /\ ~ m <= m - 1
    BY <1>2, <1>4
  <2>2. PICK g : g = [i \in 0..(m - 1) |-> MergeAt(list, sent, g, i)]
    BY <1>1, <2>1
  <2> DEFINE f == [i \in 0..m |-> MergeAt(list, sent, g, i)]
  <2>3. \A i \in 0..(m - 1) : f[i] = g[i]
    <3>1. \A i \in 0..(m - 1) : g[i] = MergeAt(list, sent, g, i)
      BY <2>2
    <3>2. \A i \in 0..(m - 1) : i \in 0..m
      BY <2>1
    <3>3. QED
      BY <3>1, <3>2
  <2>4. \A i \in 0..m : f[i] = MergeAt(list, sent, f, i)
    <3>1. \A i \in 0..m : f[i] = MergeAt(list, sent, g, i)
      OBVIOUS
    <3> HIDE DEF f
    <3>2. \A i \in 0..m : i # 0 => f[i - 1] = g[i - 1]
      BY <1>2, <2>3
    <3>3. QED
      BY <3>1, <3>2 DEF MergeAt
  <2>5. f = [i \in 0..m |-> MergeAt(list, sent, f, i)]
    BY <2>4
  <2>6. QED
    BY <2>5, <1>2
<1>5. QED
  BY <1>3, <1>4

\* The entries merged one after the other.
Merging(list, sent, F) ==
    /\ F[0].claimed = {} /\ F[0].taken = Ids(list)
    /\ \A i \in 1..Len(sent) : F[i] = MergeEntry(list, F[i - 1], sent[i])
MergedAs(list, sent, F) == Merged(list, sent) = [i \in 1..Len(sent) |-> F[i].row]

LEMMA MergedBy ==
    ASSUME NEW list, NEW sent, Len(sent) \in Nat
    PROVE  \E F : Merging(list, sent, F) /\ MergedAs(list, sent, F)
<1> DEFINE n == Len(sent)
           F == CHOOSE f : f = [i \in 0..n |-> MergeAt(list, sent, f, i)]
<1>1. F = [i \in 0..n |-> MergeAt(list, sent, F, i)]
  BY MergeExists
<1>2. Merged(list, sent) = [i \in 1..n |-> F[i].row]
  BY DEF Merged, MergeAt
<1> HIDE DEF F
<1>3. \A i \in 0..n : F[i] = MergeAt(list, sent, F, i)
  BY <1>1
<1>4. 0 \in 0..n /\ \A i \in 1..n : i \in 0..n /\ i # 0
  OBVIOUS
<1>5. F[0] = [claimed |-> {}, taken |-> Ids(list)] /\ \A i \in 1..n : F[i] = MergeEntry(list, F[i - 1], sent[i])
  BY <1>3, <1>4 DEF MergeAt
<1>6. Merging(list, sent, F)
  BY <1>5 DEF Merging
<1>7. QED
  BY <1>2, <1>6 DEF MergedAs

\* Ids stay with one row, whatever the entries are.
LEMMA MergedList ==
    ASSUME NEW list, RowList(list), NEW sent, Len(sent) \in Nat
    PROVE  RowList(Merged(list, sent))
<1> DEFINE n == Len(sent)
           out == Merged(list, sent)
<1>1. /\ Len(list) \in Nat /\ DOMAIN list = 1..Len(list) /\ DOMAIN list \subseteq Nat
      /\ Distinct(list) /\ n \in Nat
  BY DEF RowList, ListOf
<1>2. PICK F : Merging(list, sent, F) /\ out = [i \in 1..n |-> F[i].row]
  <2>1. \E F : Merging(list, sent, F) /\ MergedAs(list, sent, F)
    BY MergedBy
  <2>2. QED
    BY <2>1 DEF MergedAs
<1> DEFINE Good(i) == /\ IsFiniteSet(F[i].taken) /\ Ids(list) \subseteq F[i].taken
                      /\ \A j \in 1..i : /\ DOMAIN F[j].row = {"id", "url", "secret"}
                                         /\ F[j].row.id # NoId /\ F[j].row.id \in F[i].taken
                      /\ \A j, k \in 1..i : F[j].row.id = F[k].row.id => j = k
                      /\ \A j \in 1..i, k \in DOMAIN list : F[j].row.id = list[k].id => k \in F[i].claimed
           Bad == {i \in 0..n : ~Good(i)}
<1>3. Good(0)
  BY <1>1, <1>2, IdsFinite DEF Merging
<1>4. ASSUME NEW i \in 1..n, Good(i - 1) PROVE Good(i)
  <2> DEFINE a == F[i - 1]
             id == F[i].row.id
  <2>1. /\ IsFiniteSet(a.taken) /\ Ids(list) \subseteq a.taken
        /\ \A j \in 1..(i - 1) : /\ DOMAIN F[j].row = {"id", "url", "secret"}
                                 /\ F[j].row.id # NoId /\ F[j].row.id \in a.taken
        /\ \A j, k \in 1..(i - 1) : F[j].row.id = F[k].row.id => j = k
        /\ \A j \in 1..(i - 1), k \in DOMAIN list : F[j].row.id = list[k].id => k \in a.claimed
    BY <1>4
  <2>2. i \in Nat /\ \A j \in 1..i : j = i \/ j \in 1..(i - 1)
    BY <1>1
  <2>3. PICK p : EntryMerged(list, a, sent[i], F[i], p)
    <3>1. F[i] = MergeEntry(list, a, sent[i])
      BY <1>2 DEF Merging
    <3> HIDE DEF a
    <3>2. EntryMerged(list, a, sent[i], MergeEntry(list, a, sent[i]), Take(list, a.claimed, sent[i]))
      BY <1>1, <2>1, MergesEntry
    <3>3. QED
      BY <3>1, <3>2
  <2>4. /\ p \subseteq DOMAIN list \ a.claimed /\ F[i].claimed = a.claimed \cup p
        /\ F[i].taken = a.taken \cup {id} /\ id # NoId /\ DOMAIN F[i].row = {"id", "url", "secret"}
        /\ (\E k \in p : id = list[k].id) \/ id \notin a.taken
    BY <2>3 DEF EntryMerged
  <2> HIDE DEF a
  <2>5. IsFiniteSet(F[i].taken)
    BY <2>1, <2>4, FS_AddElement
  <2>6. \A j \in 1..(i - 1) : F[j].row.id # id
    BY <2>1, <2>4
  <2>7. \A k \in DOMAIN list : id = list[k].id => k \in F[i].claimed
    <3> SUFFICES ASSUME NEW k \in DOMAIN list, id = list[k].id PROVE k \in F[i].claimed
      OBVIOUS
    <3>1. id \in a.taken
      <4>1. list[k].id \in Ids(list)
        BY <2>4 DEF Ids
      <4>2. QED
        BY <2>1, <4>1
    <3>2. PICK q \in p : id = list[q].id
      BY <2>4, <3>1
    <3>3. q = k
      BY <1>1, <2>4, <3>2 DEF Distinct
    <3>4. QED
      BY <2>4, <3>2, <3>3
  <2>8. \A j \in 1..i : /\ DOMAIN F[j].row = {"id", "url", "secret"}
                        /\ F[j].row.id # NoId /\ F[j].row.id \in F[i].taken
    BY <2>1, <2>2, <2>4
  <2>9. \A j, k \in 1..i : F[j].row.id = F[k].row.id => j = k
    BY <2>1, <2>2, <2>6
  <2>10. \A j \in 1..i, k \in DOMAIN list : F[j].row.id = list[k].id => k \in F[i].claimed
    <3> TAKE j \in 1..i, k \in DOMAIN list
    <3>1. CASE j = i
      BY <2>7, <3>1
    <3>2. CASE j \in 1..(i - 1)
      <4>1. F[j].row.id = list[k].id => k \in a.claimed
        BY <2>1, <3>2
      <4>2. QED
        BY <2>4, <4>1
    <3>3. QED
      BY <2>2, <3>1, <3>2
  <2>11. Ids(list) \subseteq F[i].taken
    BY <2>1, <2>4
  <2>12. QED
    BY <2>5, <2>8, <2>9, <2>10, <2>11
<1>5. Good(n)
  <2> SUFFICES ASSUME ~Good(n) PROVE FALSE
    OBVIOUS
  <2>1. n \in Bad /\ Bad \in SUBSET Nat
    BY <1>1
  <2>2. PICK m \in Bad : \A k \in Bad : m <= k
    BY <2>1, LeastOne
  <2>3. m # 0 /\ m \in 0..n /\ ~Good(m)
    BY <1>3, <2>2
  <2>4. m \in 1..n /\ m - 1 \in 0..n /\ ~ m <= m - 1
    BY <1>1, <2>3
  <2>5. Good(m - 1)
    BY <2>2, <2>4
  <2>6. QED
    BY <1>4, <2>3, <2>4, <2>5
<1> HIDE DEF out
<1>6. DOMAIN out = 1..n /\ Len(out) = n /\ \A i \in 1..n : out[i] = F[i].row
  BY <1>1, <1>2
<1>7. Distinct(out)
  <2>1. \A j, k \in 1..n : out[j].id = out[k].id => j = k
    BY <1>5, <1>6
  <2>2. QED
    BY <1>6, <2>1 DEF Distinct
<1>8. Len(out) = n
  BY <1>1, <1>2 DEF out
<1>9. \A i \in DOMAIN out : DOMAIN out[i] = {"id", "url", "secret"}
  BY <1>5, <1>6
<1>10. RowList(out)
  BY <1>1, <1>6, <1>7, <1>8, <1>9 DEF RowList, ListOf
<1>11. QED
  BY <1>10 DEF out

\* Where every entry without a stored id is a new url, an entry takes the row
\* that its id is stored at.
LEMMA TakesStored ==
    ASSUME NEW list, NEW claimed, NEW e, claimed \cap StoredAt(list, e.id) = {},
           StoredAt(list, e.id) = {} => \A k \in DOMAIN list : list[k].url # e.url
    PROVE  Take(list, claimed, e) = StoredAt(list, e.id)
<1> DEFINE U == {i \in DOMAIN list \ claimed : list[i].url = e.url}
           I == {i \in DOMAIN list : e.id # NoId /\ list[i].id = e.id}
           J == {i \in DOMAIN list : list[i].id = e.id /\ e.id # NoId}
<1>1. Take(list, claimed, e) = IF FirstOf(I) \ claimed # {} THEN FirstOf(I) \ claimed ELSE FirstOf(U)
  BY DEF Take
<1>2. I = J
  OBVIOUS
<1>3. StoredAt(list, e.id) = FirstOf(J)
  BY DEF StoredAt
<1>4. FirstOf(J) = {} => U = {}
  BY <1>3
<1>5. FirstOf({}) = {}
  BY DEF FirstOf
<1> HIDE DEF U, I, J
<1>6. FirstOf(J) \ claimed = FirstOf(J)
  BY <1>3
<1>7. QED
  BY <1>1, <1>2, <1>3, <1>4, <1>5, <1>6

\* Every entry whose url is that of a stored row is an edit of one.
NewUrls(list, sent) ==
    \A i \in DOMAIN sent : \A k \in DOMAIN list :
        StoredAt(list, sent[i].id) = {} => list[k].url # sent[i].url

LEMMA KeepsMerged ==
    ASSUME NEW list, RowList(list), NEW sent, EntryList(sent), NewUrls(list, sent)
    PROVE  Keeps(list, sent, Merged(list, sent))
<1> DEFINE n == Len(sent)
           out == Merged(list, sent)
           S(i) == StoredAt(list, sent[i].id)
<1>1. /\ Len(list) \in Nat /\ DOMAIN list = 1..Len(list) /\ DOMAIN list \subseteq Nat
      /\ n \in Nat /\ DOMAIN sent = 1..n /\ Distinct(sent)
  BY DEF RowList, EntryList, ListOf
<1>2. PICK F : Merging(list, sent, F) /\ out = [i \in 1..n |-> F[i].row]
  <2>1. \E F : Merging(list, sent, F) /\ MergedAs(list, sent, F)
    BY <1>1, MergedBy
  <2>2. QED
    BY <2>1 DEF MergedAs
<1>3. \A i \in 1..n : \A k \in S(i) : k \in DOMAIN list /\ list[k].id = sent[i].id /\ sent[i].id # NoId
  BY DEF StoredAt, FirstOf
<1>4. \A i, j \in 1..n : \A k : k \in S(i) /\ k \in S(j) => i = j
  BY <1>1, <1>3 DEF Distinct
<1>5. \A i \in 1..n : S(i) = {} => \A k \in DOMAIN list : list[k].url # sent[i].url
  BY <1>1 DEF NewUrls
<1> DEFINE Claimed(i) == {k \in DOMAIN list : \E j \in 1..i : k \in S(j)}
           Good(i) == /\ IsFiniteSet(F[i].taken) /\ F[i].claimed = Claimed(i)
                      /\ \A j \in 1..i : EntryMerged(list, F[j - 1], sent[j], F[j], S(j))
           Bad == {i \in 0..n : ~Good(i)}
<1>6. Good(0)
  <2>1. IsFiniteSet(F[0].taken) /\ F[0].claimed = {}
    BY <1>1, <1>2, IdsFinite DEF Merging
  <2>2. Claimed(0) = {}
    OBVIOUS
  <2>3. QED
    BY <2>1, <2>2
<1>7. ASSUME NEW i \in 1..n, Good(i - 1) PROVE Good(i)
  <2> DEFINE a == F[i - 1]
             e == sent[i]
  <2>1. IsFiniteSet(a.taken) /\ a.claimed = Claimed(i - 1)
        /\ \A j \in 1..(i - 1) : EntryMerged(list, F[j - 1], sent[j], F[j], S(j))
    BY <1>7
  <2>2. i \in Nat /\ (\A j \in 1..i : j = i \/ j \in 1..(i - 1))
        /\ (\A j \in 1..(i - 1) : j \in 1..i /\ j \in 1..n /\ j # i) /\ i \in 1..i
    BY <1>1
  <2>3. F[i] = MergeEntry(list, a, e)
    BY <1>2 DEF Merging
  <2>4. a.claimed \cap S(i) = {}
    <3> SUFFICES ASSUME NEW k, k \in Claimed(i - 1), k \in S(i) PROVE FALSE
      BY <2>1
    <3>1. PICK j \in 1..(i - 1) : k \in S(j)
      OBVIOUS
    <3>2. QED
      BY <1>4, <2>2, <3>1
  <2>5. Take(list, a.claimed, e) = S(i)
    <3>1. StoredAt(list, e.id) = S(i)
      OBVIOUS
    <3>2. StoredAt(list, e.id) = {} => \A k \in DOMAIN list : list[k].url # e.url
      BY <1>5
    <3> HIDE DEF a, e
    <3>3. QED
      BY <2>4, <3>1, <3>2, TakesStored
  <2>6. EntryMerged(list, a, e, MergeEntry(list, a, e), Take(list, a.claimed, e))
    <3> HIDE DEF a, e
    <3>1. QED
      BY <1>1, <2>1, MergesEntry
  <2>7. EntryMerged(list, a, e, F[i], S(i))
    BY <2>3, <2>5, <2>6
  <2>8. F[i].claimed = a.claimed \cup S(i) /\ F[i].taken = a.taken \cup {F[i].row.id}
    BY <2>7 DEF EntryMerged
  <2>9. IsFiniteSet(F[i].taken)
    <3> HIDE DEF a
    <3>1. IsFiniteSet(a.taken \cup {F[i].row.id})
      BY <2>1, FS_AddElement
    <3>2. QED
      BY <2>8, <3>1
  <2>10. F[i].claimed = Claimed(i)
    <3>1. Claimed(i) = Claimed(i - 1) \cup {k \in DOMAIN list : k \in S(i)}
      <4> HIDE DEF S
      <4>1. QED
        BY <2>2
    <3>2. {k \in DOMAIN list : k \in S(i)} = S(i)
      BY <1>3
    <3> HIDE DEF S, Claimed
    <3>3. QED
      BY <2>1, <2>8, <3>1, <3>2
  <2>11. \A j \in 1..i : EntryMerged(list, F[j - 1], sent[j], F[j], S(j))
    <3> HIDE DEF S
    <3>1. QED
      BY <2>1, <2>2, <2>7
  <2>12. QED
    BY <2>9, <2>10, <2>11
<1>8. Good(n)
  <2> HIDE DEF Good
  <2> SUFFICES ASSUME ~Good(n) PROVE FALSE
    OBVIOUS
  <2>1. n \in Bad /\ Bad \in SUBSET Nat
    BY <1>1
  <2>2. PICK m \in Bad : \A k \in Bad : m <= k
    BY <2>1, LeastOne
  <2>3. m # 0 /\ m \in 0..n /\ ~Good(m)
    BY <1>6, <2>2
  <2>4. m \in 1..n /\ m - 1 \in 0..n /\ ~ m <= m - 1
    BY <1>1, <2>3
  <2>5. Good(m - 1)
    BY <2>2, <2>4
  <2>6. QED
    BY <1>7, <2>3, <2>4, <2>5
<1> HIDE DEF out, S
<1>9. DOMAIN out = 1..n /\ \A i \in 1..n : out[i] = F[i].row
  BY <1>1, <1>2
<1>10. \A i \in 1..n : /\ sent[i].typed # NoSecret => out[i].secret = sent[i].typed
                       /\ (sent[i].typed = NoSecret /\ S(i) = {}) => out[i].secret = NoSecret
                       /\ sent[i].typed = NoSecret => \A k \in S(i) : out[i].secret = list[k].secret
  <2>1. \A i \in 1..n : EntryMerged(list, F[i - 1], sent[i], F[i], S(i))
    BY <1>8
  <2>2. QED
    BY <1>9, <2>1 DEF EntryMerged
<1>11. \A i \in DOMAIN sent : \A k \in StoredAt(list, sent[i].id) :
          (sent[i].typed = NoSecret /\ i \in StoredAt(sent, sent[i].id)) => out[i].secret = list[k].secret
  BY <1>1, <1>10 DEF S
<1>12. ASSUME NEW s \in {list[k].secret : k \in DOMAIN list} \ {NoSecret},
              \A i \in DOMAIN sent : sent[i].typed # s
       PROVE  Cardinality(Holders(out, s)) <= Cardinality(Holders(list, s))
  <2>1. IsFiniteSet(Holders(list, s))
    <3>1. IsFiniteSet(DOMAIN list)
      BY <1>1, FS_Interval
    <3>2. Holders(list, s) \in SUBSET DOMAIN list
      BY DEF Holders
    <3>3. QED
      BY <3>1, <3>2, FS_Subset
  <2>2. \A i \in Holders(out, s) : i \in 1..n /\ out[i].secret = s
    BY <1>9 DEF Holders
  <2>3. \A i \in Holders(out, s) : S(i) # {} /\ \A k \in S(i) : list[k].secret = s
    BY <1>1, <1>10, <1>12, <2>2
  <2> DEFINE g == [i \in Holders(out, s) |-> CHOOSE k \in S(i) : TRUE]
  <2>4. \A i \in Holders(out, s) : g[i] \in S(i)
    BY <2>3
  <2>5. \A i \in Holders(out, s) : g[i] \in Holders(list, s)
    BY <1>3, <2>2, <2>3, <2>4 DEF Holders
  <2>6. g \in [Holders(out, s) -> Holders(list, s)]
    BY <2>5
  <2>7. \A i, j \in Holders(out, s) : g[i] = g[j] => i = j
    <3> HIDE DEF g
    <3>1. QED
      BY <1>4, <2>2, <2>4
  <2> HIDE DEF g
  <2>8. g \in Injection(Holders(out, s), Holders(list, s))
    BY <2>6, <2>7 DEF Injection, IsInjective
  <2>9. QED
    BY <2>1, <2>8, FS_Injection
<1>13. Keeps(list, sent, out)
  BY <1>11, <1>12 DEF Keeps
<1>14. QED
  BY <1>13 DEF out

\* What a client does to the rows it fetched.
LEMMA EntriesList ==
    ASSUME NEW f \in Files, NEW edit \in f.edits, NEW v, EntryList(v), Len(v) > 0
    PROVE  EntryList(Entries(edit, v))
<1> DEFINE n == Len(v)
           out == Entries(edit, v)
           fields == {"id", "url", "typed"}
<1>1. /\ n \in Nat /\ n > 0 /\ DOMAIN v = 1..n /\ (\A i \in 1..n : DOMAIN v[i] = fields)
      /\ (\A i, j \in 1..n : v[i].id = v[j].id /\ v[i].id # NoId => i = j)
  BY DEF EntryList, ListOf, Distinct
<1>2. edit.at \in Nat /\ edit.op \in {"rename", "swap", "remove", "add", "replace", "forget"}
  BY StoreAssumption
<1>3. CASE edit.op = "rename"
  <2>1. out = [i \in DOMAIN v |-> IF i = edit.at THEN [v[i] EXCEPT !.url = edit.url] ELSE v[i]]
    BY <1>3 DEF Entries
  <2>2. DOMAIN out = 1..n /\ Len(out) = n
    BY <1>1, <2>1
  <2>3. \A i \in 1..n : DOMAIN out[i] = fields /\ out[i].id = v[i].id
    BY <1>1, <2>1
  <2>4. QED
    BY <1>1, <2>2, <2>3 DEF EntryList, ListOf, Distinct
<1>4. CASE edit.op = "swap"
  <2>1. out = [i \in DOMAIN v |-> [v[i] EXCEPT !.url = v[Len(v) + 1 - i].url]]
    BY <1>4 DEF Entries
  <2>2. DOMAIN out = 1..n /\ Len(out) = n
    BY <1>1, <2>1
  <2>3. \A i \in 1..n : DOMAIN out[i] = fields /\ out[i].id = v[i].id
    BY <1>1, <2>1
  <2>4. QED
    BY <1>1, <2>2, <2>3 DEF EntryList, ListOf, Distinct
<1>5. CASE edit.op = "remove"
  <2>1. out = [i \in 1..(n - 1) |-> IF i < edit.at THEN v[i] ELSE v[i + 1]]
    BY <1>5 DEF Entries
  <2>2. DOMAIN out = 1..(n - 1) /\ Len(out) = n - 1 /\ n - 1 \in Nat
    BY <1>1, <2>1
  <2> DEFINE h(i) == IF i < edit.at THEN i ELSE i + 1
  <2>3. \A i \in 1..(n - 1) : h(i) \in 1..n /\ out[i] = v[h(i)]
    BY <1>1, <1>2, <2>1
  <2>4. \A i, j \in 1..(n - 1) : h(i) = h(j) => i = j
    BY <1>1, <1>2
  <2> HIDE DEF h
  <2>5. \A i \in 1..(n - 1) : DOMAIN out[i] = fields
    BY <1>1, <2>3
  <2>6. \A i, j \in 1..(n - 1) : out[i].id = out[j].id /\ out[i].id # NoId => i = j
    BY <1>1, <2>3, <2>4
  <2>7. QED
    BY <2>2, <2>5, <2>6 DEF EntryList, ListOf, Distinct
<1>6. CASE edit.op = "add"
  <2> DEFINE e == [id |-> NoId, url |-> edit.url, typed |-> edit.key]
  <2>1. out = Append(v, e)
    BY <1>6 DEF Entries
  <2>2. \A i \in 1..(n + 1) : i \in 1..n \/ i = n + 1
    BY <1>1
  <2>3. Append(v, e) = [i \in 1..(n + 1) |-> IF i <= n THEN v[i] ELSE e]
    BY <1>1
  <2>4. DOMAIN out = 1..(n + 1) /\ Len(out) = n + 1 /\ n + 1 \in Nat
    BY <1>1, <2>1, <2>3
  <2>5. out[n + 1] = e /\ \A i \in 1..n : out[i] = v[i]
    BY <1>1, <2>1, <2>3
  <2>6. e.id = NoId /\ DOMAIN e = fields
    OBVIOUS
  <2> HIDE DEF e, out
  <2>7. \A i \in 1..(n + 1) : DOMAIN out[i] = fields
    BY <1>1, <2>2, <2>5, <2>6
  <2>8. \A i, j \in 1..(n + 1) : out[i].id = out[j].id /\ out[i].id # NoId => i = j
    BY <1>1, <2>2, <2>5, <2>6
  <2>9. EntryList(out)
    BY <2>4, <2>7, <2>8 DEF EntryList, ListOf, Distinct
  <2>10. QED
    BY <2>9 DEF out
<1>7. CASE edit.op = "replace"
  <2>1. out = <<[id |-> NoId, url |-> v[1].url, typed |-> NoSecret], [v[1] EXCEPT !.url = edit.url]>>
    BY <1>7 DEF Entries
  <2>2. DOMAIN out = 1..2 /\ Len(out) = 2
    BY <2>1
  <2>3. 1 \in 1..n
    BY <1>1
  <2>4. out[1].id = NoId /\ DOMAIN out[1] = fields /\ DOMAIN out[2] = fields
    BY <1>1, <2>1, <2>3
  <2> HIDE DEF out
  <2>5. \A i \in 1..2 : i = 1 \/ i = 2
    OBVIOUS
  <2>6. EntryList(out)
    BY <2>2, <2>4, <2>5 DEF EntryList, ListOf, Distinct
  <2>7. QED
    BY <2>6 DEF out
<1>8. CASE edit.op = "forget"
  <2>1. out = [i \in DOMAIN v |-> [v[i] EXCEPT !.id = NoId]]
    BY <1>8 DEF Entries
  <2>2. DOMAIN out = 1..n /\ Len(out) = n
    BY <1>1, <2>1
  <2>3. \A i \in 1..n : DOMAIN out[i] = fields /\ out[i].id = NoId
    BY <1>1, <2>1
  <2>4. QED
    BY <1>1, <2>2, <2>3 DEF EntryList, ListOf, Distinct
<1>9. QED
  BY <1>2, <1>3, <1>4, <1>5, <1>6, <1>7, <1>8

\* A user who edits the file gives no two of its rows one id.
DistinctFiles == \A f \in Files : \A d \in {f.disk} \cup f.hands : Distinct(d.rows)

LEMMA FilesRows ==
    ASSUME DistinctFiles, NEW f \in Files, NEW d \in {f.disk} \cup f.hands
    PROVE  RowList(d.rows) /\ RowList(Migrated(d).rows) /\ DOMAIN Migrated(d) = {"version", "rows"}
<1>1. RowList(d.rows)
  BY StoreAssumption DEF DistinctFiles, RowList, ListOf
<1>2. RowList(Stamped(d.rows))
  BY <1>1, StampedList
<1>3. QED
  BY <1>1, <1>2 DEF Migrated

LEMMA MigratedRows ==
    ASSUME NEW d, RowList(d.rows)
    PROVE  RowList(Migrated(d).rows) /\ DOMAIN Migrated(d) = {"version", "rows"}
<1>1. RowList(Stamped(d.rows))
  BY StampedList
<1>2. QED
  BY <1>1 DEF Migrated

\* What a client fetched: as in memory, without the secrets.
Fetched(v) == v = <<>> \/ (EntryList(v) /\ Len(v) > 0)

LEMMA PublicList ==
    ASSUME NEW list, RowList(list)
    PROVE  Fetched(Public(list))
<1> DEFINE n == Len(list)
           out == Public(list)
<1>1. n \in Nat /\ DOMAIN list = 1..n /\ Distinct(list)
  BY DEF RowList, ListOf
<1>2. out = [i \in 1..n |-> [id |-> list[i].id, url |-> list[i].url, typed |-> NoSecret]]
  BY <1>1 DEF Public
<1>3. DOMAIN out = 1..n /\ Len(out) = n
  BY <1>1, <1>2
<1>4. \A i \in 1..n : DOMAIN out[i] = {"id", "url", "typed"} /\ out[i].id = list[i].id
  BY <1>2
<1>5. n = 0 => out = <<>>
  BY <1>2
<1> HIDE DEF out
<1>6. EntryList(out)
  BY <1>1, <1>3, <1>4 DEF EntryList, ListOf, Distinct
<1>7. Fetched(out)
  BY <1>1, <1>3, <1>5, <1>6 DEF Fetched
<1>8. QED
  BY <1>7 DEF out

SecretInv ==
    /\ usage \in Files
    /\ RowList(disk.rows)
    /\ RowList(memory.rows) /\ DOMAIN memory = {"version", "rows"}
    /\ DOMAIN view = Browsers /\ \A c \in Browsers : Fetched(view[c])

LEMMA SecretsStart == ASSUME DistinctFiles, StoreInit PROVE SecretInv
  BY FilesRows DEF StoreInit, SecretInv, Fetched

LEMMA SecretsStep ==
    ASSUME DistinctFiles, SecretInv, [StoreNext]_storeVars PROVE SecretInv'
<1>1. CASE \E c \in Browsers : Fetch(c)
  <2>1. PICK c \in Browsers : Fetch(c)
    BY <1>1
  <2>2. view' = [view EXCEPT ![c] = Public(memory.rows)] /\ UNCHANGED <<usage, disk, memory>>
    BY <2>1 DEF Fetch
  <2>3. Fetched(Public(memory.rows))
    BY PublicList DEF SecretInv
  <2>4. \A b \in Browsers : view'[b] = view[b] \/ view'[b] = Public(memory.rows)
    BY <2>2 DEF SecretInv
  <2>5. DOMAIN view' = Browsers
    BY <2>2 DEF SecretInv
  <2>6. QED
    BY <2>2, <2>3, <2>4, <2>5 DEF SecretInv
<1>2. CASE \E c \in Browsers, e \in usage.edits : Patch(c, e)
  <2>1. PICK c \in Browsers, e \in usage.edits : Patch(c, e)
    BY <1>2
  <2> DEFINE sent == Entries(e, view[c])
  <2>2. /\ memory' = [memory EXCEPT !.rows = Merged(memory.rows, sent)]
        /\ UNCHANGED <<usage, disk, view>> /\ view[c] # <<>>
    BY <2>1 DEF Patch
  <2>3. EntryList(sent)
    BY <2>2, EntriesList DEF SecretInv, Fetched
  <2> HIDE DEF sent
  <2>4. RowList(Merged(memory.rows, sent))
    BY <2>3, MergedList DEF SecretInv, EntryList, ListOf
  <2>5. memory'.rows = Merged(memory.rows, sent) /\ DOMAIN memory' = {"version", "rows"}
    BY <2>2 DEF SecretInv
  <2>6. QED
    BY <2>2, <2>4, <2>5 DEF SecretInv
<1>3. CASE \E d \in usage.hands : HandEdit(d)
  <2>1. PICK d \in usage.hands : HandEdit(d)
    BY <1>3
  <2>2. disk' = d /\ UNCHANGED <<usage, memory, view>>
    BY <2>1 DEF HandEdit
  <2>3. RowList(d.rows)
    BY FilesRows DEF SecretInv
  <2>4. QED
    BY <2>2, <2>3 DEF SecretInv
<1>4. CASE Backup \/ Copied
  BY <1>4 DEF Backup, Copied, SecretInv
<1>5. CASE OpenFile
  <2>1. disk'.rows = <<>> /\ UNCHANGED <<usage, memory, view>>
    BY <1>5 DEF OpenFile
  <2>2. RowList(<<>>)
    BY DEF RowList, ListOf, Distinct
  <2>3. QED
    BY <2>1, <2>2 DEF SecretInv
<1>6. CASE WriteFile
  <2>1. disk'.rows = memory.rows /\ UNCHANGED <<usage, memory, view>>
    BY <1>6 DEF WriteFile
  <2>2. QED
    BY <2>1 DEF SecretInv
<1>7. CASE AgentCrash
  <2>1. view' = [c \in Browsers |-> <<>>] /\ UNCHANGED <<usage, memory, disk>>
    BY <1>7 DEF AgentCrash
  <2>2. QED
    BY <2>1 DEF SecretInv, Fetched
<1>8. CASE Load
  <2>1. memory' = Migrated(disk) /\ UNCHANGED <<usage, disk, view>>
    BY <1>8 DEF Load
  <2>2. RowList(Migrated(disk).rows) /\ DOMAIN Migrated(disk) = {"version", "rows"}
    BY MigratedRows DEF SecretInv
  <2>3. QED
    BY <2>1, <2>2 DEF SecretInv
<1>9. CASE UNCHANGED storeVars
  BY <1>9 DEF storeVars, SecretInv
<1>10. QED
  BY <1>1, <1>2, <1>3, <1>4, <1>5, <1>6, <1>7, <1>8, <1>9 DEF StoreNext

\* A secret that a client cannot see stays with its row, under any url, and goes
\* on no other row, whatever clients, users and crashes do, where every file the
\* user writes gives a row id to one row.
THEOREM SecretsStay == DistinctFiles => (StoreSpec => SecretsFollowRows)
<1> SUFFICES ASSUME DistinctFiles PROVE StoreSpec => SecretsFollowRows
  OBVIOUS
<1> DEFINE Followed ==
      \A c \in Browsers : view[c] # <<>> => \A edit \in usage.edits :
        LET sent == Entries(edit, view[c]) IN
        (/\ Patching(c, edit)
         /\ \A i \in DOMAIN sent : \A k \in DOMAIN memory.rows :
                (StoredAt(memory.rows, sent[i].id) = {} => memory.rows[k].url # sent[i].url))
        => Keeps(memory.rows, sent, memory'.rows)
<1>1. StoreInit => SecretInv
  BY SecretsStart
<1>2. SecretInv /\ [StoreNext]_storeVars => SecretInv'
  BY SecretsStep
<1>3. SecretInv => Followed
  <2> SUFFICES ASSUME SecretInv, NEW c \in Browsers, view[c] # <<>>, NEW edit \in usage.edits,
                      Patching(c, edit), NewUrls(memory.rows, Entries(edit, view[c]))
               PROVE  Keeps(memory.rows, Entries(edit, view[c]), memory'.rows)
    BY DEF NewUrls
  <2>1. memory'.rows = Merged(memory.rows, Entries(edit, view[c]))
    BY DEF Patching
  <2>2. EntryList(Entries(edit, view[c]))
    BY EntriesList DEF SecretInv, Fetched
  <2>3. RowList(memory.rows)
    BY DEF SecretInv
  <2>4. QED
    BY <2>1, <2>2, <2>3, KeepsMerged
<1>4. SecretInv /\ [StoreNext]_storeVars => [Followed]_storeVars
  BY <1>3
<1>5. QED
  BY <1>1, <1>2, <1>4, PTL DEF StoreSpec, SecretsFollowRows

-----------------------------------------------------------------------------
(* The all-time counters and their file *)

CounterSet == [requests : Nat, timed : Nat, seconds : Nat]
FileSet == [requests : Nat, timed : Nat, seconds : Nat, genuine : BOOLEAN]
Readable(doc) ==
    \/ doc \in {NoFile, Torn}
    \/ doc \in FileSet /\ (doc.genuine => doc.timed = doc.seconds)

UsageTypes ==
    /\ clock \in Nat /\ savedAt \in Nat
    /\ alltime \in CounterSet /\ alltime.seconds = alltime.timed
    /\ Readable(stats) /\ Readable(scratch)
    /\ DOMAIN history = 1..Len(history) /\ Len(history) \in Nat
    /\ \A e \in DOMAIN history : history[e].at \in Nat
    /\ saving \in {"no", "open", "write", "rename"}
    /\ phase \in {"serve", "close", "down"} /\ blind \in BOOLEAN

\* The file lags behind by what is dirty, if the process began with it; what is
\* about to replace it does not.
FileBehind ==
    /\ ~blind => alltime.requests >= Counters(stats).requests
    /\ ~blind /\ ~dirty => alltime.requests = Counters(stats).requests
    /\ saving = "rename" => Counters(scratch) = alltime
    /\ phase = "down" => saving = "no"

\* Only a refused save leaves a request unsaved for longer than an interval, or
\* anything dirty once the process has flushed.
LossBounded ==
    ~refused =>
        /\ phase = "close" /\ saving = "no" => ~dirty
        /\ ~blind /\ phase # "down" =>
               \A e \in Unsaved : \/ saving # "no" /\ e = Len(history)
                                  \/ history[e].at < savedAt + SaveInterval

UsageInv == UsageTypes /\ FileBehind /\ LossBounded

LEMMA CountersType ==
    ASSUME NEW doc, Readable(doc)
    PROVE  Counters(doc) \in CounterSet /\ Counters(doc).seconds = Counters(doc).timed
BY DEF Readable, Counters, CounterSet, FileSet, Zero

LEMMA CountersOfFile ==
    ASSUME NEW c \in CounterSet,
           NEW doc, doc = [requests |-> c.requests, timed |-> c.timed, seconds |-> c.seconds, genuine |-> TRUE]
    PROVE  Counters(doc) = c
<1>1. doc # NoFile /\ doc # Torn
  <2>1. "requests" \in DOMAIN doc /\ "requests" \notin DOMAIN NoFile /\ "requests" \notin DOMAIN Torn
    BY DEF NoFile, Torn
  <2>2. QED
    BY <2>1
<1>2. QED
  BY <1>1 DEF Counters, CounterSet

LEMMA LoadedType ==
    ASSUME Readable(stats), NEW fails \in Unreadable
    PROVE  /\ fails \in BOOLEAN /\ Loaded(fails) \in CounterSet
           /\ Loaded(fails).seconds = Loaded(fails).timed
           /\ ~fails => Loaded(fails) = Counters(stats)
<1>1. fails = TRUE \/ fails = FALSE
  BY DEF Unreadable
<1>2. CASE fails = TRUE
  BY <1>2 DEF Loaded, Zero, CounterSet
<1>3. CASE fails = FALSE
  <2>1. Loaded(fails) = Counters(stats)
    BY <1>3 DEF Loaded
  <2>2. QED
    BY <1>3, <2>1, CountersType
<1>4. QED
  BY <1>1, <1>2, <1>3

LEMMA UsageStarts == ASSUME UsageInit PROVE UsageInv
<1>1. Readable(stats) /\ Readable(scratch)
  BY LedgerAssumption DEF UsageInit, LedgerAssumption, Readable, FileSet
<1>2. /\ alltime \in CounterSet /\ alltime.seconds = alltime.timed
      /\ blind \in BOOLEAN /\ (~blind => alltime = Counters(stats))
  <2>1. PICK fails \in Unreadable : blind = fails /\ alltime = Loaded(fails)
    BY DEF UsageInit
  <2>2. QED
    BY <1>1, <2>1, LoadedType
<1>3. history = <<>> /\ DOMAIN history = {} /\ Len(history) = 0
  BY DEF UsageInit
<1>4. UsageTypes
  BY <1>1, <1>2, <1>3, LedgerAssumption DEF UsageInit, UsageTypes, LedgerAssumption
<1>5. QED
  BY <1>2, <1>3, <1>4 DEF UsageInit, UsageInv, FileBehind, LossBounded, Unsaved, CounterSet

\* A request is counted, and a save of it begun if one is due.
LEMMA RecordStep == ASSUME UsageInv, RecordUsage PROVE UsageInv'
<1> DEFINE call == Head(diary.calls)
           timed == IF call.ttft > 0 THEN 1 ELSE 0
<1>1. /\ phase = "serve" /\ saving = "no"
      /\ alltime' = [requests |-> alltime.requests + 1, timed |-> alltime.timed + timed,
                     seconds |-> alltime.seconds + timed]
      /\ history' = Append(history, [at |-> clock, tag |-> call.tag, ttft |-> call.ttft])
      /\ dirty' = TRUE /\ saving' = IF Due THEN "open" ELSE "no"
      /\ UNCHANGED <<clock, stats, scratch, savedAt, phase, refused, blind>>
  BY DEF RecordUsage
<1>2. timed \in Nat
  OBVIOUS
<1> HIDE DEF timed
<1>3. alltime' \in CounterSet /\ alltime'.requests = alltime.requests + 1 /\ alltime'.seconds = alltime'.timed
  BY <1>1, <1>2 DEF UsageInv, UsageTypes, CounterSet
<1>4. /\ Len(history') = Len(history) + 1 /\ DOMAIN history' = 1..(Len(history) + 1)
      /\ \A e \in DOMAIN history : history'[e] = history[e]
      /\ history'[Len(history) + 1].at = clock
  BY <1>1 DEF UsageInv, UsageTypes
<1>5. UsageTypes'
  BY <1>1, <1>3, <1>4 DEF UsageInv, UsageTypes
<1>6. Counters(stats)' = Counters(stats) /\ Counters(stats).requests \in Nat
  BY <1>1, CountersType DEF UsageInv, UsageTypes, CounterSet
<1>7. FileBehind'
  BY <1>1, <1>3, <1>6 DEF UsageInv, FileBehind, UsageTypes, CounterSet
<1>8. LossBounded'
  <2> SUFFICES ASSUME ~refused', ~blind', NEW e \in Unsaved'
               PROVE  \/ saving' # "no" /\ e = Len(history')
                      \/ history'[e].at < savedAt' + SaveInterval
    BY <1>1 DEF LossBounded
  <2>1. CASE e = Len(history) + 1
    BY <1>1, <1>4, <2>1, LedgerAssumption DEF Due, UsageInv, UsageTypes, LedgerAssumption
  <2>2. CASE e # Len(history) + 1
    <3>1. e \in DOMAIN history
      BY <1>4, <2>2 DEF Unsaved, UsageInv, UsageTypes
    <3>2. e \in Unsaved
      BY <1>3, <1>4, <1>6, <3>1 DEF Unsaved, UsageInv, UsageTypes, CounterSet
    <3>3. QED
      BY <1>1, <1>4, <3>1, <3>2 DEF UsageInv, LossBounded
  <2>3. QED
    BY <2>1, <2>2
<1>9. QED
  BY <1>5, <1>7, <1>8 DEF UsageInv

\* The new file has every request.
LEMMA ReplaceStep ==
    ASSUME UsageInv, Replace
    PROVE  UsageInv' /\ Counters(stats').requests = alltime.requests
<1>1. /\ Counters(stats') = alltime
      /\ UNCHANGED <<alltime, history, clock, phase>>
      /\ stats' = scratch /\ scratch' = NoFile /\ savedAt' = clock /\ ~dirty' /\ saving' = "no" /\ ~refused'
      /\ blind' = FALSE
  BY DEF Replace, UsageInv, FileBehind, memoryVars
<1>2. UsageTypes'
  BY <1>1 DEF UsageInv, UsageTypes, Readable
<1>3. FileBehind'
  BY <1>1 DEF FileBehind, UsageInv, UsageTypes, CounterSet
<1>4. Unsaved' = {}
  BY <1>1 DEF Unsaved, UsageInv, UsageTypes, CounterSet
<1>5. QED
  BY <1>1, <1>2, <1>3, <1>4 DEF UsageInv, LossBounded

\* A step that leaves counters and the file alone may only move the save.
LEMMA SaveSteps ==
    ASSUME UsageInv, OpenScratch \/ WriteScratch \/ SaveRefused \/ Close
    PROVE  UsageInv' /\ UNCHANGED <<alltime, stats>> /\ phase' # "down"
<1>1. UNCHANGED <<alltime, stats, history, clock, savedAt, dirty, blind>> /\ phase' # "down" /\ phase' \in {"serve", "close"}
  BY DEF OpenScratch, WriteScratch, SaveRefused, Close, memoryVars, UsageInv, UsageTypes
<1>2. Readable(scratch') /\ (saving' = "rename" => Counters(scratch') = alltime)
  <2>1. CASE WriteScratch
    <3>1. scratch' = [requests |-> alltime.requests, timed |-> alltime.timed,
                      seconds |-> alltime.seconds, genuine |-> TRUE]
      BY <2>1 DEF WriteScratch
    <3>2. alltime \in CounterSet /\ alltime.seconds = alltime.timed
      BY DEF UsageInv, UsageTypes
    <3>3. Counters(scratch') = alltime
      BY <3>1, <3>2, CountersOfFile
    <3>4. scratch' \in FileSet /\ scratch'.timed = scratch'.seconds
      BY <3>1, <3>2 DEF CounterSet, FileSet
    <3>5. QED
      BY <3>3, <3>4 DEF Readable
  <2>2. CASE OpenScratch \/ SaveRefused \/ Close
    <3>1. saving' # "rename" /\ scratch' \in {scratch, Torn}
      BY <2>2 DEF OpenScratch, SaveRefused, Close
    <3>2. QED
      BY <3>1 DEF UsageInv, UsageTypes, Readable
  <2>3. QED
    BY <2>1, <2>2
<1>3. saving' \in {"no", "open", "write", "rename"}
  BY DEF OpenScratch, WriteScratch, SaveRefused, Close
<1>4. UsageTypes' /\ FileBehind'
  BY <1>1, <1>2, <1>3 DEF UsageInv, UsageTypes, FileBehind
<1>5. Unsaved' = Unsaved
  BY <1>1 DEF Unsaved
<1>6. refused' \/ (~refused => saving # "no" /\ saving' # "no" /\ UNCHANGED phase)
      \/ (Close /\ UNCHANGED refused)
  BY DEF OpenScratch, WriteScratch, SaveRefused, Close
<1>7. LossBounded'
  <2>1. CASE refused'
    BY <2>1 DEF LossBounded
  <2>2. CASE OpenScratch \/ WriteScratch
    BY <1>1, <1>5, <2>2 DEF LossBounded, UsageInv, OpenScratch, WriteScratch
  <2>3. CASE Close
    BY <1>1, <1>5, <2>3 DEF LossBounded, UsageInv, Close
  <2>4. QED
    BY <2>1, <2>2, <2>3 DEF SaveRefused
<1>8. QED
  BY <1>1, <1>4, <1>7 DEF UsageInv

LEMMA UsageStep == ASSUME UsageInv, [UsageNext]_ledgerVars PROVE UsageInv'
<1>1. CASE RecordUsage
  BY <1>1, RecordStep
<1>2. CASE Replace
  BY <1>2, ReplaceStep
<1>3. CASE OpenScratch \/ WriteScratch \/ SaveRefused \/ Close
  BY <1>3, SaveSteps
<1>4. CASE Leave \/ Kill
  <2>1. /\ UNCHANGED <<alltime, stats, scratch, history, clock, savedAt, dirty, blind>>
        /\ phase' = "down" /\ saving' = "no"
    BY <1>4 DEF Leave, Kill, memoryVars
  <2>2. QED
    BY <2>1 DEF UsageInv, UsageTypes, FileBehind, LossBounded
<1>5. CASE Boot
  <2>1. /\ UNCHANGED <<stats, scratch, clock, saving>>
        /\ \E fails \in Unreadable : blind' = fails /\ alltime' = Loaded(fails)
        /\ history' = <<>> /\ savedAt' = 0 /\ phase' = "serve" /\ ~dirty' /\ phase = "down"
    BY <1>5 DEF Boot
  <2>2. /\ alltime' \in CounterSet /\ alltime'.seconds = alltime'.timed
        /\ blind' \in BOOLEAN /\ (~blind' => alltime' = Counters(stats))
    <3>1. PICK fails \in Unreadable : blind' = fails /\ alltime' = Loaded(fails)
      BY <2>1
    <3>2. QED
      BY <3>1, LoadedType DEF UsageInv, UsageTypes
  <2>3. Len(history') = 0 /\ DOMAIN history' = {}
    BY <2>1
  <2>4. UsageTypes'
    BY <2>1, <2>2, <2>3 DEF UsageInv, UsageTypes
  <2>5. ~blind' => Counters(stats') = alltime'
    BY <2>1, <2>2
  <2>6. FileBehind' 
    BY <2>1, <2>2, <2>5 DEF FileBehind, UsageInv, CounterSet
  <2>7. Unsaved' = {}
    BY <2>3 DEF Unsaved
  <2>8. QED
    BY <2>1, <2>4, <2>6, <2>7 DEF UsageInv, LossBounded
<1>6. CASE Pass \/ DiskChanges \/ UNCHANGED ledgerVars
  <2>1. /\ UNCHANGED <<alltime, stats, scratch, history, savedAt, dirty, saving, phase, refused, blind>>
        /\ clock' \in Nat
    BY <1>6 DEF Pass, DiskChanges, ledgerVars, memoryVars, UsageInv, UsageTypes
  <2>2. QED
    BY <2>1 DEF UsageInv, UsageTypes, FileBehind, LossBounded, Unsaved, Counters
<1>7. QED
  BY <1>1, <1>2, <1>3, <1>4, <1>5, <1>6 DEF UsageNext

\* A process that could read the file when it started never lowers the count in
\* it, a clean shutdown of it loses nothing and a kill no more than one
\* interval's requests beside the one being saved, over saves cut short, refused
\* and repeated, and any number of restarts before.
THEOREM TotalsKept == UsageSpec => AlltimeKept
<1> DEFINE Kept ==
      /\ ~blind => Counters(stats').requests >= Counters(stats).requests
      /\ alltime'.seconds = alltime'.timed
      /\ (phase # "down" /\ phase' = "down" /\ ~refused /\ ~blind) =>
             \A e \in Unsaved :
                 /\ phase = "serve" \/ saving # "no"
                 /\ \/ saving # "no" /\ e = Len(history)
                    \/ history[e].at < savedAt + SaveInterval
<1>1. UsageInit => UsageInv
  BY UsageStarts
<1>2. UsageInv /\ [UsageNext]_ledgerVars => UsageInv'
  BY UsageStep
<1>3. ASSUME UsageInv, UsageNext PROVE Kept
  <2>1. Counters(stats).requests \in Nat
    BY <1>3, CountersType DEF UsageInv, UsageTypes, CounterSet
  <2>2. ~blind => Counters(stats').requests >= Counters(stats).requests
    <3>1. CASE Replace
      BY <1>3, <3>1, ReplaceStep DEF UsageInv, FileBehind
    <3>2. CASE ~Replace
      <4>1. stats' = stats
        BY <1>3, <3>2 DEF UsageNext, RecordUsage, OpenScratch, WriteScratch, SaveRefused, Close, Leave,
                          Kill, Boot, Pass, DiskChanges
      <4>2. QED
        BY <2>1, <4>1
    <3>3. QED
      BY <3>1, <3>2
  <2>3. alltime'.seconds = alltime'.timed
    BY <1>3, UsageStep DEF UsageInv, UsageTypes
  <2>4. ASSUME phase # "down", phase' = "down", ~refused, ~blind, NEW e \in Unsaved
        PROVE  /\ phase = "serve" \/ saving # "no"
               /\ \/ saving # "no" /\ e = Len(history)
                  \/ history[e].at < savedAt + SaveInterval
    <3>1. dirty
      BY <1>3, <2>1, <2>4 DEF UsageInv, FileBehind, Unsaved, UsageTypes, CounterSet
    <3>2. QED
      BY <1>3, <2>4, <3>1 DEF UsageInv, UsageTypes, LossBounded
  <2>5. QED
    BY <2>2, <2>3, <2>4
<1>4. UsageInv /\ [UsageNext]_ledgerVars => [Kept]_ledgerVars
  BY <1>3
<1>5. QED
  BY <1>1, <1>2, <1>4, PTL DEF UsageSpec, AlltimeKept

-----------------------------------------------------------------------------
(* Arithmetic and sums *)

LEMMA Division ==
    ASSUME NEW a \in Nat, NEW w \in Nat \ {0}
    PROVE  /\ a \div w \in Nat /\ a % w \in 0..(w - 1)
           /\ a = w * (a \div w) + (a % w)
OBVIOUS
LEMMA Quotients ==
    ASSUME NEW w \in Nat \ {0}, NEW p \in Nat, NEW q \in Nat, NEW r \in 0..(w - 1), NEW s \in 0..(w - 1),
           w * p + r <= w * q + s
    PROVE  p <= q
<1> SUFFICES ASSUME q + 1 <= p PROVE FALSE
  OBVIOUS
<1>1. w * (q + 1) <= w * p
  OBVIOUS
<1>2. w * (q + 1) = w * q + w
  OBVIOUS
<1>3. QED
  BY <1>1, <1>2
LEMMA DivMonotone ==
    ASSUME NEW a \in Nat, NEW c \in Nat, NEW w \in Nat \ {0}, a <= c
    PROVE  a \div w <= c \div w
<1>1. w * (a \div w) + (a % w) <= w * (c \div w) + (c % w)
  BY Division
<1>2. QED
  BY <1>1, Division, Quotients
LEMMA DivAtLeast ==
    ASSUME NEW a \in Nat, NEW n \in Nat, NEW w \in Nat \ {0}, a >= n * w
    PROVE  a \div w >= n
<1>1. w * n + 0 <= w * (a \div w) + (a % w)
  BY Division
<1>2. a \div w \in Nat /\ a % w \in 0..(w - 1)
  BY Division
<1>0. 0 \in 0..(w - 1)
  OBVIOUS
<1>3. n <= a \div w
  BY <1>0, <1>1, <1>2, Quotients
<1>4. QED
  BY <1>2, <1>3
LEMMA SameSlot ==
    ASSUME NEW x \in Nat, NEW y \in Nat, NEW w \in Nat \ {0}, x % w = y % w, x < y
    PROVE  x + w <= y
<1> DEFINE p == x \div w
           q == y \div w
           r == x % w
<1>1. p \in Nat /\ q \in Nat /\ r \in 0..(w - 1) /\ x = w * p + r /\ y = w * q + r
  BY Division
<1> HIDE DEF p, q, r
<1>2. p < q
  <2>1. CASE q <= p
    <3>1. w * q <= w * p
      BY <1>1, <2>1
    <3>2. QED
      BY <1>1, <3>1
  <2>2. QED
    BY <1>1, <2>1
<1>3. w * (p + 1) <= w * q
  BY <1>1, <1>2
<1>4. w * (p + 1) = w * p + w
  BY <1>1
<1>5. QED
  BY <1>1, <1>3, <1>4

\* The totals FoldFunctionOnSet(+, 0, f, S) computes, by the subset of S.
Pick(s) == CHOOSE x \in s : TRUE
Total(f, g, s) == IF s = {} THEN 0 ELSE f[Pick(s)] + g[s \ {Pick(s)}]
Totals(f, S) == CHOOSE g : g = [s \in SUBSET S |-> Total(f, g, s)]

LEMMA FoldIsTotal == ASSUME NEW f, NEW S
  PROVE FoldFunctionOnSet(+, 0, f, S) = Totals(f, S)[S]
BY DEF FoldFunctionOnSet, MapThenFoldSet, Totals, Total, Pick

Table(f, D, g) == g = [s \in D |-> Total(f, g, s)]

UpTo(S, n) == {s \in SUBSET S : Cardinality(s) <= n}

LEMMA UpToStep ==
    ASSUME NEW S, IsFiniteSet(S), NEW n \in Nat, NEW s \in UpTo(S, n), s # {}
    PROVE  n > 0 /\ s \ {Pick(s)} \in UpTo(S, n - 1)
<1>1. Pick(s) \in s
  BY DEF Pick
<1>2. IsFiniteSet(s)
  BY FS_Subset DEF UpTo
<1>3. Cardinality(s \ {Pick(s)}) = Cardinality(s) - 1 /\ Cardinality(s) \in Nat
  BY <1>1, <1>2, FS_RemoveElement, FS_CardinalityType
<1>4. Cardinality(s \ {Pick(s)}) \in Nat
  BY <1>2, FS_Subset, FS_CardinalityType
<1>5. s \ {Pick(s)} \in SUBSET S
  BY DEF UpTo
<1>6. QED
  BY <1>3, <1>4, <1>5 DEF UpTo

LEMMA TotalsUpTo ==
    ASSUME NEW S, IsFiniteSet(S), NEW f, NEW n \in Nat
    PROVE  \E g : Table(f, UpTo(S, n), g)
<1> DEFINE Bad == {k \in Nat : ~ \E g : Table(f, UpTo(S, k), g)}
<1> SUFFICES ASSUME n \in Bad PROVE FALSE
  OBVIOUS
<1>1. PICK m \in Bad : \A k \in Bad : ~ (<<k, m>> \in OpToRel(<, Nat))
  BY WFMin, NatLessThanWellFounded
<1>2. m \in Nat /\ \A k \in Nat : k < m => k \notin Bad
  BY <1>1 DEF OpToRel
<1>3. CASE \A s \in UpTo(S, m) : s = {}
  <2> DEFINE h == [s \in UpTo(S, m) |-> 0]
  <2>1. \A s \in UpTo(S, m) : h[s] = Total(f, h, s)
    BY <1>3 DEF Total
  <2>2. h = [s \in UpTo(S, m) |-> Total(f, h, s)]
    BY <2>1
  <2>3. QED
    BY <2>2, <1>1 DEF Table
<1>4. CASE \E s \in UpTo(S, m) : s # {}
  <2>1. m > 0 /\ m - 1 \in Nat /\ m - 1 < m
    <3>1. m > 0
      BY <1>2, <1>4, UpToStep
    <3>2. QED
      BY <1>2, <3>1
  <2>2. PICK g : Table(f, UpTo(S, m - 1), g)
    BY <1>2, <2>1
  <2> DEFINE h == [s \in UpTo(S, m) |-> Total(f, g, s)]
  <2>3. ASSUME NEW s \in UpTo(S, m), s # {}
        PROVE  h[s \ {Pick(s)}] = g[s \ {Pick(s)}]
    <3> DEFINE t == s \ {Pick(s)}
    <3>1. t \in UpTo(S, m - 1)
      BY <1>2, <2>3, UpToStep
    <3>2. t \in UpTo(S, m)
      <4>1. Cardinality(t) <= m - 1 /\ Cardinality(t) \in Nat /\ t \in SUBSET S
        BY <3>1, FS_Subset, FS_CardinalityType DEF UpTo
      <4>2. QED
        BY <1>2, <4>1 DEF UpTo
    <3> HIDE DEF t
    <3>3. h[t] = Total(f, g, t) /\ g[t] = Total(f, g, t)
      BY <2>2, <3>1, <3>2 DEF Table
    <3>4. QED
      BY <3>3 DEF t
  <2>4. \A s \in UpTo(S, m) : h[s] = Total(f, h, s)
    BY <2>3 DEF Total
  <2>5. h = [s \in UpTo(S, m) |-> Total(f, h, s)]
    BY <2>4
  <2>6. QED
    BY <2>5, <1>1 DEF Table
<1>5. QED
  BY <1>3, <1>4

LEMMA TotalsExist ==
    ASSUME NEW S, IsFiniteSet(S), NEW f
    PROVE  Totals(f, S) = [s \in SUBSET S |-> Total(f, Totals(f, S), s)]
<1>1. Cardinality(S) \in Nat
  BY FS_CardinalityType
<1>2. UpTo(S, Cardinality(S)) = SUBSET S
  BY FS_Subset DEF UpTo
<1>3. \E g : Table(f, UpTo(S, Cardinality(S)), g)
  BY <1>1, TotalsUpTo
<1>4. \E g : Table(f, SUBSET S, g)
  BY <1>2, <1>3
<1>5. QED
  BY <1>4 DEF Totals, Table

\* What counts the members of R by their place adds up to those at any of S.
At(S, R, place) == {r \in R : place[r] \in S}
Counts(S, f, R, place) == \A u \in S : f[u] = Cardinality({r \in R : place[r] = u})

LEMMA TotalIs ==
    ASSUME NEW S, IsFiniteSet(S), NEW f, NEW R, IsFiniteSet(R), NEW place, Counts(S, f, R, place)
    PROVE  FoldFunctionOnSet(+, 0, f, S) = Cardinality(At(S, R, place))
<1> DEFINE g == Totals(f, S)
           On(s) == {r \in R : place[r] \in s}
           Bad == {k \in Nat : \E s \in SUBSET S : Cardinality(s) = k /\ g[s] # Cardinality(On(s))}
<1>1. \A s \in SUBSET S : g[s] = Total(f, g, s)
  <2>1. g = [s \in SUBSET S |-> Total(f, g, s)]
    BY TotalsExist
  <2> HIDE DEF g
  <2>2. QED
    BY <2>1
<1> HIDE DEF g
<1>2. ASSUME NEW s \in SUBSET S, g[s] # Cardinality(On(s))
      PROVE  /\ Cardinality(s) \in Nat /\ Cardinality(s) - 1 \in Bad
  <2>1. IsFiniteSet(s) /\ Cardinality(s) \in Nat
    BY FS_Subset, FS_CardinalityType
  <2>2. s # {}
    <3>1. On({}) = {} /\ Cardinality(On({})) = 0 /\ g[{}] = 0
      BY <1>1, FS_EmptySet DEF Total
    <3>2. QED
      BY <1>2, <3>1
  <2> DEFINE x == Pick(s)
             t == s \ {x}
             A == On(t)
             B == {r \in R : place[r] = x}
  <2>3. x \in s /\ t \in SUBSET S /\ x \in S
    BY <2>2 DEF Pick
  <2>4. Cardinality(t) = Cardinality(s) - 1
    BY <2>1, <2>3, FS_RemoveElement
  <2>5. g[s] = f[x] + g[t]
    BY <1>1, <2>2 DEF Total
  <2>6. f[x] = Cardinality(B)
    BY <2>3 DEF Counts
  <2>7. On(s) = A \cup B /\ A \cap B = {}
    BY <2>3
  <2>8. IsFiniteSet(A) /\ IsFiniteSet(B)
    BY FS_Subset
  <2>9. IsFiniteSet(t) /\ Cardinality(t) \in Nat
    BY <2>1, FS_Subset, FS_CardinalityType
  <2> HIDE DEF t, B, x
  <2>10. Cardinality(A \cup B) = Cardinality(A) + Cardinality(B)
    <3> HIDE DEF A
    <3>1. Cardinality(A \cup B) = Cardinality(A) + Cardinality(B) - Cardinality(A \cap B)
      BY <2>8, FS_Union
    <3>2. Cardinality(A \cap B) = 0
      BY <2>7, FS_EmptySet
    <3>3. Cardinality(A) \in Nat /\ Cardinality(B) \in Nat
      BY <2>8, FS_CardinalityType
    <3>4. QED
      BY <3>1, <3>2, <3>3
  <2>11. g[t] # Cardinality(On(t))
    <3>1. CASE g[t] = Cardinality(A)
      <4>1. g[s] = Cardinality(B) + Cardinality(A)
        BY <2>5, <2>6, <3>1
      <4>2. Cardinality(A) \in Nat /\ Cardinality(B) \in Nat
        BY <2>8, FS_CardinalityType
      <4>3. Cardinality(On(s)) = Cardinality(A) + Cardinality(B)
        BY <2>7, <2>10
      <4> HIDE DEF A, On
      <4>4. QED
        BY <1>2, <4>1, <4>2, <4>3
    <3>2. QED
      BY <3>1
  <2>12. QED
    BY <2>1, <2>3, <2>4, <2>9, <2>11
<1>3. Bad = {}
  <2> SUFFICES ASSUME Bad # {} PROVE FALSE
    OBVIOUS
  <2>1. PICK m \in Bad : \A k \in Bad : ~ (<<k, m>> \in OpToRel(<, Nat))
    BY WFMin, NatLessThanWellFounded
  <2>2. m - 1 \in Bad /\ m \in Nat
    BY <1>2
  <2>3. m - 1 \in Nat
    BY <2>2
  <2> HIDE DEF Bad
  <2>4. <<m - 1, m>> \in OpToRel(<, Nat)
    BY <2>2, <2>3 DEF OpToRel
  <2>5. QED
    BY <2>1, <2>2, <2>4
<1>4. S \in SUBSET S /\ Cardinality(S) \in Nat
  BY FS_CardinalityType
<1>5. g[S] = Cardinality(On(S))
  BY <1>3, <1>4
<1>6. QED
  BY <1>5, FoldIsTotal DEF g, At

-----------------------------------------------------------------------------
(* The slots of one span.  E are the requests it counts, T the tick each one *)
(* completed in; a slot holds the requests of the last tick that fell on it. *)

CellsExact(cells, b, now, E, T) ==
    /\ DOMAIN cells = 0..(b - 1)
    /\ \A s \in 0..(b - 1) :
           /\ cells[s].tick \in 0..now
           /\ cells[s].tick = 0 \/ cells[s].tick % b = s
           /\ cells[s].n = Cardinality({e \in E : T[e] = cells[s].tick})
           /\ \A e \in E : T[e] % b = s => T[e] <= cells[s].tick

\* No request is as old as the first tick of any slot.
Ticks(E, T, b, now) ==
    /\ IsFiniteSet(E) /\ b \in Nat \ {0} /\ now \in Nat
    /\ \A e \in E : T[e] \in Nat /\ b <= T[e] /\ T[e] <= now

\* The slot of a tick that is still in the window is of that tick.
LEMMA FreshSlot ==
    ASSUME NEW b, NEW now, NEW cells, NEW E, NEW T, CellsExact(cells, b, now, E, T), Ticks(E, T, b, now),
           NEW e \in E, T[e] + b > now
    PROVE  T[e] % b \in 0..(b - 1) /\ cells[T[e] % b].tick = T[e]
<1> DEFINE s == T[e] % b
           t == cells[s].tick
<1>1. T[e] \in Nat /\ b <= T[e] /\ T[e] <= now /\ b \in Nat \ {0} /\ now \in Nat
  BY DEF Ticks
<1>2. s \in 0..(b - 1)
  BY <1>1, Division
<1>3. t \in 0..now /\ (t = 0 \/ t % b = s) /\ T[e] <= t
  BY <1>2 DEF CellsExact
<1>4. t % b = T[e] % b /\ t \in Nat
  BY <1>1, <1>3
<1> HIDE DEF t
<1>5. ~ T[e] < t
  <2> SUFFICES ASSUME T[e] < t PROVE FALSE
    OBVIOUS
  <2>1. T[e] + b <= t
    BY <1>1, <1>4, SameSlot
  <2>2. QED
    BY <1>1, <1>3, <2>1
<1>6. t = T[e]
  BY <1>1, <1>3, <1>4, <1>5
<1>7. QED
  BY <1>2, <1>6 DEF t

\* Counting: A is the request that is counted now, or nothing.
CountedIn(cells, after, b, now, A) ==
    /\ DOMAIN after = 0..(b - 1)
    /\ \A s \in 0..(b - 1) : s # now % b => after[s] = cells[s]
    /\ after[now % b].tick = now
    /\ after[now % b].n = Cardinality(A) + (IF cells[now % b].tick = now THEN cells[now % b].n ELSE 0)

LEMMA SlotCounts ==
    ASSUME NEW b, NEW now, NEW cells, NEW after, NEW E, NEW T, NEW U, NEW A, IsFiniteSet(A), A \cap E = {},
           CellsExact(cells, b, now, E, T), Ticks(E, T, b, now), b <= now,
           \A e \in E : U[e] = T[e], \A e \in A : U[e] = now, CountedIn(cells, after, b, now, A)
    PROVE  CellsExact(after, b, now, E \cup A, U)
<1> DEFINE z == now % b
<1>0. /\ DOMAIN after = 0..(b - 1)
      /\ \A s \in 0..(b - 1) : s # now % b => after[s] = cells[s]
      /\ after[now % b].tick = now
      /\ after[now % b].n = Cardinality(A) + (IF cells[now % b].tick = now THEN cells[now % b].n ELSE 0)
  BY DEF CountedIn
<1>1. now \in Nat /\ b \in Nat \ {0} /\ IsFiniteSet(E) /\ z \in 0..(b - 1)
  BY Division DEF Ticks
<1>2. \A e \in E : T[e] \in Nat /\ T[e] <= now
  BY DEF Ticks
<1>3. ASSUME NEW s \in 0..(b - 1), s # z
      PROVE  /\ after[s].n = Cardinality({e \in E \cup A : U[e] = after[s].tick})
             /\ \A e \in E \cup A : U[e] % b = s => U[e] <= after[s].tick
  <2>1. after[s] = cells[s] /\ cells[s].tick # now
    <3>1. cells[s].tick = 0 \/ cells[s].tick % b = s
      BY DEF CellsExact
    <3>2. now # 0
      BY <1>1
    <3>3. QED
      BY <1>0, <1>3, <3>1, <3>2
  <2>2. {e \in E \cup A : U[e] = cells[s].tick} = {e \in E : T[e] = cells[s].tick}
    BY <2>1
  <2>3. cells[s].n = Cardinality({e \in E : T[e] = cells[s].tick})
    BY DEF CellsExact
  <2>4. \A e \in E : T[e] % b = s => T[e] <= cells[s].tick
    BY DEF CellsExact
  <2>5. QED
    BY <1>3, <2>1, <2>2, <2>3, <2>4
<1>4. after[z].n = Cardinality({e \in E \cup A : U[e] = now})
  <2> DEFINE Old == {e \in E : T[e] = now}
  <2>1. IsFiniteSet(Old) /\ Old \cap A = {}
    BY <1>1, FS_Subset
  <2>2. {e \in E \cup A : U[e] = now} = Old \cup A
    OBVIOUS
  <2>3. Cardinality(Old) = IF cells[z].tick = now THEN cells[z].n ELSE 0
    <3>1. CASE cells[z].tick = now
      BY <1>1, <3>1 DEF CellsExact
    <3>2. CASE cells[z].tick # now
      <4>1. cells[z].tick \in 0..now /\ \A e \in E : T[e] % b = z => T[e] <= cells[z].tick
        BY <1>1 DEF CellsExact
      <4>2. Old = {}
        BY <1>1, <3>2, <4>1
      <4>3. QED
        BY <3>2, <4>2, FS_EmptySet
    <3>3. QED
      BY <3>1, <3>2
  <2> HIDE DEF Old
  <2>4. Cardinality(Old \cup A) = Cardinality(Old) + Cardinality(A) - Cardinality(Old \cap A)
    BY <2>1, FS_Union
  <2>5. Cardinality(Old \cap A) = 0 /\ Cardinality(Old) \in Nat /\ Cardinality(A) \in Nat
    BY <2>1, FS_EmptySet, FS_CardinalityType
  <2>6. Cardinality(Old \cup A) = Cardinality(A) + Cardinality(Old)
    BY <2>4, <2>5
  <2>7. QED
    BY <1>0, <2>2, <2>3, <2>6
<1>5. \A e \in E \cup A : U[e] <= now
  BY <1>1, <1>2
<1>6. \A s \in 0..(b - 1) : after[s].tick \in 0..now /\ (after[s].tick = 0 \/ after[s].tick % b = s)
  <2> TAKE s \in 0..(b - 1)
  <2>1. cells[s].tick \in 0..now /\ (cells[s].tick = 0 \/ cells[s].tick % b = s)
    BY DEF CellsExact
  <2>2. now \in 0..now
    BY <1>1
  <2>3. QED
    BY <1>0, <2>1, <2>2
<1>7. \A s \in 0..(b - 1) :
          /\ after[s].n = Cardinality({e \in E \cup A : U[e] = after[s].tick})
          /\ \A e \in E \cup A : U[e] % b = s => U[e] <= after[s].tick
  <2> TAKE s \in 0..(b - 1)
  <2>1. CASE s = z
    BY <1>0, <1>4, <1>5, <2>1
  <2>2. CASE s # z
    BY <1>3, <2>2
  <2>3. QED
    BY <2>1, <2>2
<1>8. QED
  BY <1>0, <1>6, <1>7 DEF CellsExact

LEMMA SlotsLater ==
    ASSUME NEW b, NEW now \in Nat, NEW later \in Nat, now <= later, NEW cells, NEW E, NEW T,
           CellsExact(cells, b, now, E, T)
    PROVE  CellsExact(cells, b, later, E, T)
<1>1. ASSUME NEW x \in 0..now PROVE x \in 0..later
  OBVIOUS
<1>3. \A s \in 0..(b - 1) : cells[s].tick \in 0..now
  BY DEF CellsExact
<1>4. \A s \in 0..(b - 1) : cells[s].tick \in 0..later
  BY <1>1, <1>3
<1>2. QED
  BY <1>4 DEF CellsExact

\* What a series shows of a tick.
LEMMA SeriesOf ==
    ASSUME NEW b, NEW now, NEW cells, NEW E, NEW T, CellsExact(cells, b, now, E, T), Ticks(E, T, b, now),
           b <= now, NEW age \in 0..(b - 1),
           NEW slot, slot = cells[(now - age) % b]
    PROVE  (IF slot.tick = now - age THEN slot.n ELSE 0) = Cardinality({e \in E : T[e] + age = now})
<1> DEFINE w == now - age
<1>1. w \in Nat /\ b \in Nat \ {0} /\ now \in Nat
  BY DEF Ticks
<1>2. w % b \in 0..(b - 1)
  BY <1>1, Division
<1>3. {e \in E : T[e] + age = now} = {e \in E : T[e] = w}
  BY <1>1 DEF Ticks
<1>4. CASE slot.tick = w
  BY <1>2, <1>3, <1>4 DEF CellsExact
<1>5. CASE slot.tick # w
  <2>1. ASSUME NEW e \in E, T[e] = w PROVE FALSE
    <3>1. T[e] + b > now
      BY <1>1, <2>1
    <3>2. cells[w % b].tick = w
      BY <2>1, <3>1, FreshSlot
    <3>3. QED
      BY <1>5, <3>2
  <2>2. {e \in E : T[e] + age = now} = {}
    BY <1>3, <2>1
  <2>3. QED
    BY <1>5, <2>2, FS_EmptySet
<1>6. QED
  BY <1>4, <1>5

\* What a window shows.
LEMMA WindowOf ==
    ASSUME NEW b, NEW now, NEW cells, NEW E, NEW T, CellsExact(cells, b, now, E, T), Ticks(E, T, b, now), b <= now,
           NEW f, \A s \in DOMAIN cells : f[s] = cells[s].n,
           NEW F, \A s : s \in F <=> (s \in DOMAIN cells /\ cells[s].tick + b > now)
    PROVE  SumFunctionOnSet(f, F) = Cardinality({e \in E : T[e] + b > now})
<1> DEFINE R == {e \in E : T[e] + b > now}
           place == [e \in E |-> T[e] % b]
<1>1. IsFiniteSet(R) /\ b \in Nat \ {0} /\ now \in Nat
  BY FS_Subset DEF Ticks
<1>2. IsFiniteSet(0..(b - 1))
  BY <1>1, FS_Interval
<1>3. IsFiniteSet(F) /\ F \subseteq 0..(b - 1)
  BY <1>2, FS_Subset DEF CellsExact
<1>4. ASSUME NEW s \in F
      PROVE  f[s] = Cardinality({r \in R : place[r] = s})
  <2>1. s \in 0..(b - 1) /\ cells[s].tick + b > now /\ cells[s].tick \in Nat
    <3>1. s \in 0..(b - 1) /\ cells[s].tick + b > now
      BY <1>3, <1>4
    <3>2. cells[s].tick \in 0..now
      BY <3>1 DEF CellsExact
    <3>3. QED
      BY <1>1, <3>1, <3>2
  <2>2. f[s] = Cardinality({e \in E : T[e] = cells[s].tick})
    BY <1>3 DEF CellsExact
  <2>3. \A r \in R : T[r] % b = s => T[r] = cells[s].tick
    BY FreshSlot
  <2>4. ASSUME NEW e \in E, T[e] = cells[s].tick PROVE T[e] % b = s /\ e \in R
    <3>1. T[e] # 0
      BY <1>1 DEF Ticks
    <3>2. cells[s].tick = 0 \/ cells[s].tick % b = s
      BY <2>1 DEF CellsExact
    <3>3. QED
      BY <2>1, <2>4, <3>1, <3>2
  <2>5. {r \in R : place[r] = s} = {e \in E : T[e] = cells[s].tick}
    BY <2>3, <2>4
  <2>6. QED
    BY <2>2, <2>5
<1>5. \A r \in R : place[r] \in F
  <2> TAKE r \in R
  <2>1. T[r] % b \in 0..(b - 1) /\ cells[T[r] % b].tick = T[r]
    BY FreshSlot
  <2>2. QED
    BY <2>1 DEF CellsExact
<1>6. At(F, R, place) = R
  BY <1>5 DEF At
<1>9. Counts(F, f, R, place)
  BY <1>4 DEF Counts
<1> HIDE DEF R, place
<1>7. FoldFunctionOnSet(+, 0, f, F) = Cardinality(At(F, R, place))
  BY <1>1, <1>3, <1>9, TotalIs
<1>8. QED
  BY <1>6, <1>7 DEF SumFunctionOnSet, R

-----------------------------------------------------------------------------
(* Rows: which requests a row of the dimension counts.  D is the set of rows *)
(* there are, h the requests of this process.                                *)

Called == [at : Nat, tag : Tags \cup {NoTag}, ttft : 0..Ladder]
RowOf(D, tag) == IF tag \in D THEN tag ELSE Overflow
Measured(r, q) == q = "requests" \/ r.ttft > 0
InRow(h, D, key, q) ==
    {e \in DOMAIN h : /\ key = NoTag \/ (h[e].tag # NoTag /\ RowOf(D, h[e].tag) = key)
                      /\ Measured(h[e], q)}
AtStep(h, k) == {e \in DOMAIN h : h[e].ttft = k}
Unlisted(h, D) == {e \in DOMAIN h : h[e].tag \notin D \cup {NoTag}}
Times(h, i) == [e \in DOMAIN h |-> Tick(Spans[i], h[e].at)]

\* A request without a row of its own came when the dimension was full.
RowsKnown(h, D) ==
    /\ DOMAIN h = 1..Len(h) /\ Len(h) \in Nat
    /\ \A e \in DOMAIN h : h[e] \in Called
    /\ IsFiniteSet(D) /\ D \subseteq Tags \cup {Overflow}
    /\ Unlisted(h, D) # {} => Overflow \in D /\ Cardinality(D) >= KeyCap

\* The next request r of history h makes it h2, and the rows D2.
Next1(h, h2, r) ==
    /\ DOMAIN h2 = 1..Len(h2) /\ Len(h2) = Len(h) + 1
    /\ \A e \in DOMAIN h : h2[e] = h[e]
    /\ h2[Len(h) + 1] = r
KeyFor(D, tag) == IF tag \in D \/ Cardinality(D) < KeyCap THEN tag ELSE Overflow

LEMMA HistoryGrows ==
    ASSUME NEW h, NEW D, NEW h2, NEW r, RowsKnown(h, D), Next1(h, h2, r)
    PROVE  DOMAIN h2 = DOMAIN h \cup {Len(h) + 1} /\ Len(h) + 1 \notin DOMAIN h
BY DEF RowsKnown, Next1

LEMMA Untagged ==
    ASSUME NEW h, NEW D, NEW h2, NEW r \in Called, RowsKnown(h, D), Next1(h, h2, r), r.tag = NoTag
    PROVE  /\ RowsKnown(h2, D) /\ Unlisted(h2, D) = Unlisted(h, D)
           /\ \A q : \A key \in D : InRow(h2, D, key, q) = InRow(h, D, key, q)
<1>1. DOMAIN h2 = DOMAIN h \cup {Len(h) + 1} /\ Len(h) + 1 \notin DOMAIN h
  BY HistoryGrows
<1>2. \A e \in DOMAIN h : h2[e] = h[e]
  BY DEF Next1
<1>3. h2[Len(h) + 1] = r
  BY DEF Next1
<1>4. Unlisted(h2, D) = Unlisted(h, D)
  BY <1>1, <1>2, <1>3 DEF Unlisted
<1>5. \A e \in DOMAIN h2 : h2[e] \in Called
  BY <1>1, <1>2, <1>3 DEF RowsKnown
<1>6. DOMAIN h2 = 1..Len(h2) /\ Len(h2) \in Nat
  BY DEF RowsKnown, Next1
<1>7. RowsKnown(h2, D)
  BY <1>4, <1>5, <1>6 DEF RowsKnown
<1>8. ASSUME NEW key \in D, NEW q PROVE InRow(h2, D, key, q) = InRow(h, D, key, q)
  <2>1. key # NoTag
    BY LedgerAssumption DEF RowsKnown, LedgerAssumption
  <2>2. QED
    BY <1>1, <1>2, <1>3, <2>1 DEF InRow
<1>9. QED
  BY <1>4, <1>7, <1>8

\* The request is in the row of its key, the others are where they were.
Listed(h, D, h2, D2, r, key) ==
    /\ Unlisted(h2, D2) = Unlisted(h, D) \cup (IF key # r.tag THEN {Len(h) + 1} ELSE {})
    /\ \A q : \A k \in D \ {key} : InRow(h2, D2, k, q) = InRow(h, D, k, q)
    /\ \A q : InRow(h2, D2, key, q) = (IF key \in D THEN InRow(h, D, key, q) ELSE {})
                                      \cup (IF Measured(r, q) THEN {Len(h) + 1} ELSE {})

LEMMA Tagged ==
    ASSUME NEW h, NEW D, NEW h2, NEW r \in Called, RowsKnown(h, D), Next1(h, h2, r), r.tag # NoTag,
           NEW key, key = KeyFor(D, r.tag)
    PROVE  RowsKnown(h2, D \cup {key}) /\ Listed(h, D, h2, D \cup {key}, r, key)
<1> DEFINE D2 == D \cup {key}
<1> DEFINE n == Len(h) + 1
<1>1. DOMAIN h2 = DOMAIN h \cup {n} /\ n \notin DOMAIN h
  BY HistoryGrows
<1>2. (\A e \in DOMAIN h : h2[e] = h[e]) /\ h2[n] = r
  BY DEF Next1
<1>3. /\ Overflow \notin Tags /\ NoTag \notin Tags /\ NoTag # Overflow /\ KeyCap \in Nat
      /\ D \subseteq Tags \cup {Overflow}
      /\ r.tag \in Tags /\ \A e \in DOMAIN h : h[e].tag \in Tags \cup {NoTag}
  BY LedgerAssumption DEF RowsKnown, LedgerAssumption, Called
<1>4. key \in {r.tag, Overflow} /\ key # NoTag
  BY <1>3 DEF KeyFor
<1>5. Cardinality(D) \in Nat
  BY FS_CardinalityType DEF RowsKnown
\* What a request already counted has for a row does not change.
<1>6. ASSUME NEW e \in DOMAIN h, h[e].tag # NoTag
      PROVE  /\ h[e].tag \in D2 <=> h[e].tag \in D
             /\ key \notin D => RowOf(D, h[e].tag) # key /\ RowOf(D2, h[e].tag) # key
             /\ RowOf(D2, h[e].tag) = RowOf(D, h[e].tag)
  <2>1. h[e].tag \in Tags /\ h[e].tag # Overflow
    BY <1>3, <1>6
  <2>2. CASE h[e].tag \in D
    BY <2>1, <2>2 DEF RowOf
  <2>3. CASE h[e].tag \notin D
    <3>1. Overflow \in D /\ Cardinality(D) >= KeyCap
      BY <1>6, <2>3 DEF RowsKnown, Unlisted
    <3>2. key \in D
      BY <1>3, <1>5, <3>1 DEF KeyFor
    <3>3. D2 = D
      BY <3>2
    <3>4. QED
      BY <3>2, <3>3
  <2>4. QED
    BY <2>2, <2>3
<1>7. RowOf(D2, r.tag) = key /\ (r.tag \in D2 <=> key = r.tag)
  BY <1>3, <1>4 DEF KeyFor, RowOf
<1>17. D2 = D \cup {key}
  OBVIOUS
<1> HIDE DEF n, D2
<1>8. Unlisted(h2, D2) = Unlisted(h, D) \cup (IF key # r.tag THEN {n} ELSE {})
  BY <1>1, <1>2, <1>6, <1>7 DEF Unlisted
<1>9. ASSUME NEW k \in D \ {key}, NEW q PROVE InRow(h2, D2, k, q) = InRow(h, D, k, q)
  <2>1. k # NoTag /\ k # key
    BY <1>3, <1>9
  <2>2. \A e \in DOMAIN h : h[e].tag # NoTag => RowOf(D2, h[e].tag) = RowOf(D, h[e].tag)
    BY <1>6
  <2>3. QED
    BY <1>1, <1>2, <1>7, <2>1, <2>2 DEF InRow
<1>10. ASSUME NEW q
       PROVE  InRow(h2, D2, key, q) = (IF key \in D THEN InRow(h, D, key, q) ELSE {})
                                      \cup (IF Measured(r, q) THEN {n} ELSE {})
  <2>1. \A e \in DOMAIN h : h[e].tag # NoTag =>
            /\ RowOf(D2, h[e].tag) = RowOf(D, h[e].tag)
            /\ key \notin D => RowOf(D2, h[e].tag) # key
    BY <1>6
  <2>2. QED
    BY <1>1, <1>2, <1>4, <1>7, <2>1 DEF InRow
<1>11. \A e \in DOMAIN h2 : h2[e] \in Called
  BY <1>1, <1>2 DEF RowsKnown
<1>12. DOMAIN h2 = 1..Len(h2) /\ Len(h2) \in Nat
  BY DEF RowsKnown, Next1
<1>13. IsFiniteSet(D2) /\ D2 \subseteq Tags \cup {Overflow}
  <2>1. IsFiniteSet(D)
    BY DEF RowsKnown
  <2>2. IsFiniteSet(D2)
    BY <1>17, <2>1, FS_AddElement
  <2>3. QED
    BY <1>3, <1>4, <1>17, <2>2
<1>14. Unlisted(h2, D2) # {} => Overflow \in D2 /\ Cardinality(D2) >= KeyCap
  <2> SUFFICES ASSUME Unlisted(h2, D2) # {} PROVE Overflow \in D2 /\ Cardinality(D2) >= KeyCap
    OBVIOUS
  <2>1. Overflow \in D2 /\ Cardinality(D) >= KeyCap
    <3>1. CASE Unlisted(h, D) # {}
      BY <1>17, <3>1 DEF RowsKnown
    <3>2. CASE key # r.tag
      BY <1>3, <1>5, <1>17, <3>2 DEF KeyFor
    <3>3. QED
      BY <1>8, <3>1, <3>2
  <2>2. Cardinality(D) <= Cardinality(D2) /\ Cardinality(D2) \in Nat
    BY <1>13, <1>17, FS_Subset, FS_CardinalityType
  <2>3. QED
    BY <1>3, <1>5, <2>1, <2>2
<1>15. RowsKnown(h2, D2)
  BY <1>11, <1>12, <1>13, <1>14 DEF RowsKnown
<1>16. QED
  BY <1>8, <1>9, <1>10, <1>15 DEF n, D2, Listed

-----------------------------------------------------------------------------
(* Windows of every row and of the ladder *)

SpanExact(cells, i, now, h, E) ==
    CellsExact(cells, Spans[i].buckets, Tick(Spans[i], now), E, Times(h, i))

StepCells(g, k) == [s \in DOMAIN g |-> [tick |-> g[s].tick, n |-> g[s].n[k]]]

\* Every request completed since the process began.
Timely(h, now) ==
    /\ now \in Nat /\ now >= Since /\ IsFiniteSet(DOMAIN h)
    /\ \A e \in DOMAIN h : h[e].at \in Nat /\ Since <= h[e].at /\ h[e].at <= now

\* A row whose measure q counts the requests in E[q].
EntryExact(entry, now, h, E) ==
    /\ DOMAIN entry = Measures
    /\ \A q \in Measures :
           /\ DOMAIN entry[q] = DOMAIN Spans
           /\ \A i \in DOMAIN Spans : SpanExact(entry[q][i], i, now, h, E[q])
InRows(h, D, key) == [q \in Measures |-> InRow(h, D, key, q)]

RowsExact(book, now, h) ==
    \A key \in DOMAIN book : EntryExact(book[key], now, h, InRows(h, DOMAIN book, key))

LadderExact(g, now, h) ==
    /\ DOMAIN g = 0..(Spans[1].buckets - 1)
    /\ \A s \in DOMAIN g : DOMAIN g[s].n = 1..Ladder
    /\ \A k \in 1..Ladder : SpanExact(StepCells(g, k), 1, now, h, AtStep(h, k))

RowsOk(h, book, cut, now) ==
    /\ RowsKnown(h, DOMAIN book) /\ RowsExact(book, now, h)
    /\ cut = Cardinality(Unlisted(h, DOMAIN book))

WindowInv ==
    /\ diary.calls \in Seq([tag : Tags \cup {NoTag}, ttft : 0..Ladder])
    /\ Timely(history, clock)
    /\ RowsOk(history, entries, truncated, clock)
    /\ LadderExact(histogram, clock, history)

LEMMA SpanType ==
    ASSUME NEW i \in DOMAIN Spans
    PROVE  /\ Spans[i].buckets \in Nat \ {0} /\ Spans[i].width \in Nat \ {0}
           /\ Since \in Nat /\ Since >= Spans[i].buckets * Spans[i].width
BY LedgerAssumption DEF LedgerAssumption

LEMMA SpanTick ==
    ASSUME NEW i \in DOMAIN Spans, NEW now \in Nat
    PROVE  Tick(Spans[i], now) \in Nat
BY SpanType, Division DEF Tick

LEMMA SpanTicks ==
    ASSUME NEW h, NEW now, Timely(h, now), NEW i \in DOMAIN Spans, NEW E \in SUBSET DOMAIN h
    PROVE  /\ Ticks(E, Times(h, i), Spans[i].buckets, Tick(Spans[i], now))
           /\ Spans[i].buckets <= Tick(Spans[i], now)
<1> DEFINE b == Spans[i].buckets
           w == Spans[i].width
<1>1. b \in Nat \ {0} /\ w \in Nat \ {0} /\ Since \in Nat /\ Since >= b * w
  BY SpanType
<1> HIDE DEF b, w
<1>2. ASSUME NEW a \in Nat, Since <= a, a <= now
      PROVE  a \div w \in Nat /\ b <= a \div w /\ a \div w <= now \div w
  <2>1. now \in Nat /\ b * w \in Nat
    BY <1>1 DEF Timely
  <2>2. a >= b * w
    BY <1>1, <1>2, <2>1
  <2>3. a \div w >= b /\ a \div w \in Nat
    BY <1>1, <2>2, DivAtLeast, Division
  <2>4. a \div w <= now \div w
    BY <1>1, <1>2, <2>1, DivMonotone
  <2>5. QED
    BY <1>1, <2>3, <2>4
<1>3. now \div w \in Nat /\ b <= now \div w
  BY <1>2 DEF Timely
<1>4. \A e \in E : Times(h, i)[e] = h[e].at \div w
  BY DEF Times, Tick, w
<1>5. IsFiniteSet(E)
  BY FS_Subset DEF Timely
<1>6. \A e \in E : /\ Times(h, i)[e] \in Nat
                   /\ b <= Times(h, i)[e] /\ Times(h, i)[e] <= now \div w
  BY <1>2, <1>4 DEF Timely
<1>7. QED
  BY <1>1, <1>3, <1>5, <1>6 DEF Ticks, Tick, b, w

LEMMA SameCells ==
    ASSUME NEW b, NEW now, NEW cells, NEW E, NEW T, NEW U, CellsExact(cells, b, now, E, T),
           \A e \in E : U[e] = T[e]
    PROVE  CellsExact(cells, b, now, E, U)
<1>1. \A x : {e \in E : U[e] = x} = {e \in E : T[e] = x}
  OBVIOUS
<1>2. QED
  BY <1>1 DEF CellsExact

\* A new process, or a new row, has counted nothing.
LEMMA EmptyCells ==
    ASSUME NEW b, NEW now \in Nat, NEW cells, NEW T, DOMAIN cells = 0..(b - 1),
           \A s \in 0..(b - 1) : cells[s].tick = 0 /\ cells[s].n = 0
    PROVE  CellsExact(cells, b, now, {}, T)
<1>1. \A x : {e \in {} : T[e] = x} = {}
  OBVIOUS
<1>2. Cardinality({}) = 0
  BY FS_EmptySet
<1>3. 0 \in 0..now
  OBVIOUS
<1>4. QED
  BY <1>1, <1>2, <1>3 DEF CellsExact

LEMMA SpanCounts ==
    ASSUME NEW h, NEW D, NEW h2, NEW r \in Called, RowsKnown(h, D), Next1(h, h2, r),
           NEW now, Timely(h, now), r.at = now,
           NEW i \in DOMAIN Spans, NEW E \in SUBSET DOMAIN h, NEW cells, SpanExact(cells, i, now, h, E)
    PROVE  /\ SpanExact(cells, i, now, h2, E)
           /\ \A after : \A A \in SUBSET {Len(h) + 1} :
                 CountedIn(cells, after, Spans[i].buckets, Tick(Spans[i], now), A)
                 => SpanExact(after, i, now, h2, E \cup A)
<1> DEFINE T == Times(h, i)
           U == Times(h2, i)
           b == Spans[i].buckets
           t == Tick(Spans[i], now)
<1>1. DOMAIN h2 = DOMAIN h \cup {Len(h) + 1} /\ Len(h) + 1 \notin DOMAIN h
  BY HistoryGrows
<1>2. (\A e \in E : U[e] = T[e]) /\ U[Len(h) + 1] = t
  BY <1>1 DEF Times, Next1
<1>3. Ticks(E, T, b, t) /\ b <= t
  BY SpanTicks
<1>4. CellsExact(cells, b, t, E, T)
  BY DEF SpanExact
<1> HIDE DEF T, U, b, t
<1>5. CellsExact(cells, b, t, E, U)
  BY <1>2, <1>4, SameCells
<1>6. IsFiniteSet({Len(h) + 1})
  BY FS_Singleton
<1>7. ASSUME NEW A \in SUBSET {Len(h) + 1}, NEW after, CountedIn(cells, after, b, t, A)
      PROVE  CellsExact(after, b, t, E \cup A, U)
  <2>1. IsFiniteSet(A)
    BY <1>6, FS_Subset
  <2>2. A \cap E = {} /\ \A e \in A : U[e] = t
    BY <1>1, <1>2
  <2>3. \A e \in E : U[e] = T[e]
    BY <1>2
  <2>4. QED
    BY <1>3, <1>4, <1>7, <2>1, <2>2, <2>3, SlotCounts
<1>8. QED
  BY <1>5, <1>7 DEF SpanExact, T, U, b, t

\* A span of a ring that counts the request.
LEMMA AddExact ==
    ASSUME NEW h, NEW D, NEW h2, NEW r \in Called, RowsKnown(h, D), Next1(h, h2, r),
           NEW now, Timely(h, now), r.at = now,
           NEW i \in DOMAIN Spans, NEW E \in SUBSET DOMAIN h, NEW ring, DOMAIN ring = DOMAIN Spans,
           SpanExact(ring[i], i, now, h, E)
    PROVE  DOMAIN Add(ring, now, 1) = DOMAIN Spans
           /\ SpanExact(Add(ring, now, 1)[i], i, now, h2, E \cup {Len(h) + 1})
<1> DEFINE after == Add(ring, now, 1)[i]
           b == Spans[i].buckets
           t == Tick(Spans[i], now)
           z == t % b
           A == {Len(h) + 1}
<1>1. after = [ring[i] EXCEPT ![z] = [tick |-> t, n |-> 1 + (IF @.tick = t THEN @.n ELSE 0)]]
  BY DEF Add, Slot
<1>2. DOMAIN ring[i] = 0..(b - 1)
  BY DEF SpanExact, CellsExact
<1>3. z \in 0..(b - 1)
  BY SpanTick, SpanType, Division DEF Timely
<1> HIDE DEF z, t, b, after
<1>4. /\ DOMAIN after = 0..(b - 1)
      /\ \A s \in 0..(b - 1) : s # z => after[s] = ring[i][s]
      /\ after[z].tick = t
      /\ after[z].n = 1 + (IF ring[i][z].tick = t THEN ring[i][z].n ELSE 0)
  BY <1>1, <1>2, <1>3
<1>5. Cardinality(A) = 1
  BY FS_Singleton
<1> HIDE DEF A
<1>6. CountedIn(ring[i], after, b, t, A)
  BY <1>4, <1>5 DEF CountedIn, z
<1>7. A \in SUBSET {Len(h) + 1}
  BY DEF A
<1>8. SpanExact(after, i, now, h2, E \cup A)
  BY <1>6, <1>7, SpanCounts DEF t, b
<1>9. QED
  BY <1>8 DEF Add, after, A

\* A row that counts, or passes over, the request.
Grew(E, E2, h, r) ==
    \A q \in Measures :
        /\ E[q] \in SUBSET DOMAIN h
        /\ E2[q] = E[q] \cup (IF Measured(r, q) THEN {Len(h) + 1} ELSE {})

LEMMA RowCounts ==
    ASSUME NEW h, NEW D, NEW h2, NEW r \in Called, RowsKnown(h, D), Next1(h, h2, r),
           NEW now, Timely(h, now), r.at = now,
           NEW entry, NEW E, NEW E2, EntryExact(entry, now, h, E), Grew(E, E2, h, r)
    PROVE  EntryExact(Counted(entry, now, r.ttft), now, h2, E2)
<1>1. \A q \in Measures : Counted(entry, now, r.ttft)[q] =
          IF Measured(r, q) THEN Add(entry[q], now, 1) ELSE entry[q]
  BY DEF Counted, Measured
<1>2. ASSUME NEW q \in Measures
      PROVE  /\ DOMAIN Counted(entry, now, r.ttft)[q] = DOMAIN Spans
             /\ \A i \in DOMAIN Spans : SpanExact(Counted(entry, now, r.ttft)[q][i], i, now, h2, E2[q])
  <2>1. DOMAIN entry[q] = DOMAIN Spans /\ E[q] \in SUBSET DOMAIN h
    BY DEF EntryExact, Grew
  <2>2. \A i \in DOMAIN Spans : SpanExact(entry[q][i], i, now, h, E[q])
    BY DEF EntryExact
  <2>3. CASE Measured(r, q)
    <3>1. Counted(entry, now, r.ttft)[q] = Add(entry[q], now, 1)
      BY <1>1, <2>3
    <3>2. E2[q] = E[q] \cup {Len(h) + 1}
      BY <2>3 DEF Grew
    <3>3. DOMAIN Add(entry[q], now, 1) = DOMAIN Spans
      BY <2>1 DEF Add
    <3>4. ASSUME NEW i \in DOMAIN Spans
          PROVE  SpanExact(Add(entry[q], now, 1)[i], i, now, h2, E[q] \cup {Len(h) + 1})
      BY <2>1, <2>2, AddExact
    <3>5. QED
      BY <3>1, <3>2, <3>3, <3>4
  <2>4. CASE ~Measured(r, q)
    <3>1. Counted(entry, now, r.ttft)[q] = entry[q] /\ E2[q] = E[q]
      BY <1>1, <2>4 DEF Grew
    <3>2. ASSUME NEW i \in DOMAIN Spans
          PROVE  SpanExact(entry[q][i], i, now, h2, E[q])
      BY <2>1, <2>2, SpanCounts
    <3>3. QED
      BY <2>1, <3>1, <3>2
  <2>5. QED
    BY <2>3, <2>4
<1>3. DOMAIN Counted(entry, now, r.ttft) = Measures
  BY DEF Counted
<1>4. QED
  BY <1>2, <1>3 DEF EntryExact

LEMMA RowPassed ==
    ASSUME NEW h, NEW D, NEW h2, NEW r \in Called, RowsKnown(h, D), Next1(h, h2, r),
           NEW now, Timely(h, now), r.at = now,
           NEW entry, NEW E, EntryExact(entry, now, h, E), \A q \in Measures : E[q] \in SUBSET DOMAIN h
    PROVE  EntryExact(entry, now, h2, E)
<1>1. ASSUME NEW q \in Measures, NEW i \in DOMAIN Spans
      PROVE  SpanExact(entry[q][i], i, now, h2, E[q])
  <2>1. SpanExact(entry[q][i], i, now, h, E[q])
    BY DEF EntryExact
  <2>2. QED
    BY <2>1, SpanCounts
<1>2. QED
  BY <1>1 DEF EntryExact

LEMMA FreshExact ==
    ASSUME NEW now \in Nat, NEW h, NEW E, \A q \in Measures : E[q] = {}
    PROVE  EntryExact(Fresh, now, h, E)
<1>1. DOMAIN Fresh = Measures /\ DOMAIN SpanRing = DOMAIN Spans /\ \A q \in Measures : Fresh[q] = SpanRing
  BY DEF Fresh, SpanRing
<1>2. ASSUME NEW i \in DOMAIN Spans PROVE SpanExact(SpanRing[i], i, now, h, {})
  <2>1. SpanRing[i] = [s \in 0..(Spans[i].buckets - 1) |-> [tick |-> 0, n |-> 0]]
    BY DEF SpanRing
  <2>2. DOMAIN SpanRing[i] = 0..(Spans[i].buckets - 1)
        /\ \A s \in 0..(Spans[i].buckets - 1) : SpanRing[i][s].tick = 0 /\ SpanRing[i][s].n = 0
    BY <2>1
  <2>3. Tick(Spans[i], now) \in Nat
    BY SpanTick
  <2>4. QED
    BY <2>2, <2>3, EmptyCells DEF SpanExact
<1>3. QED
  BY <1>1, <1>2 DEF EntryExact

\* The rows of the dimension after a request.
LEMMA RowsCount ==
    ASSUME NEW r \in Called, RowsOk(history, entries, truncated, clock), Timely(history, clock),
           r.at = clock, Next1(history, history', r), CountRow(r.tag, r.ttft)
    PROVE  RowsOk(history', entries', truncated', clock)
<1> DEFINE h == history
           h2 == history'
           D == DOMAIN entries
           key == EntryFor(r.tag)
           entry == IF key \in D THEN entries[key] ELSE Fresh
<1>1. RowsKnown(h, D) /\ RowsExact(entries, clock, h) /\ truncated = Cardinality(Unlisted(h, D))
  BY DEF RowsOk
<1>2. clock \in Nat
  BY DEF Timely
<1>3. \A k \in D, q \in Measures : InRows(h, D, k)[q] \in SUBSET DOMAIN h
  BY DEF InRows, InRow
<1>4. \A k \in D : EntryExact(entries[k], clock, h, InRows(h, D, k))
  BY <1>1 DEF RowsExact
<1>5. \A k \in D : EntryExact(entries[k], clock, h2, InRows(h, D, k))
  BY <1>1, <1>3, <1>4, RowPassed
<1>6. CASE r.tag = NoTag
  <2>1. entries' = entries /\ truncated' = truncated
    BY <1>6 DEF CountRow
  <2>2. RowsKnown(h2, D) /\ Unlisted(h2, D) = Unlisted(h, D)
        /\ \A q : \A k \in D : InRow(h2, D, k, q) = InRow(h, D, k, q)
    BY <1>1, <1>6, Untagged
  <2>3. \A k \in D : InRows(h2, D, k) = InRows(h, D, k)
    BY <2>2 DEF InRows
  <2>4. QED
    BY <1>1, <1>5, <2>1, <2>2, <2>3 DEF RowsOk, RowsExact
<1>7. CASE r.tag # NoTag
  <2> DEFINE D2 == D \cup {key}
  <2>1. /\ entries' = [k \in D2 |-> IF k = key THEN Counted(entry, clock, r.ttft) ELSE entries[k]]
        /\ truncated' = truncated + (IF key # r.tag THEN 1 ELSE 0)
    BY <1>7 DEF CountRow
  <2>2. key = KeyFor(D, r.tag)
    BY DEF EntryFor, KeyFor
  <2>3. RowsKnown(h2, D2) /\ Listed(h, D, h2, D2, r, key)
    BY <1>1, <1>7, <2>2, Tagged
  <2>4. DOMAIN entries' = D2
    BY <2>1
  <2>5. \A k \in D2 : entries'[k] = IF k = key THEN Counted(entry, clock, r.ttft) ELSE entries[k]
    BY <2>1
  <2> HIDE DEF D2, key
  <2>6. truncated' = Cardinality(Unlisted(h2, D2))
    <3>1. IsFiniteSet(Unlisted(h, D)) /\ Len(h) + 1 \notin Unlisted(h, D)
      <4>1. IsFiniteSet(DOMAIN h) /\ Unlisted(h, D) \in SUBSET DOMAIN h
        BY DEF Timely, Unlisted
      <4>2. Len(h) + 1 \notin DOMAIN h
        BY <1>1, HistoryGrows
      <4>3. QED
        BY <4>1, <4>2, FS_Subset
    <3>2. Cardinality(Unlisted(h, D) \cup {Len(h) + 1}) = Cardinality(Unlisted(h, D)) + 1
          /\ Cardinality(Unlisted(h, D)) \in Nat
      BY <3>1, FS_AddElement, FS_CardinalityType
    <3>3. CASE key # r.tag
      <4>1. Unlisted(h2, D2) = Unlisted(h, D) \cup {Len(h) + 1} /\ truncated' = truncated + 1
        BY <2>1, <2>3, <3>3 DEF Listed
      <4>2. QED
        BY <1>1, <3>2, <4>1
    <3>4. CASE key = r.tag
      <4>1. Unlisted(h2, D2) = Unlisted(h, D) /\ truncated' = truncated + 0
        BY <2>1, <2>3, <3>4 DEF Listed
      <4>2. QED
        BY <1>1, <3>2, <4>1
    <3>5. QED
      BY <3>3, <3>4
  <2>7. ASSUME NEW k \in D, k # key PROVE EntryExact(entries[k], clock, h2, InRows(h2, D2, k))
    <3>1. InRows(h2, D2, k) = InRows(h, D, k)
      BY <2>3, <2>7 DEF Listed, InRows
    <3>2. QED
      BY <1>5, <3>1
  <2>8. EntryExact(Counted(entry, clock, r.ttft), clock, h2, InRows(h2, D2, key))
    <3> DEFINE E == [q \in Measures |-> IF key \in D THEN InRow(h, D, key, q) ELSE {}]
               E2 == InRows(h2, D2, key)
    <3>1. Grew(E, E2, h, r)
      BY <2>3 DEF Grew, Listed, InRows, InRow
    <3>2. EntryExact(entry, clock, h, E)
      <4>1. CASE key \in D
        <5>1. entry = entries[key] /\ E = InRows(h, D, key)
          BY <4>1 DEF InRows
        <5>2. QED
          BY <1>4, <4>1, <5>1
      <4>2. CASE key \notin D
        <5>1. entry = Fresh /\ \A q \in Measures : E[q] = {}
          BY <4>2
        <5> HIDE DEF entry, E
        <5>2. QED
          BY <1>2, <5>1, FreshExact
      <4>3. QED
        BY <4>1, <4>2
    <3> HIDE DEF entry, E
    <3>3. QED
      BY <1>1, <3>1, <3>2, RowCounts
  <2>9. RowsExact(entries', clock, h2)
    <3>1. \A k \in D2 : k \in D \/ k = key
      BY DEF D2
    <3>2. QED
      BY <2>4, <2>5, <2>7, <2>8, <3>1 DEF RowsExact
  <2>10. QED
    BY <2>3, <2>4, <2>6, <2>9 DEF RowsOk
<1>8. QED
  BY <1>6, <1>7

\* The ladder of latencies after a request.
LEMMA LadderCounts ==
    ASSUME NEW h, NEW D, NEW h2, NEW r \in Called, RowsKnown(h, D), Next1(h, h2, r),
           NEW now, Timely(h, now), r.at = now, NEW g, LadderExact(g, now, h),
           NEW g2, g2 = IF r.ttft > 0 THEN Observe(g, now, r.ttft) ELSE g
    PROVE  LadderExact(g2, now, h2)
<1> DEFINE b == Spans[1].buckets
           t == Tick(Spans[1], now)
           z == t % b
           n == Len(h) + 1
           step == r.ttft
<1>1. 1 \in DOMAIN Spans /\ Ladder \in Nat
  BY LedgerAssumption DEF LedgerAssumption
<1>2. DOMAIN h2 = DOMAIN h \cup {n} /\ n \notin DOMAIN h /\ (\A e \in DOMAIN h : h2[e] = h[e]) /\ h2[n] = r
  BY HistoryGrows DEF Next1
<1>3. \A k \in 1..Ladder : AtStep(h2, k) = AtStep(h, k) \cup (IF k = step THEN {n} ELSE {})
  BY <1>2 DEF AtStep
<1>4. \A k : AtStep(h, k) \in SUBSET DOMAIN h /\ IsFiniteSet(AtStep(h, k))
  <2>1. \A k : AtStep(h, k) \in SUBSET DOMAIN h
    BY DEF AtStep
  <2>2. QED
    BY <2>1, FS_Subset DEF Timely
<1>5. \A k \in 1..Ladder : SpanExact(StepCells(g, k), 1, now, h, AtStep(h, k))
  BY DEF LadderExact
<1>6. CASE ~(step > 0)
  <2>1. g2 = g /\ \A k \in 1..Ladder : AtStep(h2, k) = AtStep(h, k)
    <3>1. \A k \in 1..Ladder : k # step
      BY <1>6
    <3>2. QED
      BY <1>3, <1>6, <3>1
  <2>2. \A k \in 1..Ladder : SpanExact(StepCells(g, k), 1, now, h2, AtStep(h, k))
    BY <1>1, <1>4, <1>5, SpanCounts
  <2>3. QED
    BY <2>1, <2>2 DEF LadderExact
<1>7. CASE step > 0
  <2> DEFINE old == IF g[z].tick = t THEN g[z].n ELSE [k \in 1..Ladder |-> 0]
             new == [old EXCEPT ![step] = @ + 1]
  <2>1. g2 = [g EXCEPT ![z] = [tick |-> t, n |-> new]]
    BY <1>7 DEF Observe, Slot
  <2>2. step \in 1..Ladder
    BY <1>7 DEF Called
  <2>3. z \in 0..(b - 1) /\ DOMAIN g = 0..(b - 1)
    <3>1. t \in Nat /\ b \in Nat \ {0}
      BY <1>1, SpanTick, SpanType DEF Timely
    <3>2. QED
      BY <3>1, Division DEF LadderExact
  <2>4. DOMAIN g[z].n = 1..Ladder
    BY <2>3 DEF LadderExact
  <2>5. DOMAIN old = 1..Ladder /\ DOMAIN new = 1..Ladder
    BY <2>4
  <2>6. \A k \in 1..Ladder : old[k] = IF g[z].tick = t THEN g[z].n[k] ELSE 0
    OBVIOUS
  <2>7. \A k \in 1..Ladder : new[k] = IF k = step THEN old[k] + 1 ELSE old[k]
    BY <2>5
  <2> HIDE DEF old, new, z, t, b
  <2>8. /\ DOMAIN g2 = 0..(b - 1) /\ g2[z] = [tick |-> t, n |-> new]
        /\ \A s \in 0..(b - 1) : s # z => g2[s] = g[s]
    BY <2>1, <2>3
  <2>9. \A s \in DOMAIN g2 : DOMAIN g2[s].n = 1..Ladder
    <3> TAKE s \in DOMAIN g2
    <3>1. s # z => DOMAIN g[s].n = 1..Ladder
      BY <2>3, <2>8 DEF LadderExact
    <3>2. CASE s = z
      BY <2>5, <2>8, <3>2
    <3>3. CASE s # z
      BY <2>8, <3>1, <3>3
    <3>4. QED
      BY <3>2, <3>3
  <2>10. ASSUME NEW k \in 1..Ladder PROVE SpanExact(StepCells(g2, k), 1, now, h2, AtStep(h2, k))
    <3> DEFINE A == IF k = step THEN {n} ELSE {}
               c == StepCells(g, k)
               c2 == StepCells(g2, k)
    <3>1. \A s \in 0..(b - 1) : c[s] = [tick |-> g[s].tick, n |-> g[s].n[k]]
      BY <2>3 DEF StepCells
    <3>2. DOMAIN c2 = 0..(b - 1) /\ \A s \in 0..(b - 1) : c2[s] = [tick |-> g2[s].tick, n |-> g2[s].n[k]]
      BY <2>8 DEF StepCells
    <3> HIDE DEF A, c, c2
    <3>3. c[z].n \in Nat
      <4>1. CellsExact(c, b, t, AtStep(h, k), Times(h, 1))
        BY <1>5 DEF SpanExact, b, t, c
      <4>2. c[z].n = Cardinality({e \in AtStep(h, k) : Times(h, 1)[e] = c[z].tick})
        BY <2>3, <4>1 DEF CellsExact
      <4>3. IsFiniteSet({e \in AtStep(h, k) : Times(h, 1)[e] = c[z].tick})
        BY <1>4, FS_Subset
      <4>4. QED
        BY <4>2, <4>3, FS_CardinalityType
    <3>4. Cardinality(A) = IF k = step THEN 1 ELSE 0
      BY FS_Singleton, FS_EmptySet DEF A
    <3>5. old[k] = IF c[z].tick = t THEN c[z].n ELSE 0
      <4>1. c[z] = [tick |-> g[z].tick, n |-> g[z].n[k]]
        BY <2>3, <3>1
      <4>2. c[z].tick = g[z].tick /\ c[z].n = g[z].n[k]
        BY <4>1
      <4>3. QED
        BY <2>6, <4>2
    <3>6. c2[z].tick = t /\ c2[z].n = new[k]
      BY <2>3, <2>8, <3>2
    <3>7. c2[z].n = Cardinality(A) + (IF c[z].tick = t THEN c[z].n ELSE 0)
      <4>1. new[k] = IF k = step THEN old[k] + 1 ELSE old[k]
        BY <2>7
      <4>2. QED
        BY <3>3, <3>4, <3>5, <3>6, <4>1
    <3>8. \A s \in 0..(b - 1) : s # z => c2[s] = c[s]
      BY <2>8, <3>1, <3>2
    <3>9. CountedIn(c, c2, b, t, A)
      BY <3>2, <3>6, <3>7, <3>8 DEF CountedIn, z
    <3>10. SpanExact(c, 1, now, h, AtStep(h, k)) /\ A \in SUBSET {Len(h) + 1}
      BY <1>5 DEF c, A, n
    <3>11. SpanExact(c2, 1, now, h2, AtStep(h, k) \cup A)
      BY <1>1, <1>4, <3>9, <3>10, SpanCounts DEF b, t
    <3>12. QED
      BY <1>3, <3>11 DEF A, c2
  <2>11. QED
    BY <2>8, <2>9, <2>10 DEF LadderExact, b
<1>8. QED
  BY <1>6, <1>7

LEMMA WindowsRecord == ASSUME WindowInv, RecordUsage PROVE WindowInv'
<1> DEFINE call == Head(diary.calls)
           r == [at |-> clock, tag |-> call.tag, ttft |-> call.ttft]
           Calls == [tag : Tags \cup {NoTag}, ttft : 0..Ladder]
<1>1. /\ diary.calls # <<>> /\ CountRow(call.tag, call.ttft) /\ clock' = clock
      /\ histogram' = IF call.ttft > 0 THEN Observe(histogram, clock, call.ttft) ELSE histogram
      /\ history' = Append(history, r) /\ diary' = [diary EXCEPT !.calls = Tail(@)]
  BY DEF RecordUsage
<1>2. diary.calls \in Seq(Calls) /\ clock \in Nat /\ clock >= Since
      /\ RowsKnown(history, DOMAIN entries)
  BY DEF WindowInv, Timely, RowsOk
<1>3. call \in Calls /\ Tail(diary.calls) \in Seq(Calls)
  BY <1>1, <1>2, HeadTailProperties
<1>4. r \in Called /\ r.at = clock /\ r.tag = call.tag /\ r.ttft = call.ttft
  BY <1>2, <1>3 DEF Called
<1> HIDE DEF r, call
<1>5. Next1(history, history', r)
  BY <1>1, <1>2 DEF Next1, RowsKnown
<1>6. RowsOk(history', entries', truncated', clock)
  BY <1>1, <1>4, <1>5, RowsCount DEF WindowInv
<1>7. LadderExact(histogram', clock, history')
  <2>1. histogram' = IF r.ttft > 0 THEN Observe(histogram, clock, r.ttft) ELSE histogram
    BY <1>1, <1>4
  <2>2. LadderExact(histogram, clock, history) /\ Timely(history, clock)
    BY DEF WindowInv
  <2>3. QED
    BY <1>2, <1>4, <1>5, <2>1, <2>2, LadderCounts
<1>8. Timely(history', clock)
  <2>1. DOMAIN history' = DOMAIN history \cup {Len(history) + 1}
    BY <1>2, <1>5, HistoryGrows
  <2>2. IsFiniteSet(DOMAIN history)
    BY DEF WindowInv, Timely
  <2>3. IsFiniteSet(DOMAIN history')
    BY <2>1, <2>2, FS_AddElement
  <2>4. ASSUME NEW e \in DOMAIN history'
        PROVE  history'[e].at \in Nat /\ Since <= history'[e].at /\ history'[e].at <= clock
    <3>1. CASE e \in DOMAIN history
      <4>1. history'[e] = history[e]
        BY <1>5, <3>1 DEF Next1
      <4>2. QED
        BY <3>1, <4>1 DEF WindowInv, Timely
    <3>2. CASE e = Len(history) + 1
      <4>1. history'[e].at = clock /\ Since \in Nat
        BY <1>4, <1>5, <3>2, LedgerAssumption DEF Next1, LedgerAssumption
      <4>2. QED
        BY <1>2, <4>1
    <3>3. QED
      BY <2>1, <2>4, <3>1, <3>2
  <2>5. QED
    BY <1>2, <2>3, <2>4 DEF Timely
<1>9. diary'.calls \in Seq(Calls)
  <2>1. CASE "calls" \in DOMAIN diary
    BY <1>1, <1>3, <2>1
  <2>2. CASE "calls" \notin DOMAIN diary
    BY <1>1, <1>2, <2>2
  <2>3. QED
    BY <2>1, <2>2
<1>10. QED
  BY <1>1, <1>6, <1>7, <1>8, <1>9 DEF WindowInv

\* Nothing was counted yet, whether the agent starts or starts again.
LEMMA WindowsFresh ==
    ASSUME NEW h, h = <<>>, NEW now \in Nat, now >= Since
    PROVE  /\ Timely(h, now) /\ LadderExact(NoHistogram, now, h)
           /\ RowsOk(h, << >>, 0, now)
<1>1. DOMAIN h = {} /\ Len(h) = 0 /\ DOMAIN << >> = {} /\ 1..0 = {}
  OBVIOUS
<1>2. IsFiniteSet({}) /\ Cardinality({}) = 0
  BY FS_EmptySet
<1>3. Timely(h, now)
  BY <1>1, <1>2 DEF Timely
<1>4. Unlisted(h, {}) = {}
  BY <1>1 DEF Unlisted
<1>5. RowsKnown(h, {}) /\ RowsExact(<< >>, now, h)
  BY <1>1, <1>2, <1>4 DEF RowsKnown, RowsExact
<1>6. LadderExact(NoHistogram, now, h)
  <2> DEFINE b == Spans[1].buckets
  <2>1. 1 \in DOMAIN Spans
    BY LedgerAssumption DEF LedgerAssumption
  <2>2. /\ DOMAIN NoHistogram = 0..(b - 1)
        /\ \A s \in 0..(b - 1) : /\ NoHistogram[s].tick = 0 /\ DOMAIN NoHistogram[s].n = 1..Ladder
                                 /\ \A k \in 1..Ladder : NoHistogram[s].n[k] = 0
    BY DEF NoHistogram
  <2>3. ASSUME NEW k \in 1..Ladder PROVE SpanExact(StepCells(NoHistogram, k), 1, now, h, AtStep(h, k))
    <3> DEFINE c == StepCells(NoHistogram, k)
    <3>1. DOMAIN c = 0..(b - 1) /\ \A s \in 0..(b - 1) : c[s].tick = 0 /\ c[s].n = 0
      BY <2>2 DEF StepCells
    <3>2. AtStep(h, k) = {}
      BY <1>1 DEF AtStep
    <3>3. Tick(Spans[1], now) \in Nat
      BY <2>1, SpanTick
    <3> HIDE DEF c
    <3>4. CellsExact(c, b, Tick(Spans[1], now), {}, Times(h, 1))
      BY <3>1, <3>3, EmptyCells
    <3>5. QED
      BY <3>2, <3>4 DEF SpanExact, c
  <2>4. QED
    BY <2>2, <2>3 DEF LadderExact
<1>7. QED
  BY <1>1, <1>2, <1>3, <1>4, <1>5, <1>6 DEF RowsOk

LEMMA WindowsStart == ASSUME UsageInit PROVE WindowInv
<1>1. diary \in Diaries /\ history = <<>> /\ entries = << >> /\ histogram = NoHistogram /\ truncated = 0
      /\ clock = Since
  BY DEF UsageInit
<1>2. Since \in Nat /\ diary.calls \in Seq([tag : Tags \cup {NoTag}, ttft : 0..Ladder])
  BY <1>1, LedgerAssumption DEF LedgerAssumption
<1>3. clock \in Nat /\ clock >= Since
  BY <1>1, <1>2
<1>4. QED
  BY <1>1, <1>2, <1>3, WindowsFresh DEF WindowInv

LEMMA WindowsBoot == ASSUME WindowInv, Boot PROVE WindowInv'
<1>1. /\ history' = <<>> /\ entries' = << >> /\ histogram' = NoHistogram /\ truncated' = 0
      /\ clock' = clock /\ diary' = diary
  BY DEF Boot
<1>2. clock \in Nat /\ clock >= Since
  BY DEF WindowInv, Timely
<1>3. Timely(history', clock) /\ LadderExact(NoHistogram, clock, history') /\ RowsOk(history', << >>, 0, clock)
  BY <1>1, <1>2, WindowsFresh
<1>4. QED
  BY <1>1, <1>3 DEF WindowInv

\* Time passes: the slots stay what they were.
LEMMA WindowsPass == ASSUME WindowInv, Pass PROVE WindowInv'
<1>1. /\ UNCHANGED <<diary, entries, histogram, truncated, history>> /\ clock' = clock + 1
  BY DEF Pass, memoryVars
<1>2. clock \in Nat /\ clock' \in Nat /\ clock <= clock' /\ clock >= Since /\ Since \in Nat
  BY <1>1, LedgerAssumption DEF WindowInv, Timely, LedgerAssumption
<1>3. ASSUME NEW i \in DOMAIN Spans, NEW cells, NEW E, SpanExact(cells, i, clock, history, E)
      PROVE  SpanExact(cells, i, clock', history, E)
  <2>1. Tick(Spans[i], clock) \in Nat /\ Tick(Spans[i], clock') \in Nat
    BY <1>2, SpanTick
  <2>2. Tick(Spans[i], clock) <= Tick(Spans[i], clock')
    BY <1>2, SpanType, DivMonotone DEF Tick
  <2>3. QED
    BY <1>3, <2>1, <2>2, SlotsLater DEF SpanExact
<1>4. Timely(history, clock')
  BY <1>2 DEF WindowInv, Timely
<1>5. RowsExact(entries, clock', history)
  <2>1. ASSUME NEW key \in DOMAIN entries
        PROVE  EntryExact(entries[key], clock', history, InRows(history, DOMAIN entries, key))
    <3>1. EntryExact(entries[key], clock, history, InRows(history, DOMAIN entries, key))
      BY DEF WindowInv, RowsOk, RowsExact
    <3>2. QED
      BY <1>3, <3>1 DEF EntryExact
  <2>2. QED
    BY <2>1 DEF RowsExact
<1>6. LadderExact(histogram, clock', history)
  <2>1. 1 \in DOMAIN Spans
    BY LedgerAssumption DEF LedgerAssumption
  <2>2. QED
    BY <1>3, <2>1 DEF WindowInv, LadderExact
<1>7. QED
  BY <1>1, <1>4, <1>5, <1>6 DEF WindowInv, RowsOk

LEMMA WindowsStep == ASSUME WindowInv, [UsageNext]_ledgerVars PROVE WindowInv'
<1>1. ASSUME UNCHANGED <<clock, entries, histogram, truncated, history>>, diary'.calls = diary.calls
      PROVE  WindowInv'
  BY <1>1 DEF WindowInv
<1>2. CASE RecordUsage
  BY <1>2, WindowsRecord
<1>3. CASE Boot
  BY <1>3, WindowsBoot
<1>4. CASE Pass
  BY <1>4, WindowsPass
<1>5. CASE DiskChanges
  <2>1. diary'.calls = diary.calls
    <3>1. diary' = [diary EXCEPT !.full = ~full]
      BY <1>5 DEF DiskChanges
    <3>2. QED
      BY <3>1
  <2>2. QED
    BY <1>1, <1>5, <2>1 DEF DiskChanges, memoryVars
<1>6. CASE OpenScratch \/ WriteScratch \/ Replace \/ SaveRefused \/ Close \/ Leave \/ Kill
  BY <1>1, <1>6 DEF OpenScratch, WriteScratch, Replace, SaveRefused, Close, Leave, Kill, memoryVars
<1>7. CASE UNCHANGED ledgerVars
  BY <1>1, <1>7 DEF ledgerVars
<1>8. QED
  BY <1>2, <1>3, <1>4, <1>5, <1>6, <1>7 DEF UsageNext

LEMMA RowShown ==
    ASSUME WindowInv, NEW key \in DOMAIN entries, NEW q \in Measures, NEW i \in DOMAIN Spans,
           NEW E, E = InRow(history, DOMAIN entries, key, q),
           NEW b, b = Spans[i].buckets, NEW now, now = Tick(Spans[i], clock)
    PROVE  /\ Window(entries[key][q], clock, i) = Cardinality({e \in E : Times(history, i)[e] + b > now})
           /\ \A age \in 0..(b - 1) :
                  Series(entries[key][q], clock, i, age) = Cardinality({e \in E : Times(history, i)[e] + age = now})
<1> DEFINE T == Times(history, i)
           ring == entries[key][q]
           cells == ring[i]
           f == [s \in DOMAIN cells |-> cells[s].n]
           F == InWindow(cells, i, clock)
<1>1. CellsExact(cells, b, now, E, T)
  <2>1. EntryExact(entries[key], clock, history, InRows(history, DOMAIN entries, key))
    BY DEF WindowInv, RowsOk, RowsExact
  <2>2. InRows(history, DOMAIN entries, key)[q] = E
    BY DEF InRows
  <2>3. QED
    BY <2>1, <2>2 DEF EntryExact, SpanExact
<1>2. Ticks(E, T, b, now) /\ b <= now
  <2>1. E \in SUBSET DOMAIN history /\ Timely(history, clock)
    BY DEF InRow, WindowInv
  <2>2. QED
    BY <2>1, SpanTicks
<1>3. \A s : s \in F <=> (s \in DOMAIN cells /\ cells[s].tick + b > now)
  BY DEF InWindow
<1>4. \A s \in DOMAIN cells : f[s] = cells[s].n
  OBVIOUS
<1>5. Window(ring, clock, i) = SumFunctionOnSet(f, F)
  BY DEF Window
<1>6. ASSUME NEW age \in 0..(b - 1)
      PROVE  Series(ring, clock, i, age) = IF cells[(now - age) % b].tick = now - age
                                           THEN cells[(now - age) % b].n ELSE 0
  BY DEF Series
<1> HIDE DEF T, f, F, cells, ring
<1>7. SumFunctionOnSet(f, F) = Cardinality({e \in E : T[e] + b > now})
  BY <1>1, <1>2, <1>3, <1>4, WindowOf
<1>8. ASSUME NEW age \in 0..(b - 1)
      PROVE  Series(ring, clock, i, age) = Cardinality({e \in E : T[e] + age = now})
  BY <1>1, <1>2, <1>6, SeriesOf
<1>9. QED
  BY <1>5, <1>7, <1>8 DEF T, ring

LEMMA LadderShown ==
    ASSUME WindowInv, NEW k \in 1..Ladder,
           NEW b, b = Spans[1].buckets, NEW now, now = Tick(Spans[1], clock)
    PROVE  Snapshot(histogram, clock, k) =
               Cardinality({e \in AtStep(history, k) : Times(history, 1)[e] + b > now})
<1> DEFINE T == Times(history, 1)
           E == AtStep(history, k)
           cells == StepCells(histogram, k)
           f == [s \in DOMAIN histogram |-> histogram[s].n[k]]
           F == InWindow(histogram, 1, clock)
<1>1. CellsExact(cells, b, now, E, T)
  BY DEF WindowInv, LadderExact, SpanExact
<1>2. Ticks(E, T, b, now) /\ b <= now
  <2>1. E \in SUBSET DOMAIN history /\ Timely(history, clock) /\ 1 \in DOMAIN Spans
    BY LedgerAssumption DEF AtStep, WindowInv, LedgerAssumption
  <2>2. QED
    BY <2>1, SpanTicks
<1>3. \A s : s \in F <=> (s \in DOMAIN cells /\ cells[s].tick + b > now)
  BY DEF InWindow, StepCells
<1>4. \A s \in DOMAIN cells : f[s] = cells[s].n
  BY DEF StepCells
<1>5. Snapshot(histogram, clock, k) = SumFunctionOnSet(f, F)
  BY DEF Snapshot
<1> HIDE DEF T, E, f, F, cells
<1>6. SumFunctionOnSet(f, F) = Cardinality({e \in E : T[e] + b > now})
  BY <1>1, <1>2, <1>3, <1>4, WindowOf
<1>7. QED
  BY <1>5, <1>6 DEF T, E

LEMMA WindowsShown == ASSUME WindowInv PROVE WindowsExact
<1>1. ASSUME NEW key \in DOMAIN entries, NEW q \in Measures, NEW i \in DOMAIN Spans
      PROVE  LET now == Tick(Spans[i], clock)
             IN /\ Window(entries[key][q], clock, i) =
                       Completed(key, q, LAMBDA e : Tick(Spans[i], e.at) + Spans[i].buckets > now)
                /\ \A age \in 0..(Spans[i].buckets - 1) :
                       Series(entries[key][q], clock, i, age) =
                           Completed(key, q, LAMBDA e : Tick(Spans[i], e.at) + age = now)
  <2> DEFINE now == Tick(Spans[i], clock)
             b == Spans[i].buckets
             E == InRow(history, DOMAIN entries, key, q)
             T == Times(history, i)
  <2>1. \A e \in DOMAIN history : T[e] = Tick(Spans[i], history[e].at)
    BY DEF Times
  <2>2. {e \in E : T[e] + b > now} =
            {e \in DOMAIN history :
                /\ key = NoTag \/ (history[e].tag # NoTag /\ RowFor(history[e].tag) = key)
                /\ q = "requests" \/ history[e].ttft > 0
                /\ Tick(Spans[i], history[e].at) + b > now}
    BY <2>1 DEF InRow, RowOf, RowFor, Measured
  <2>3. ASSUME NEW age \in 0..(b - 1)
        PROVE  {e \in E : T[e] + age = now} =
                   {e \in DOMAIN history :
                       /\ key = NoTag \/ (history[e].tag # NoTag /\ RowFor(history[e].tag) = key)
                       /\ q = "requests" \/ history[e].ttft > 0
                       /\ Tick(Spans[i], history[e].at) + age = now}
    BY <2>1 DEF InRow, RowOf, RowFor, Measured
  <2>4. /\ Window(entries[key][q], clock, i) = Cardinality({e \in E : T[e] + b > now})
        /\ \A age \in 0..(b - 1) :
               Series(entries[key][q], clock, i, age) = Cardinality({e \in E : T[e] + age = now})
    BY RowShown
  <2>5. QED
    BY <2>2, <2>3, <2>4 DEF Completed
<1>2. ASSUME NEW k \in 1..Ladder
      PROVE  Snapshot(histogram, clock, k) =
                 Completed(NoTag, "tokens", LAMBDA e :
                     e.ttft = k /\ Tick(Spans[1], e.at) + Spans[1].buckets > Tick(Spans[1], clock))
  <2> DEFINE now == Tick(Spans[1], clock)
             b == Spans[1].buckets
             T == Times(history, 1)
  <2>1. \A e \in DOMAIN history : T[e] = Tick(Spans[1], history[e].at)
    BY DEF Times
  <2>2. k > 0
    OBVIOUS
  <2>3. {e \in AtStep(history, k) : T[e] + b > now} =
            {e \in DOMAIN history :
                /\ NoTag = NoTag \/ (history[e].tag # NoTag /\ RowFor(history[e].tag) = NoTag)
                /\ "tokens" = "requests" \/ history[e].ttft > 0
                /\ history[e].ttft = k /\ Tick(Spans[1], history[e].at) + b > now}
    BY <2>1, <2>2 DEF AtStep
  <2>4. Snapshot(histogram, clock, k) = Cardinality({e \in AtStep(history, k) : T[e] + b > now})
    BY LadderShown
  <2>5. QED
    BY <2>3, <2>4 DEF Completed
<1>3. truncated = Cardinality({e \in DOMAIN history : history[e].tag \notin DOMAIN entries \cup {NoTag}})
  BY DEF WindowInv, RowsOk, Unlisted
<1>4. QED
  BY <1>1, <1>2, <1>3 DEF WindowsExact

\* What the agent shows of a window is the requests completed within it, for
\* every key, measure, span and bucket, however many times the ring went round.
THEOREM WindowsHold == UsageSpec => []WindowsExact
<1>1. UsageInit => WindowInv
  BY WindowsStart
<1>2. WindowInv /\ [UsageNext]_ledgerVars => WindowInv'
  BY WindowsStep
<1>3. WindowInv => WindowsExact
  BY WindowsShown
<1>4. QED
  BY <1>1, <1>2, <1>3, PTL DEF UsageSpec
=============================================================================
