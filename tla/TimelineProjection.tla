------------------------ MODULE TimelineProjection -------------------------
(***************************************************************************)
(* The event timeline of the analyzer (qtrace-analysis/src/timeline.rs,    *)
(* filter.rs and timeline/semantic_executor.rs): a filter is normalized,   *)
(* its indexed fields give the candidate rows, the rows are put into the   *)
(* order of their keys, and a filter on semantic details is left to a      *)
(* worker that publishes the matching rows while clients already page      *)
(* through them.                                                           *)
(*                                                                         *)
(* `work` is a trace, as the tables of its store, and the filters of the   *)
(* projections that clients create.  A worker holds the lock of a          *)
(* projection for one step, and so does a page.                            *)
(***************************************************************************)
EXTENDS Integers, FiniteSets, SequencesExt

CONSTANTS
    Works,             \* traces with filters
    Workers,           \* the threads of the SemanticExecutor
    None,
    MaxPending,        \* capacity of its queue
    MaxWord,           \* u64::MAX
    MaxTerms,          \* MAX_FILTER_TERMS
    MaxPairs,          \* MAX_FILTER_CARTESIAN_PAIRS
    MaxScanBytes,      \* MAX_SEMANTIC_SCAN_BYTES
    Limits             \* page sizes

ProjectionAssumption ==
    /\ None \notin Nat
    /\ {MaxPending, MaxWord, MaxTerms, MaxPairs, MaxScanBytes} \subseteq Nat
    /\ Limits \subseteq Nat \ {0}

VARIABLES
    work,
    projection,   \* the projections: plan and ProjectionState
    cancelled,    \* their flags
    queue,        \* submitted jobs, as projections
    worker,       \* what each worker does
    got,          \* history: the rows a client was given, page after page
    next          \* the cursor of its next page; `finished` after the last one

vars == <<work, projection, cancelled, queue, worker, got, next>>

trace == work.trace
Rows == 1..Len(trace.keys)
Projections == 1..Len(work.filters)
-----------------------------------------------------------------------------
(* filter.rs: a filter is a record of sets; a range is a pair.             *)
Trim(word) ==
    LET solid == {i \in 1..Len(word) : word[i] # " "}
    IN  IF solid = {} THEN <<>> ELSE SubSeq(word, Min(solid), Max(solid))

Lower(word) == [i \in DOMAIN word |-> IF word[i] = "A" THEN "a" ELSE word[i]]

RangesInOrder(ranges) ==
    SetToSortSeq(ranges, LAMBDA a, b : a[1] < b[1] \/ (a[1] = b[1] /\ a[2] < b[2]))

Merged(ranges, Joins(_, _)) ==
    ToSet(FoldLeft(
        LAMBDA merged, range :
            IF merged # <<>> /\ Joins(Last(merged), range)
            THEN [merged EXCEPT ![Len(merged)][2] = Max({@, range[2]})]
            ELSE Append(merged, range),
        <<>>, RangesInOrder(ranges)))

NormalizeAddressRanges(ranges) ==
    Merged(ranges, LAMBDA previous, range : range[1] <= previous[2])

NormalizeSequenceRanges(ranges) ==
    Merged(ranges, LAMBDA previous, range :
                       range[1] <= Min({previous[2] + 1, MaxWord}))

(* normalize_memory_ranges: cut at every boundary, with the directions of  *)
(* all the ranges over a piece; none is any direction.                     *)
Directions(over) ==
    LET named == UNION {range[3] : range \in over}
    IN  IF \E range \in over : range[3] = {} THEN {}
        ELSE IF named \intersect {"Read", "Write"} # {} THEN named \ {"ReadWrite"}
        ELSE named

NormalizeMemoryRanges(ranges) ==
    LET bounds == SetToSortSeq({range[1] : range \in ranges}
                                   \union {range[2] : range \in ranges}, <)
        Over(i) == {range \in ranges : range[1] <= bounds[i] /\ bounds[i + 1] <= range[2]}
        Add(canonical, i) ==
            IF Over(i) = {} THEN canonical
            ELSE IF /\ canonical # <<>> /\ Last(canonical)[2] = bounds[i]
                    /\ Last(canonical)[3] = Directions(Over(i))
                 THEN [canonical EXCEPT ![Len(canonical)][2] = bounds[i + 1]]
                 ELSE Append(canonical, <<bounds[i], bounds[i + 1], Directions(Over(i))>>)
    IN  ToSet(FoldLeft(Add, <<>>, [i \in 1..Len(bounds) - 1 |-> i]))

Normalized(filter) ==
    [filter EXCEPT !.relative_pc = NormalizeAddressRanges(@),
                   !.absolute_pc = NormalizeAddressRanges(@),
                   !.sequence = NormalizeSequenceRanges(@),
                   !.mnemonic = {<<m[1], Lower(Trim(m[2]))>> : m \in @},
                   !.memory = NormalizeMemoryRanges(@),
                   !.details = {Trim(d) : d \in @}]

Terms(filter) ==
    FoldFunction(LAMBDA values, count : Cardinality(values) + count, 0, filter)

(* EventFilter::normalized returns an error.                               *)
Refused(filter) ==
    LET normal == Normalized(filter)
    IN  \/ Terms(filter) > MaxTerms
        \/ \E range \in filter.relative_pc \union filter.absolute_pc \union filter.memory :
               range[1] >= range[2]
        \/ \E range \in filter.sequence : range[1] > range[2]
        \/ \E m \in normal.mnemonic : m[2] = <<>>
        \/ <<>> \in normal.details
        \/ Terms(normal) > MaxTerms
        \/ Cardinality(normal.modules)
               * (Cardinality(normal.relative_pc) + Cardinality(normal.absolute_pc))
               > MaxPairs
-----------------------------------------------------------------------------
(* build_query_context: the one fact of a row, or None.                    *)
Fact(table, row) ==
    IF \E i \in DOMAIN table : table[i].owner = row
    THEN table[CHOOSE i \in DOMAIN table : table[i].owner = row] ELSE None

(* bucket_observations.                                                    *)
Observations(row) == {o \in ToSet(trace.observations) : o.owner = row}

MemoryPc == {m \in ToSet(trace.memories) : m.module # None}

MaxSequenceRows == {row \in Rows : trace.keys[row].sequence = MaxWord}

Within(value, range) == range[1] <= value /\ value < range[2]

Window(word, text) ==
    \E i \in 0..Len(text) - Len(word) : SubSeq(text, i + 1, i + Len(word)) = word

MnemonicMatches(matchers, mnemonic) ==
    \E m \in matchers : \/ m[1] = "Exact" /\ Lower(mnemonic) = m[2]
                        \/ m[1] = "Contains" /\ Window(m[2], Lower(mnemonic))

(* The store's bounded_rows: the rows that its postings list for a query.  *)
BoundedRows(query, values) ==
    LET Owners(table, Selects(_)) == {e.owner : e \in {x \in ToSet(table) : Selects(x)}}
    IN  CASE query = "Tids" -> {row \in Rows : trace.keys[row].tid \in values}
          [] query = "Kinds" -> {row \in Rows : trace.kinds[row] \in values}
          [] query = "Modules" ->
                 Owners(trace.instructions, LAMBDA i : i.module \in values)
          [] query = "Sequence" ->
                 {row \in Rows : /\ trace.keys[row].sequence # None
                                 /\ Within(trace.keys[row].sequence, values)}
          [] query = "ModulePc" ->
                 Owners(trace.instructions, LAMBDA i :
                     i.module = values[3] /\ Within(i.relative_pc, values))
          [] query = "Definitions" ->
                 Owners(trace.instructions, LAMBDA i : i.definition \in values)
          [] query = "Registers" ->
                 Owners(trace.observations, LAMBDA o : o.slot \in values)
          [] query = "Memory" ->
                 Owners(trace.memories, LAMBDA m :
                     m.address < values[2] /\ values[1] < m.end_exclusive)
          [] query = "SemanticCategories" ->
                 Owners(trace.semantics, LAMBDA s : s.category \in values)
          [] query = "SemanticNames" ->
                 Owners(trace.semantics, LAMBDA s : s.name \in values)

(* memory_pc_rows: the index of the store has the modules of instructions  *)
(* only.                                                                   *)
MemoryPcRows(module, range) ==
    {m.owner : m \in {x \in MemoryPc : x.module = module /\ Within(x.relative_pc, range)}}

MemoryModuleRows(module) == {m.owner : m \in {x \in MemoryPc : x.module = module}}

PcRows(module, range) ==
    BoundedRows("ModulePc", <<range[1], range[2], module>>)
        \union MemoryPcRows(module, range)

(* visit_absolute_pairs.                                                   *)
AbsolutePairs(filter) ==
    LET modules == {m \in DOMAIN trace.modules :
                        filter.modules = {} \/ m \in filter.modules}
    IN  {<<m, <<Max({range[1] - trace.modules[m], 0}), range[2] - trace.modules[m]>>>> :
            <<m, range>> \in {pair \in modules \X filter.absolute_pc :
                                  pair[2][2] > trace.modules[pair[1]]}}

SequenceRows(range) ==
    BoundedRows("Sequence", <<range[1], Min({range[2] + 1, MaxWord})>>)
        \union (IF range[2] = MaxWord THEN MaxSequenceRows ELSE {})

SemanticKinds == {"SemanticCall", "SemanticRule", "SemanticError"}

DecodeCandidateField(filter, field) ==
    CASE field = "tids" -> BoundedRows("Tids", filter.tids)
      [] field = "kinds" -> BoundedRows("Kinds", filter.kinds)
      [] field = "modules" ->
             BoundedRows("Modules", filter.modules)
                 \union UNION {MemoryModuleRows(m) : m \in filter.modules}
      [] field = "sequence" -> UNION {SequenceRows(range) : range \in filter.sequence}
      [] field = "relative_pc" ->
             UNION {PcRows(pair[1], pair[2]) : pair \in filter.modules \X filter.relative_pc}
      [] field = "absolute_pc" ->
             UNION {PcRows(pair[1], pair[2]) : pair \in AbsolutePairs(filter)}
      [] field = "mnemonic" ->
             BoundedRows("Definitions",
                         {d \in DOMAIN trace.definitions :
                              MnemonicMatches(filter.mnemonic, trace.definitions[d])})
      [] field = "reads" -> BoundedRows("Registers", filter.reads)
      [] field = "writes" -> BoundedRows("Registers", filter.writes)
      [] field = "memory" ->
             UNION {BoundedRows("Memory", range) : range \in filter.memory}
      [] field = "categories" -> BoundedRows("SemanticCategories", filter.categories)
      [] field = "names" -> BoundedRows("SemanticNames", filter.names)
      [] field = "details" -> BoundedRows("Kinds", SemanticKinds)

(* plan_candidates: relative addresses are indexed by module only.         *)
CandidateFields(filter) ==
    {field \in DOMAIN filter :
        filter[field] # {} /\ (field = "relative_pc" => filter.modules # {})}

(* An error of plan_candidates.                                            *)
ExpandsTooFar(filter) ==
    Cardinality(IF filter.modules = {} THEN DOMAIN trace.modules ELSE filter.modules)
        * Cardinality(filter.absolute_pc) > MaxPairs

PlanCandidates(filter) ==
    {row \in Rows : \A field \in CandidateFields(filter) :
                        row \in DecodeCandidateField(filter, field)}
-----------------------------------------------------------------------------
(* matches_non_detail, for the residual filter: what the postings of the   *)
(* populated fields do not decide.                                         *)
RegisterAccessMatches(row, slots, access) ==
    slots = {} \/ \E o \in Observations(row) : o.access = access /\ o.slot \in slots

DirectionMatches(query, actual) ==
    query = actual \/ (actual = "ReadWrite" /\ query \in {"Read", "Write"})

MemoryMatches(range, memory) ==
    /\ memory.address < range[2] /\ range[1] < memory.end_exclusive
    /\ range[3] = {} \/ \E d \in range[3] : DirectionMatches(d, memory.direction)

Position(row) ==
    IF Fact(trace.instructions, row) # None THEN Fact(trace.instructions, row)
    ELSE Fact(trace.memories, row)

MatchesResidual(filter, row) ==
    /\ filter.modules = {} /\ filter.relative_pc # {}
           => /\ Position(row) # None
              /\ \E range \in filter.relative_pc : Within(Position(row).relative_pc, range)
    /\ RegisterAccessMatches(row, filter.reads, "Read")
    /\ RegisterAccessMatches(row, filter.writes, "Write")
    /\ filter.memory # {}
           => LET memory == Fact(trace.memories, row)
              IN  /\ memory # None
                  /\ \E range \in filter.memory : MemoryMatches(range, memory)
-----------------------------------------------------------------------------
(* The parts of a key, the most significant one first; an absent option is *)
(* zero behind the flag that says so.                                      *)
Option(value) == IF value = None THEN <<0, 0>> ELSE <<1, value>>

KeyParts(key) ==
    <<key.timeline, key.record_ordinal, key.source_offset>>
        \o Option(key.sequence) \o Option(key.tid)

(* compare_event_keys.                                                     *)
KeyLess(left, right) ==
    LET a == KeyParts(left)
        b == KeyParts(right)
    IN  \E i \in DOMAIN a : a[i] < b[i] /\ \A j \in 1..i - 1 : a[j] = b[j]

(* radix_sort_rows_by_keys: stable passes, the least significant part      *)
(* first.                                                                  *)
StablePass(rows, part) ==
    FlattenSeq([v \in 1..MaxWord + 1 |->
        SelectSeq(rows, LAMBDA row : KeyParts(trace.keys[row])[part] = v - 1)])

SortRowsByStableKey(rows) ==
    FoldLeft(StablePass, SetToSortSeq(rows, <), <<7, 6, 5, 4, 3, 2, 1>>)

Candidates(filter) ==
    SortRowsByStableKey({row \in PlanCandidates(filter) : MatchesResidual(filter, row)})
-----------------------------------------------------------------------------
(* DetailMatcher: a node of the automaton is the prefix it stands for.     *)
Nodes(patterns) == UNION {{SubSeq(p, 1, n) : n \in 0..Len(p)} : p \in patterns}

(* build_failures, from the root down.                                     *)
Failures(patterns) ==
    LET nodes == Nodes(patterns)
        failure[node \in nodes] ==
            LET byte == Last(node)
                follow[state \in nodes] ==
                    IF Append(state, byte) \in nodes THEN Append(state, byte)
                    ELSE IF state = <<>> THEN <<>> ELSE follow[failure[state]]
            IN  IF Len(node) <= 1 THEN <<>> ELSE follow[failure[Front(node)]]
    IN  [node \in nodes |-> failure[node]]

Terminals(patterns) ==
    LET failures == Failures(patterns)
        terminal[node \in Nodes(patterns)] ==
            node \in patterns \/ (node # <<>> /\ terminal[failures[node]])
    IN  {node \in Nodes(patterns) : terminal[node]}

(* contains: the states that the automaton passes through.                 *)
DetailContains(patterns, detail) ==
    LET nodes == Nodes(patterns)
        failures == Failures(patterns)
        Step(state, byte) ==
            LET follow[s \in nodes] ==
                    IF Append(s, byte) \in nodes THEN Append(s, byte)
                    ELSE IF s = <<>> THEN <<>> ELSE follow[failures[s]]
            IN  follow[state]
        at[i \in 0..Len(detail)] == IF i = 0 THEN <<>> ELSE Step(at[i - 1], detail[i])
    IN  \E i \in 0..Len(detail) : at[i] \in Terminals(patterns)
-----------------------------------------------------------------------------
absent == [stage |-> "none", filter |-> None, candidates |-> <<>>, visible |-> <<>>,
           watermark |-> None, exact_total |-> FALSE, completed |-> FALSE, error |-> FALSE]

(* No cursor yet, and no cursor any more.                                  *)
start == [projection |-> None, bytes |-> <<>>]
finished == [projection |-> None, bytes |-> <<-1>>]

idle == [of |-> 0, at |-> "idle", row |-> 0, matched |-> FALSE, left |-> 0]

Init ==
    /\ work \in Works
    /\ projection = [p \in Projections |-> absent]
    /\ cancelled = [p \in Projections |-> FALSE]
    /\ queue = <<>>
    /\ worker = [w \in Workers |-> idle]
    /\ got = [p \in Projections |-> <<>>]
    /\ next = [p \in Projections |-> start]

(* locate_after_key: how many of the visible rows are not after the key.   *)
LocateAfter(p, key) ==
    Cardinality({i \in DOMAIN projection[p].visible :
                     ~KeyLess(key, trace.keys[projection[p].visible[i]])})

(* encode_cursor and decode_cursor; the store is the trace's.              *)
EncodeCursor(p, key) ==
    [projection |-> projection[p].filter,
     bytes |-> IF key = None THEN <<0>> ELSE <<1>> \o KeyParts(key)]

DecodeKey(cursor) ==
    LET b == cursor.bytes
        value(i) == IF b[i] = 1 THEN b[i + 1] ELSE None
    IN  IF b[1] = 0 THEN None
        ELSE [timeline |-> b[2], record_ordinal |-> b[3], source_offset |-> b[4],
              sequence |-> value(5), tid |-> value(7)]

KeyOf(row) == trace.keys[row]

(* Where the next page starts.  Mutation: behind all that was scanned.     *)
AnchorWatermark(p, page, has_more) ==
    IF projection[p].watermark # None THEN projection[p].watermark
    ELSE IF page = <<>> THEN None ELSE KeyOf(Last(page))

Anchor(p, page, has_more) ==
    LET last == IF page = <<>> THEN None ELSE KeyOf(Last(page))
        watermark == projection[p].watermark
    IN  IF has_more \/ watermark = None THEN last
        ELSE IF last = None \/ KeyLess(last, watermark) THEN watermark ELSE last

(* page_guarded.                                                           *)
PageOf(p, cursor, limit) ==
    LET visible == projection[p].visible
        key == IF cursor = start THEN None ELSE DecodeKey(cursor)
        first == IF key = None THEN 0 ELSE LocateAfter(p, key)
        end == Min({first + limit, Len(visible)})
        page == SubSeq(visible, first + 1, end)
        has_more == end < Len(visible)
        refused == \/ projection[p].error \/ cancelled[p]
                   \/ cursor # start /\ cursor.projection # projection[p].filter
    IN  [refused |-> refused,
         rows |-> page,
         next |-> IF has_more \/ ~projection[p].completed
                  THEN EncodeCursor(p, Anchor(p, page, has_more)) ELSE finished]

(* location_for_position, and locate: None if the row is not visible.      *)
LocationForPosition(p, position, limit) ==
    LET first == (position \div limit) * limit
    IN  IF first = 0 THEN start
        ELSE EncodeCursor(p, KeyOf(projection[p].visible[first]))

Locate(p, row, limit) ==
    LET after == LocateAfter(p, KeyOf(row))
    IN  IF after = 0 \/ projection[p].visible[after] # row THEN None
        ELSE LocationForPosition(p, after - 1, limit)

LocateOffset(p, offset, limit) ==
    IF offset >= Len(projection[p].visible) THEN None
    ELSE LocationForPosition(p, offset, limit)
-----------------------------------------------------------------------------
(* TimelineProjection::new_with_cancellation.                              *)
Create(p) ==
    /\ projection[p].stage = "none"
    /\ \/ /\ Refused(work.filters[p]) \/ ExpandsTooFar(Normalized(work.filters[p]))
             \/ cancelled[p]
          /\ projection' = [projection EXCEPT ![p].stage = "refused"]
          /\ UNCHANGED queue
       \/ /\ ~Refused(work.filters[p]) /\ ~ExpandsTooFar(Normalized(work.filters[p]))
          /\ ~cancelled[p]
          /\ LET filter == Normalized(work.filters[p])
                 rows == Candidates(filter)
                 planned == [absent EXCEPT !.stage = "open", !.filter = filter,
                                           !.candidates = rows]
             IN  \/ /\ filter.details = {}
                    /\ projection' = [projection EXCEPT ![p] =
                           [planned EXCEPT !.visible = rows, !.exact_total = TRUE,
                                           !.completed = TRUE]]
                    /\ UNCHANGED queue
                 \/ /\ filter.details # {} /\ Len(queue) < MaxPending
                    /\ projection' = [projection EXCEPT ![p] = planned]
                    /\ queue' = Append(queue, p)
                 \/ /\ filter.details # {} /\ Len(queue) = MaxPending
                    /\ projection' = [projection EXCEPT ![p].stage = "refused"]
                    /\ UNCHANGED queue
    /\ UNCHANGED <<work, cancelled, worker, got, next>>

(* The planning uses up its work or an allocation fails.                   *)
CreateFails(p) ==
    /\ projection[p].stage = "none"
    /\ projection' = [projection EXCEPT ![p].stage = "refused"]
    /\ UNCHANGED <<work, cancelled, queue, worker, got, next>>

(* terminalize_projection.                                                 *)
Terminalized(state, exact, error) ==
    IF state.completed THEN state
    ELSE [state EXCEPT !.visible = IF error THEN <<>> ELSE @,
                       !.watermark = IF error THEN None ELSE @,
                       !.exact_total = exact, !.completed = TRUE, !.error = error]

(* SemanticExecutor: a worker takes the oldest job.                        *)
Take(w) ==
    /\ worker[w].at = "idle" /\ queue # <<>>
    /\ worker' = [worker EXCEPT ![w] =
           [idle EXCEPT !.of = Head(queue), !.at = "matcher", !.row = 1,
                        !.left = MaxScanBytes]]
    /\ queue' = Tail(queue)
    /\ UNCHANGED <<work, projection, cancelled, got, next>>

Ends(w, exact, error) ==
    /\ projection' = [projection EXCEPT ![worker[w].of] = Terminalized(@, exact, error)]
    /\ worker' = [worker EXCEPT ![w] = idle]

Goes(w, place) == worker' = [worker EXCEPT ![w].at = place] /\ UNCHANGED projection

BuildMatcher(w) ==
    /\ worker[w].at = "matcher"
    /\ IF cancelled[worker[w].of] THEN Ends(w, FALSE, TRUE) ELSE Goes(w, "scan")
    /\ UNCHANGED <<work, cancelled, queue, got, next>>

(* One row of the scan, up to the lock.                                    *)
ScanCancelled(w) == Ends(w, FALSE, TRUE)

MatchRow(w) ==
    LET p == worker[w].of
        rows == projection[p].candidates
        detail == Fact(trace.semantics, rows[worker[w].row]).detail
    IN  /\ worker[w].at = "scan" /\ worker[w].row <= Len(rows)
        /\ \/ cancelled[p] /\ ScanCancelled(w)
           \/ ~cancelled[p] /\ Len(detail) > worker[w].left /\ Ends(w, FALSE, TRUE)
           \/ /\ ~cancelled[p] /\ Len(detail) <= worker[w].left
              /\ worker' = [worker EXCEPT
                     ![w].at = "publish", ![w].left = @ - Len(detail),
                     ![w].matched = DetailContains(projection[p].filter.details, detail)]
              /\ UNCHANGED projection
        /\ UNCHANGED <<work, cancelled, queue, got, next>>

(* The row is published under the lock.                                    *)
Published(state, row, matched) ==
    IF state.completed THEN state
    ELSE [state EXCEPT !.visible = IF matched THEN Append(@, row) ELSE @,
                       !.watermark = KeyOf(row)]

Publish(w) ==
    LET p == worker[w].of
    IN  /\ worker[w].at = "publish"
        /\ projection' = [projection EXCEPT
               ![p] = Published(@, @.candidates[worker[w].row], worker[w].matched)]
        /\ worker' = [worker EXCEPT ![w].at = "scan", ![w].row = @ + 1]
        /\ UNCHANGED <<work, cancelled, queue, got, next>>

FinishScan(w) ==
    LET p == worker[w].of
    IN  /\ worker[w].at = "scan" /\ worker[w].row > Len(projection[p].candidates)
        /\ Ends(w, ~cancelled[p], cancelled[p])
        /\ UNCHANGED <<work, cancelled, queue, got, next>>

(* A budget is used up, an allocation fails, or the job panics: the        *)
(* ProjectionTerminalizer is dropped.                                      *)
JobFails(w) ==
    /\ worker[w].at # "idle"
    /\ Ends(w, FALSE, TRUE)
    /\ UNCHANGED <<work, cancelled, queue, got, next>>

(* TimelineProjection::cancel, also when the projection is dropped.        *)
Cancel(p) ==
    /\ projection[p].stage = "open" /\ ~projection[p].completed
    /\ cancelled' = [cancelled EXCEPT ![p] = TRUE]
    /\ projection' = [projection EXCEPT ![p] = Terminalized(@, FALSE, TRUE)]
    /\ UNCHANGED <<work, queue, worker, got, next>>

(* The flag is the caller's: it may be set at any time.                    *)
SetFlag(p) ==
    /\ ~cancelled[p]
    /\ cancelled' = [cancelled EXCEPT ![p] = TRUE]
    /\ UNCHANGED <<work, projection, queue, worker, got, next>>

Page(p, limit) ==
    LET page == PageOf(p, next[p], limit)
    IN  /\ projection[p].stage = "open" /\ next[p] # finished /\ ~page.refused
        /\ got' = [got EXCEPT ![p] = @ \o page.rows]
        /\ next' = [next EXCEPT ![p] = page.next]
        /\ UNCHANGED <<work, projection, cancelled, queue, worker>>

Next ==
    \/ \E p \in Projections :
           \/ Create(p) \/ CreateFails(p) \/ Cancel(p) \/ SetFlag(p)
           \/ \E limit \in Limits : Page(p, limit)
    \/ \E w \in Workers :
           \/ Take(w) \/ BuildMatcher(w) \/ MatchRow(w) \/ Publish(w)
           \/ FinishScan(w) \/ JobFails(w)

Spec == Init /\ [][Next]_vars

(* A worker thread runs until the process ends.                            *)
Fairness == \A w \in Workers : WF_vars(Take(w) \/ BuildMatcher(w) \/ MatchRow(w)
                                           \/ Publish(w) \/ FinishScan(w))
-----------------------------------------------------------------------------
(* What a filter asks for, read off its fields as the client wrote them.   *)
Selects(filter, row) ==
    LET key == trace.keys[row]
        at == Position(row)
        instruction == Fact(trace.instructions, row)
        memory == Fact(trace.memories, row)
        semantic == Fact(trace.semantics, row)
        Asked(field, Matches(_)) == filter[field] = {} \/ \E v \in filter[field] : Matches(v)
        Observed(access, slot) == [owner |-> row, slot |-> slot, access |-> access]
                                      \in ToSet(trace.observations)
    IN  /\ Asked("tids", LAMBDA v : key.tid = v)
        /\ Asked("kinds", LAMBDA v : trace.kinds[row] = v)
        /\ Asked("modules", LAMBDA v : at # None /\ at.module = v)
        /\ Asked("relative_pc", LAMBDA v : at # None /\ at.relative_pc \in v[1]..v[2] - 1)
        /\ Asked("absolute_pc", LAMBDA v :
               /\ at # None /\ at.module # None
               /\ trace.modules[at.module] + at.relative_pc \in v[1]..v[2] - 1)
        /\ Asked("sequence", LAMBDA v : key.sequence # None /\ key.sequence \in v[1]..v[2])
        /\ Asked("mnemonic", LAMBDA v :
               /\ instruction # None /\ instruction.definition # None
               /\ LET name == Lower(trace.definitions[instruction.definition])
                  IN  IF v[1] = "Exact" THEN name = Lower(Trim(v[2]))
                      ELSE Window(Lower(Trim(v[2])), name))
        /\ Asked("reads", LAMBDA v : Observed("Read", v))
        /\ Asked("writes", LAMBDA v : Observed("Write", v))
        /\ Asked("memory", LAMBDA v :
               /\ memory # None
               /\ (v[1]..v[2] - 1) \intersect (memory.address..memory.end_exclusive - 1) # {}
               /\ v[3] # {} => \/ memory.direction \in v[3]
                               \/ /\ memory.direction = "ReadWrite"
                                  /\ v[3] \intersect {"Read", "Write"} # {})
        /\ Asked("categories", LAMBDA v : semantic # None /\ semantic.category = v)
        /\ Asked("names", LAMBDA v : semantic # None /\ semantic.name = v)
        /\ Asked("details", LAMBDA v : semantic # None /\ Window(Trim(v), semantic.detail))

Selected(p) ==
    SetToSortSeq({row \in Rows : Selects(work.filters[p], row)},
                 LAMBDA a, b : KeyLess(trace.keys[a], trace.keys[b]))

(* The pages that a client is given, taken at any moments of the scan and  *)
(* with any limits, are the selected events in the order of their keys,    *)
(* none left out and none repeated; they are all of them once a page has   *)
(* no cursor, and the total that is called exact is theirs (page_guarded,  *)
(* plan_candidates, sort_rows_by_stable_key).                              *)
PagesAreExact ==
    \A p \in Projections : projection[p].stage = "open" =>
        LET all == Selected(p)
        IN  /\ IsPrefix(got[p], all)
            /\ next[p] = finished => got[p] = all
            /\ projection[p].exact_total => projection[p].visible = all

(* A cursor that is used with another projection is refused, or the two    *)
(* are of the same filter and it goes on behind the rows it was given for. *)
(* An event has a location exactly if it is visible, and the page there    *)
(* shows it (locate, locate_offset, encode_cursor).                        *)
CursorsAreTrue ==
    \A p \in Projections : projection[p].stage = "open" /\ ~projection[p].error =>
        LET visible == projection[p].visible
            Shows(cursor, limit, row) ==
                cancelled[p] \/ row \in ToSet(PageOf(p, cursor, limit).rows)
        IN  \A limit \in Limits :
                /\ \A q \in Projections :
                       LET page == PageOf(p, next[q], limit)
                       IN  next[q] \notin {start, finished} /\ ~page.refused
                               => IsPrefix(got[q] \o page.rows, Selected(p))
                /\ \A row \in Rows :
                       LET cursor == Locate(p, row, limit)
                       IN  IF row \in ToSet(visible)
                           THEN cursor # None /\ Shows(cursor, limit, row)
                           ELSE cursor = None
                /\ \A offset \in 0..Len(visible) - 1 :
                       Shows(LocateOffset(p, offset, limit), limit, visible[offset + 1])

(* A projection that was created is completed: its scan ends, or fails, or *)
(* is cancelled, and no client waits for it in vain (submit_semantic_scan, *)
(* ProjectionTerminalizer).                                                *)
ProjectionsEnd ==
    \A p \in 1..2 :
        (p \in Projections /\ projection[p].stage = "open")
            ~> (p \in Projections /\ projection[p].completed)
=============================================================================
