----------------------------- MODULE TraceIndex -----------------------------
(***************************************************************************)
(* The normalized index of one trace (qtrace-store/src/index): events are  *)
(* appended in the order of the provider's cursor, ids of modules and      *)
(* instruction definitions are resolved in the scope that defined them,    *)
(* index families are built over the typed rows, the catalog is encoded    *)
(* into the sections of a cache file, and a reader decodes the sections    *)
(* and replays every payload to find out whether the rows are what the     *)
(* payloads say.  TraceCache models the file around the sections.          *)
(*                                                                         *)
(* A payload is a record with a label, which stands for its canonical      *)
(* bytes; names, definitions and captures are strings.  Rows and ids       *)
(* count from 0 as in the code, -1 is None.  `events` keeps what the       *)
(* cursor delivered: the properties compare everything with it.            *)
(***************************************************************************)
EXTENDS Integers, FiniteSets, SequencesExt

CONSTANTS
    Workloads,     \* [format, payloads, scopes with their tids, order (the record
                   \* ordinals of the rows), length and changes (bounds)]
    MinEvents,     \* events a trace has at least
    BlockRows,     \* BuildOptions.interval_block_rows
    MaxArena,      \* BuildOptions.max_string_bytes, in entries
    Slots,         \* RegisterSlot::COUNT
    MaxRows,       \* max_rows of the bounded queries
    Points         \* bound: ends of the ranges that are queried

ASSUME IndexAssumption ==
    /\ MinEvents \in Nat /\ Slots \in Nat /\ MaxArena \in Nat
    /\ BlockRows \in {1, 2, 4, 8} /\ MaxRows \in Nat /\ Points \subseteq Nat

VARIABLES
    workload,
    events,      \* what the cursor has delivered: [payload, scope]
    status,      \* "building", "failed", "built", "altered", "open", "refused"
    build,       \* BuildState while building
    store,       \* the catalog of the OwnedTraceStore
    file,        \* the sections of the cache file
    loaded       \* the catalog of the MappedTraceStore

vars == <<workload, events, status, build, store, file, loaded>>

None == -1
Nothing == [none |-> TRUE]
DetailRowBit == 1000         \* 2^31 in the code
Tables == {"modules", "definitions", "instructions", "memories", "semantics",
           "observations"}

Extend(f, key, value) ==
    [k \in DOMAIN f \union {key} |-> IF k = key THEN value ELSE f[k]]

(* The elements of a set, sorted (cancellable_sort_by, radix_sort_unique_  *)
(* rows): on distinct elements every sort gives this sequence.             *)
SortedBy(S, Less(_, _)) ==
    [i \in 1..Cardinality(S) |->
        CHOOSE x \in S : Cardinality({y \in S : Less(y, x)}) = i - 1]
SortedInts(S) == SortedBy(S, LAMBDA x, y : x < y)
PairLess(p, q) == p[1] < q[1] \/ (p[1] = q[1] /\ p[2] < q[2])
-----------------------------------------------------------------------------
(* ByteArena: the entries, and the next entry that a validating arena has  *)
(* yet to meet; an arena that is being filled has met them all.            *)
Arena == [entries |-> <<>>, met |-> 0, fixed |-> FALSE]
Validation(entries) == [entries |-> entries, met |-> 0, fixed |-> TRUE]

Holds(arena, value) == \E i \in 1..arena.met : arena.entries[i] = value
EntryOf(arena, value) ==
    (CHOOSE i \in 1..arena.met : arena.entries[i] = value) - 1

(* ByteArena::intern succeeds: a validating arena takes the next entry.    *)
Interns(arena, value) ==
    \/ Holds(arena, value)
    \/ IF arena.fixed
       THEN arena.met < Len(arena.entries) /\ arena.entries[arena.met + 1] = value
       ELSE Len(arena.entries) < MaxArena

Intern(arena, value) ==
    IF Holds(arena, value) THEN arena
    ELSE [arena EXCEPT !.met = @ + 1,
                       !.entries = IF arena.fixed THEN @ ELSE Append(@, value)]

(* One arena of the state takes a value; the first failure sticks.         *)
Interned(state, field, value) ==
    IF state.failed \/ ~Interns(state[field], value)
    THEN [state EXCEPT !.failed = TRUE]
    ELSE [state EXCEPT ![field] = Intern(@, value)]
-----------------------------------------------------------------------------
(* BuildState::new and BuildState::validation.                             *)
Fresh == [rows |-> 0, failed |-> FALSE, columns |-> <<>>,
          payloads |-> Arena, strings |-> Arena, blobs |-> Arena,
          tables |-> [t \in Tables |-> <<>>],
          module_by_source |-> <<>>, module_by_semantic |-> <<>>,
          definition_by_source |-> <<>>, definition_by_blob |-> <<>>,
          next_module_id |-> 0, next_definition_id |-> 0,
          saw |-> {}, current_module |-> <<>>]

Validating(catalog) ==
    [Fresh EXCEPT !.strings = Validation(catalog.strings),
                  !.blobs = Validation(catalog.blobs)]

Pushed(state, table, row) == [state EXCEPT !.tables[table] = Append(@, row)]

(* The module of a semantic key, entered when it is new.  Mutation: its id *)
(* is its place in the rows, which validation clears after every event.    *)
WithModuleByLength(state, base, name, source_id, provenance) ==
    LET key == <<base, EntryOf(state.strings, name)>>
    IN  IF key \in DOMAIN state.module_by_semantic THEN state
        ELSE Pushed([state EXCEPT
                 !.module_by_semantic = Extend(@, key, Len(state.tables.modules))],
                 "modules",
                 [source_event_row |-> state.rows, provenance |-> provenance,
                  source_id |-> source_id, base |-> base, name |-> key[2]])

WithModule(state, base, name, source_id, provenance) ==
    LET key == <<base, EntryOf(state.strings, name)>>
    IN  IF key \in DOMAIN state.module_by_semantic THEN state
        ELSE Pushed([state EXCEPT
                 !.next_module_id = @ + 1,
                 !.module_by_semantic = Extend(@, key, state.next_module_id)],
                 "modules",
                 [source_event_row |-> state.rows, provenance |-> provenance,
                  source_id |-> source_id, base |-> base, name |-> key[2]])

(* A source id is bound to the module of a semantic key.                   *)
BoundModule(state, source, base, name, provenance) ==
    LET interned == Interned(state, "strings", name)
        entered == WithModule(interned, base, name, source[2], provenance)
        key == <<base, EntryOf(interned.strings, name)>>
    IN  IF interned.failed THEN interned
        ELSE [entered EXCEPT !.module_by_source =
                 Extend(@, source, [id |-> entered.module_by_semantic[key], key |-> key])]

AppendModule(state, payload, scope) ==
    LET source == <<scope, payload.id>>
        interned == Interned(state, "strings", payload.name)
        key == <<payload.base, EntryOf(interned.strings, payload.name)>>
    IN  IF interned.failed THEN interned
        ELSE IF source \notin DOMAIN state.module_by_source
             THEN BoundModule(state, source, payload.base, payload.name, "captured")
        ELSE [interned EXCEPT !.failed = state.module_by_source[source].key # key]

(* A definition is one entry for all sources with the same exact bytes.    *)
AppendDefinition(state, payload, scope) ==
    LET source == <<scope, payload.id>>
        exact == Interned(state, "blobs", <<"definition", payload.name>>)
        blob == EntryOf(exact.blobs, <<"definition", payload.name>>)
        named == Interned(exact, "strings", payload.name)
        entered == Pushed([named EXCEPT
                       !.next_definition_id = @ + 1,
                       !.definition_by_blob = Extend(@, blob, exact.next_definition_id)],
                       "definitions",
                       [source_event_row |-> state.rows, source_id |-> payload.id,
                        flags |-> payload.flags,
                        mnemonic |-> EntryOf(named.strings, payload.name),
                        exact_blob |-> blob])
        known == IF blob \in DOMAIN state.definition_by_blob THEN exact ELSE entered
    IN  IF exact.failed THEN exact
        ELSE IF source \in DOMAIN state.definition_by_source
             THEN [exact EXCEPT !.failed =
                      state.definition_by_source[source].blob # blob]
        ELSE IF blob \notin DOMAIN state.definition_by_blob /\ named.failed THEN named
        ELSE [known EXCEPT !.definition_by_source =
                 Extend(@, source, [id |-> known.definition_by_blob[blob], blob |-> blob])]

IdIn(map, source) == IF source \in DOMAIN map THEN map[source].id ELSE None

Observations(state, slots, access, provenance) ==
    [i \in 1..Len(slots) |-> [owner_row |-> state.rows, slot |-> slots[i],
                              access |-> access, provenance |-> provenance]]

Observed(state, rows, seen) ==
    [state EXCEPT !.tables.observations = @ \o rows, !.saw = @ \union seen]

(* An instruction whose module was never defined belongs to the module of  *)
(* the last Begin of its scope.  Mutation: ids are looked up in any scope. *)
AppendInstructionUnscoped(state, payload, scope) ==
    LET any(map, id) == {source \in DOMAIN map : source[2] = id}
        idOf(map, id) == IF any(map, id) = {} THEN None
                         ELSE map[CHOOSE source \in any(map, id) : TRUE].id
    IN  Observed(Pushed(state, "instructions",
            [owner_row |-> state.rows, relative_pc |-> payload.pc,
             module |-> idOf(state.module_by_source, payload.module_id),
             definition |-> idOf(state.definition_by_source, payload.definition_id)]),
            Observations(state, payload.reads, "read", "captured")
                \o Observations(state, payload.writes, "write", "captured"),
            IF payload.reads \o payload.writes = <<>> THEN {} ELSE {"registers"})

AppendInstruction(state, payload, scope) ==
    LET source == <<scope, payload.module_id>>
        derives == /\ source \notin DOMAIN state.module_by_source
                   /\ scope \in DOMAIN state.current_module
        bound == IF ~derives THEN state
                 ELSE BoundModule(state, source, state.current_module[scope].base,
                                  state.current_module[scope].name, "derived")
    IN  IF bound.failed THEN bound
        ELSE Observed(Pushed(bound, "instructions",
                 [owner_row |-> state.rows, relative_pc |-> payload.pc,
                  module |-> IdIn(bound.module_by_source, source),
                  definition |-> IdIn(bound.definition_by_source,
                                      <<scope, payload.definition_id>>)]),
                 Observations(state, payload.reads, "read", "captured")
                     \o Observations(state, payload.writes, "write", "captured"),
                 IF payload.reads \o payload.writes = <<>> THEN {} ELSE {"registers"})

AppendMemory(state, payload, scope) ==
    LET before == Interned(state, "blobs", <<"capture", payload.before>>)
        after == Interned(before, "blobs", <<"capture", payload.after>>)
    IN  IF after.failed THEN after
        ELSE Pushed([after EXCEPT !.saw = @ \union {"memory"} \union
                        {b \in {"bytes"} : {payload.before, payload.after} # {"none"}}],
                 "memories",
                 [owner_row |-> state.rows, address |-> payload.address,
                  module |-> IdIn(state.module_by_source, <<scope, payload.module_id>>),
                  end_exclusive |-> payload.address + payload.size,
                  before_blob |-> EntryOf(after.blobs, <<"capture", payload.before>>),
                  after_blob |-> EntryOf(after.blobs, <<"capture", payload.after>>)])

(* A detail that is literal JSON text is borrowed from the payload.        *)
AppendSemantic(state, payload) ==
    LET detailed == IF payload.literal THEN state
                    ELSE Interned(state, "blobs", <<"detail", payload.detail>>)
        category == IF payload.category = "" THEN detailed
                    ELSE Interned(detailed, "strings", payload.category)
        named == Interned(category, "strings", payload.name)
    IN  IF named.failed THEN named
        ELSE Pushed(named, "semantics",
                 [owner_row |-> state.rows,
                  category |-> IF payload.category = "" THEN None
                               ELSE EntryOf(named.strings, payload.category),
                  name |-> EntryOf(named.strings, payload.name),
                  detail_blob |-> IF payload.literal THEN DetailRowBit + state.rows
                                  ELSE EntryOf(named.blobs, <<"detail", payload.detail>>)])

AllSlots == [i \in 1..Slots |-> i - 1]

AppendRegisters(state, payload) ==
    IF payload.kind = "checkpoint"
    THEN Observed(state, Observations(state, payload.slots, "checkpoint", "captured"),
                  {c \in {"checkpoint"} : payload.slots = AllSlots})
    ELSE Observed(state, Observations(state, payload.slots, "delta",
                             IF payload.reliable THEN "captured" ELSE "damaged"), {})

(* append_with_payload_blob.                                               *)
AppendPayload(state, payload, scope) ==
    LET next ==
        CASE payload.kind = "begin" ->
                 [state EXCEPT !.current_module =
                     Extend(@, scope, [base |-> payload.base, name |-> payload.name])]
          [] payload.kind = "module" -> AppendModule(state, payload, scope)
          [] payload.kind = "definition" -> AppendDefinition(state, payload, scope)
          [] payload.kind = "instruction" -> AppendInstruction(state, payload, scope)
          [] payload.kind = "memory" -> AppendMemory(state, payload, scope)
          [] payload.kind = "semantic" -> AppendSemantic(state, payload)
          [] payload.kind \in {"checkpoint", "delta"} -> AppendRegisters(state, payload)
          [] payload.kind \in {"lifecycle", "signals"} ->
                 [state EXCEPT !.saw = @ \union {payload.kind}]
          [] OTHER -> state
    IN  [next EXCEPT !.rows = @ + 1]

(* BuildState::append: the payload's bytes go to their arena first.        *)
Appended(state, payload, scope) ==
    LET kept == [state EXCEPT !.payloads = Intern(@, payload.label)]
    IN  AppendPayload([kept EXCEPT !.columns = Append(@,
            [scope |-> scope, kind |-> payload.kind,
             payload_blob |-> EntryOf(kept.payloads, payload.label)])], payload, scope)
-----------------------------------------------------------------------------
(* Posting lists: runs of equal distances between rows, the first distance *)
(* counted from -1.                                                        *)
PushRow(list, row) ==
    LET delta == IF list.last = None THEN row + 1 ELSE row - list.last
        n == Len(list.runs)
    IN  [last |-> row,
         runs |-> IF n > 0 /\ list.runs[n].delta = delta
                  THEN [list.runs EXCEPT ![n].count = @ + 1]
                  ELSE Append(list.runs, [delta |-> delta, count |-> 1])]

FromRows(rows) == FoldLeft(PushRow, [last |-> None, runs |-> <<>>], rows).runs

(* PostingList::rows.                                                      *)
RowsOf(runs) ==
    FoldLeft(LAMBDA rows, run :
                 LET from == IF rows = <<>> THEN -1 ELSE Last(rows)
                 IN  rows \o [i \in 1..run.count |-> from + i * run.delta],
             <<>>, runs)
RowCount(runs) == FoldLeft(LAMBDA n, run : n + run.count, 0, runs)

(* keyed_postings and keyed_posting_partition: pairs of a key and a row.   *)
KeyedPostings(pairs) ==
    LET keys == SortedInts({p[1] : p \in pairs})
    IN  [i \in 1..Len(keys) |->
            [key |-> keys[i],
             runs |-> FromRows(SortedInts({p[2] : p \in {q \in pairs : q[1] = keys[i]}}))]]

KeyedValues(triples) ==
    LET keys == SortedInts({t[1] : t \in triples})
    IN  [i \in 1..Len(keys) |->
            [key |-> keys[i],
             pairs |-> SortedBy({<<t[2], t[3]>> : t \in {u \in triples : u[1] = keys[i]}},
                                PairLess)]]

(* IntervalIndex::build: entries by start, the greatest end up to each     *)
(* entry, and that of each block.  Mutation: the end of the entry itself.  *)
PrefixOwnEnd(entries) == [i \in 1..Len(entries) |-> entries[i].end_exclusive]
PrefixMaxEnd(entries) ==
    [i \in 1..Len(entries) |-> Max({entries[j].end_exclusive : j \in 1..i})]

Blocks(n) == (n + BlockRows - 1) \div BlockRows
LastOfBlock(block, n) == IF block * BlockRows < n THEN block * BlockRows ELSE n

Intervals(memories) ==
    LET entries == SortedBy({m \in ToSet(memories) : m.address < m.end_exclusive},
                       LAMBDA x, y :
                           \/ x.address < y.address
                           \/ x.address = y.address
                              /\ PairLess(<<x.end_exclusive, x.owner_row>>,
                                          <<y.end_exclusive, y.owner_row>>))
        prefix == PrefixMaxEnd(entries)
    IN  [entries |-> [i \in 1..Len(entries) |->
                         [start |-> entries[i].address, end |-> entries[i].end_exclusive,
                          row |-> entries[i].owner_row]],
         prefix |-> prefix,
         blocks |-> [b \in 1..Blocks(Len(entries)) |-> prefix[LastOfBlock(b, Len(entries))]]]
-----------------------------------------------------------------------------
(* The keys and kinds of the rows, which the base sections of the file     *)
(* hold: discontinuities have no sequence.                                 *)
Kinds == <<"begin", "module", "definition", "instruction", "memory", "semantic",
           "checkpoint", "delta", "string", "lifecycle", "signals", "opaque",
           "discontinuity">>
KindCode(kind) == CHOOSE i \in 1..Len(Kinds) : Kinds[i] = kind

Keys == [row \in 0..Len(events) - 1 |->
            [ordinal |-> workload.order[row], tid |-> workload.scopes[events[row + 1].scope],
             kind |-> KindCode(events[row + 1].payload.kind),
             sequence |-> IF events[row + 1].payload.kind = "discontinuity" THEN None
                          ELSE workload.order[row]]]
DuplicateKeys(keys) ==
    \E i, j \in DOMAIN keys : i # j /\ keys[i].ordinal = keys[j].ordinal

(* SourceKeyIndex::build: the rows in the order of their keys.             *)
SourceKeys(keys) ==
    SortedBy(DOMAIN keys, LAMBDA i, j : keys[i].ordinal < keys[j].ordinal)

Flagged(tables, flag) ==
    {i.owner_row : i \in {j \in ToSet(tables.instructions) :
        j.definition # None /\ flag \in tables.definitions[j.definition + 1].flags}}

(* build_indexes; validate_index_families builds each family again.        *)
BuildIndexes(keys, tables) ==
    LET ins == ToSet(tables.instructions)
        sem == ToSet(tables.semantics)
        obs == ToSet(tables.observations)
    IN  [maps |->
            [tid |-> KeyedPostings({<<keys[r].tid, r>> :
                        r \in {q \in DOMAIN keys : keys[q].tid # None}}),
             kind |-> KeyedPostings({<<keys[r].kind, r>> : r \in DOMAIN keys}),
             module |-> KeyedPostings({<<i.module, i.owner_row>> :
                        i \in {j \in ins : j.module # None}}),
             definition |-> KeyedPostings({<<i.definition, i.owner_row>> :
                        i \in {j \in ins : j.definition # None}}),
             register |-> KeyedPostings({<<o.slot, o.owner_row>> : o \in obs}),
             category |-> KeyedPostings({<<s.category, s.owner_row>> :
                        s \in {t \in sem : t.category # None}}),
             name |-> KeyedPostings({<<s.name, s.owner_row>> : s \in sem})],
         lists |->
            [call |-> FromRows(SortedInts(Flagged(tables, "call"))),
             return |-> FromRows(SortedInts(Flagged(tables, "return"))),
             checkpoint |-> FromRows(SortedInts({o.owner_row :
                        o \in {p \in obs : p.access = "checkpoint"}}))],
         sequence |-> SortedBy({<<keys[r].sequence, r>> :
                        r \in {q \in DOMAIN keys : keys[q].sequence # None}}, PairLess),
         module_pc |-> KeyedValues({<<i.module, i.relative_pc, i.owner_row>> :
                        i \in {j \in ins : j.module # None}}),
         memory |-> Intervals(tables.memories),
         source_keys |-> SourceKeys(keys)]
-----------------------------------------------------------------------------
(* Completeness: rows [cause, first, last] in the order of cause and first *)
(* bound; cause 0 is Retained.  The provider's summary has the maximal     *)
(* runs of what the discontinuities say (FlightRecovery) and those of the  *)
(* sequences that the events have; of a qtrace file it has one range.      *)
RangeLess(r, s) == \/ r.cause < s.cause
                   \/ r.cause = s.cause /\ PairLess(<<r.first, r.last>>, <<s.first, s.last>>)
Evidence == {e.payload.evidence :
                e \in {f \in ToSet(events) : f.payload.kind = "discontinuity"}}
Covered(cause) == UNION {e.first..e.last : e \in {f \in Evidence : f.cause = cause}}
Runs(cause, covered) ==
    {r \in [cause : {cause}, first : covered, last : covered] :
        /\ r.first <= r.last /\ r.first..r.last \subseteq covered
        /\ {r.first - 1, r.last + 1} \cap covered = {}}
Sequences == {k \in {Keys[r].sequence : r \in DOMAIN Keys} : k # None}
Summary ==
    SortedBy(IF workload.format = "qtrb"
             THEN {[cause |-> 0, first |-> 0, last |-> Len(events)]}
             ELSE Runs(0, Sequences)
                      \union UNION {Runs(e.cause, Covered(e.cause)) : e \in Evidence},
             RangeLess)

(* canonicalize_discontinuity_evidence.                                    *)
Canonicalized(ranges) ==
    FoldLeft(LAMBDA kept, range :
        IF kept # <<>> /\ Last(kept).cause = range.cause /\ range.first <= Last(kept).last + 1
        THEN [kept EXCEPT ![Len(kept)].last = Max({@, range.last})]
        ELSE Append(kept, range), <<>>, SortedBy(ranges, RangeLess))

(* validate_completeness_rows.                                             *)
CanonicalRows(rows) ==
    \A i \in 1..Len(rows) - 1 :
        /\ RangeLess(rows[i], rows[i + 1])
        /\ ~(rows[i].cause = rows[i + 1].cause /\ rows[i + 1].first <= rows[i].last + 1)
-----------------------------------------------------------------------------
Optional == {"checkpoint", "registers", "memory", "bytes", "lifecycle", "signals"}
ProviderCapabilities(format) ==
    {"thread", "loss"} \union
    (IF format = "flight" THEN Optional \union {"global"} ELSE Optional \ {"checkpoint"})

(* build_provider and finish: a capability that no event showed is off.    *)
Capabilities(format, saw) == ProviderCapabilities(format) \ (Optional \ saw)

Catalog(state) ==
    [columns |-> state.columns, payloads |-> state.payloads.entries,
     strings |-> state.strings.entries, blobs |-> state.blobs.entries,
     tables |-> state.tables, completeness |-> Summary,
     capabilities |-> Capabilities(workload.format, state.saw),
     indexes |-> BuildIndexes(Keys, state.tables)]

(* validate_shape.                                                         *)
ValidShape(c) ==
    LET known(id, table) == id = None \/ id < Len(table)
    IN  /\ \A e \in ToSet(c.columns) : e.payload_blob < Len(c.payloads)
        /\ \A m \in ToSet(c.tables.modules) : m.name < Len(c.strings)
        /\ \A d \in ToSet(c.tables.definitions) :
               d.mnemonic < Len(c.strings) /\ d.exact_blob < Len(c.blobs)
        /\ \A i \in ToSet(c.tables.instructions) :
               /\ i.owner_row < Len(events)
               /\ known(i.module, c.tables.modules)
               /\ known(i.definition, c.tables.definitions)
        /\ \A m \in ToSet(c.tables.memories) :
               /\ m.owner_row < Len(events) /\ known(m.module, c.tables.modules)
               /\ m.before_blob < Len(c.blobs) /\ m.after_blob < Len(c.blobs)
        /\ \A s \in ToSet(c.tables.semantics) :
               /\ s.owner_row < Len(events)
               /\ s.category < Len(c.strings) /\ s.name < Len(c.strings)
               /\ IF s.detail_blob >= DetailRowBit
                  THEN s.detail_blob - DetailRowBit < Len(events)
                  ELSE s.detail_blob < Len(c.blobs)
        /\ \A o \in ToSet(c.tables.observations) :
               o.owner_row < Len(events) /\ o.slot < Slots
        /\ Len(c.indexes.source_keys) = Len(events)

Decoded(label) == CHOOSE p \in workload.payloads : p.label = label

(* One row of validate_cached_truth: the payload is appended again, and    *)
(* what it adds to the tables is compared with the next stored rows.       *)
Replayed(c, replay, row) ==
    LET column == c.columns[row]
        payload == Decoded(c.payloads[column.payload_blob + 1])
        state == AppendPayload(replay.state, payload, column.scope)
        next == [t \in Tables |-> replay.cursors[t] + Len(state.tables[t])]
    IN  [state |-> [state EXCEPT !.tables = [t \in Tables |-> <<>>]],
         cursors |-> next,
         evidence |-> replay.evidence \union
                      {p.evidence : p \in {q \in {payload} : q.kind = "discontinuity"}},
         ok |-> /\ replay.ok /\ ~state.failed
                /\ KindCode(payload.kind) = Keys[row - 1].kind
                /\ payload.kind = column.kind
                /\ \A t \in Tables :
                       /\ next[t] <= Len(c.tables[t])
                       /\ SubSeq(c.tables[t], replay.cursors[t] + 1, next[t])
                              = state.tables[t]]

(* validate_cached_truth.                                                  *)
Truthful(c) ==
    LET end == FoldLeft(LAMBDA replay, row :
                            IF replay.ok THEN Replayed(c, replay, row) ELSE replay,
                        [state |-> Validating(c), cursors |-> [t \in Tables |-> 0],
                         evidence |-> {}, ok |-> TRUE],
                        [row \in 1..Len(events) |-> row])
        lost == SelectSeq(c.completeness, LAMBDA r : r.cause # 0)
    IN  /\ end.ok
        /\ \A t \in Tables : end.cursors[t] = Len(c.tables[t])
        /\ CanonicalRows(c.completeness)
        /\ workload.format = "flight" => Canonicalized(end.evidence) = lost
        /\ \A field \in {"strings", "blobs"} :
               end.state[field].met = Len(end.state[field].entries)
        /\ c.capabilities = Capabilities(workload.format, end.state.saw)
                                \ {l \in {"loss"} : c.completeness = <<>>}
-----------------------------------------------------------------------------
(* The sections of the file.  An optional id is a value and a presence     *)
(* bit; the runs of a map are flat rows with their key.                    *)
EncodeOption(id) == IF id = None THEN [present |-> FALSE, value |-> 0]
                    ELSE [present |-> TRUE, value |-> id]

DecodeOption(option) == IF option.present THEN option.value ELSE None

OptionalFields == [t \in Tables |->
    CASE t = "instructions" -> {"module", "definition"}
      [] t = "memories" -> {"module"}
      [] t = "semantics" -> {"category"}
      [] OTHER -> {}]

EncodeRow(table, row) ==
    [f \in DOMAIN row |-> IF f \in OptionalFields[table] THEN EncodeOption(row[f]) ELSE row[f]]
DecodeRow(table, row) ==
    [f \in DOMAIN row |-> IF f \in OptionalFields[table] THEN DecodeOption(row[f]) ELSE row[f]]
EachRow(tables, F(_, _)) ==
    [t \in Tables |-> [i \in 1..Len(tables[t]) |-> F(t, tables[t][i])]]

EncodeMap(map) ==
    FlattenSeq([i \in 1..Len(map) |->
        [j \in 1..Len(map[i].runs) |->
            [key |-> map[i].key, delta |-> map[i].runs[j].delta,
             count |-> map[i].runs[j].count]]])
EncodePairs(map) ==
    FlattenSeq([i \in 1..Len(map) |->
        [j \in 1..Len(map[i].pairs) |-> <<map[i].key, map[i].pairs[j]>>]])

(* decode_map: rows of one key that follow one another are one list.       *)
DecodeMap(rows) ==
    FoldLeft(LAMBDA map, row :
        LET run == [delta |-> row.delta, count |-> row.count]
        IN  IF map # <<>> /\ Last(map).key = row.key
            THEN [map EXCEPT ![Len(map)].runs = Append(@, run)]
            ELSE Append(map, [key |-> row.key, runs |-> <<run>>]), <<>>, rows)
DecodePairs(rows) ==
    FoldLeft(LAMBDA map, row :
        IF map # <<>> /\ Last(map).key = row[1]
        THEN [map EXCEPT ![Len(map)].pairs = Append(@, row[2])]
        ELSE Append(map, [key |-> row[1], pairs |-> <<row[2]>>]), <<>>, rows)

(* SortedMap::from_sorted and PostingList::from_runs.                      *)
WellFormed(map) ==
    /\ \A i \in 1..Len(map) - 1 : map[i].key < map[i + 1].key
    /\ \A i \in 1..Len(map) : \A run \in ToSet(map[i].runs) : run.delta > 0 /\ run.count > 0

Encode(c) ==
    [c EXCEPT !.tables = EachRow(@, EncodeRow),
              !.indexes.maps = [f \in DOMAIN @ |-> EncodeMap(@[f])],
              !.indexes.module_pc = EncodePairs(@),
              !.indexes.memory.blocks = [i \in 1..Len(@) |-> <<i - 1, @[i]>>]]
Decode(f) ==
    [f EXCEPT !.tables = EachRow(@, DecodeRow),
              !.indexes.maps = [g \in DOMAIN @ |-> DecodeMap(@[g])],
              !.indexes.module_pc = DecodePairs(@),
              !.indexes.memory.blocks = [i \in 1..Len(@) |-> @[i][2]]]

(* decode with deep_validate.                                              *)
Accepts(f) ==
    LET c == Decode(f)
    IN  /\ \A map \in {c.indexes.maps[g] : g \in DOMAIN c.indexes.maps} : WellFormed(map)
        /\ \A i \in 1..Len(f.indexes.memory.blocks) :
               f.indexes.memory.blocks[i][1] = i - 1
        /\ Len(c.columns) = Len(events)
        /\ ValidShape(c)
        /\ c.indexes = BuildIndexes(Keys, c.tables)
        /\ Truthful(c)
-----------------------------------------------------------------------------
Init ==
    /\ workload \in Workloads
    /\ events = <<>> /\ status = "building" /\ build = Fresh
    /\ store = Nothing /\ file = Nothing /\ loaded = Nothing

(* One event of the cursor.  The first error ends the build.               *)
AppendEvent(payload, scope) ==
    /\ status = "building" /\ Len(events) < workload.length
    /\ events' = Append(events, [payload |-> payload, scope |-> scope])
    /\ build' = Appended(build, payload, scope)
    /\ status' = IF build'.failed THEN "failed" ELSE status
    /\ UNCHANGED <<workload, store, file, loaded>>

(* The work guard refuses, or the job is cancelled.                        *)
Stop ==
    /\ status = "building" /\ status' = "failed"
    /\ UNCHANGED <<workload, events, build, store, file, loaded>>

(* The cursor is drained: append_completeness, finish and the encoding.    *)
Finish ==
    /\ status = "building" /\ Len(events) >= MinEvents
    /\ IF DuplicateKeys(Keys) \/ ~CanonicalRows(Summary)
       THEN status' = "failed" /\ UNCHANGED <<store, file>>
       ELSE /\ status' = "built"
            /\ store' = Catalog(build)
            /\ file' = Encode(store')
    /\ build' = Fresh
    /\ UNCHANGED <<workload, events, loaded>>

(* One section of the file no longer holds what was written: a row or an   *)
(* entry is dropped, repeated or exchanged, a number is another one.       *)
Damaged(seq) ==
    {Front(s) : s \in {t \in {seq} : t # <<>>}}
    \union {Append(s, Last(s)) : s \in {t \in {seq} : t # <<>>}}
    \union {Reverse(seq)}

Alterations(f) ==
    {[f EXCEPT !.strings = s] : s \in Damaged(f.strings)}
    \union {[f EXCEPT !.blobs = s] : s \in Damaged(f.blobs)}
    \union UNION {{[f EXCEPT !.tables[t] = s] : s \in Damaged(f.tables[t])} : t \in Tables}
    \union {[f EXCEPT !.tables.instructions[i].module = EncodeOption(id)] :
               i \in DOMAIN f.tables.instructions, id \in {None, 0, 1}}
    \union {[f EXCEPT !.capabilities = IF c \in @ THEN @ \ {c} ELSE @ \union {c}] :
               c \in ProviderCapabilities("flight")}
    \union UNION {{[f EXCEPT !.indexes.maps[g] = s] : s \in Damaged(f.indexes.maps[g])} :
               g \in DOMAIN f.indexes.maps}
    \union UNION {{[f EXCEPT !.indexes.maps[g][i].delta = @ + 1] :
                      i \in DOMAIN f.indexes.maps[g]} : g \in DOMAIN f.indexes.maps}
    \union {[f EXCEPT !.indexes.memory.prefix[i] = @ + 1] :
               i \in DOMAIN f.indexes.memory.prefix}
    \union {[f EXCEPT !.indexes.source_keys = s] : s \in Damaged(f.indexes.source_keys)}
    \union {[f EXCEPT !.completeness = s] : s \in Damaged(f.completeness)}

Alter(altered) ==
    /\ status = "built" /\ workload.changes > 0 /\ altered # file
    /\ file' = altered /\ status' = "altered"
    /\ UNCHANGED <<workload, events, build, store, loaded>>

(* CacheReader::open and decode.                                           *)
Reopen ==
    /\ status \in {"built", "altered"}
    /\ IF Accepts(file) THEN status' = "open" /\ loaded' = Decode(file)
                        ELSE status' = "refused" /\ UNCHANGED loaded
    /\ UNCHANGED <<workload, events, build, store, file>>

Next == \/ \E payload \in workload.payloads, scope \in DOMAIN workload.scopes :
               AppendEvent(payload, scope)
        \/ Stop \/ Finish \/ Reopen
        \/ status = "built" /\ \E altered \in Alterations(file) : Alter(altered)

Spec == Init /\ [][Next]_vars
-----------------------------------------------------------------------------
(* Queries, with the work the guard is charged: guarded_partition_point_   *)
(* with_work and SortedMap::guarded_get.                                   *)
PartitionPoint(values, Before(_)) ==
    FoldLeft(LAMBDA s, step :
        IF s.left = s.right THEN s
        ELSE LET middle == (s.left + s.right) \div 2
             IN  IF Before(values[middle + 1])
                 THEN [s EXCEPT !.left = middle + 1, !.work = @ + 1]
                 ELSE [s EXCEPT !.right = middle, !.work = @ + 1],
        [left |-> 0, right |-> Len(values), work |-> 0], values)

Lookup(map, key) ==
    FoldLeft(LAMBDA s, step :
        IF s.left = s.right \/ s.found # None THEN s
        ELSE LET middle == (s.left + s.right) \div 2
             IN  IF map[middle + 1].key = key
                 THEN [s EXCEPT !.found = middle + 1, !.work = @ + 1]
                 ELSE IF map[middle + 1].key < key
                 THEN [s EXCEPT !.left = middle + 1, !.work = @ + 1]
                 ELSE [s EXCEPT !.right = middle, !.work = @ + 1],
        [left |-> 0, right |-> Len(map), found |-> None, work |-> 0], map)

Total(seq, F(_)) == FoldLeft(LAMBDA n, x : n + F(x), 0, seq)

(* radix_sort_unique_rows over eight bytes, and RadixWork.                 *)
RadixWork(rows) == IF rows >= 2 THEN 8 * (2 * rows + 256) + rows - 1 ELSE 0
Unique(rows) == SortedInts(ToSet(rows))

Refused == [ok |-> FALSE, rows |-> <<>>, work |-> 0, count |-> 0]

(* map_decode_work.                                                        *)
MapDecodeWork(terms, lookups, lists, rows) ==
    2 * (terms + lookups) + lists + rows + (IF lists > 1 THEN RadixWork(rows) ELSE 0)

(* The lists of the keys, as bounded_map_estimate meets them.              *)
FoundLists(map, lookups, hits) ==
    [work |-> Len(lookups) + Total(lookups, LAMBDA l : l.work),
     lists |-> [i \in 1..Len(hits) |-> map[hits[i].found].runs],
     rows |-> Total(hits, LAMBDA l : RowCount(map[l.found].runs))]
FoundAmong(map, lookups) ==
    FoundLists(map, lookups, SelectSeq(lookups, LAMBDA l : l.found # None))
Found(map, keys) == FoundAmong(map, [i \in 1..Len(keys) |-> Lookup(map, keys[i])])

MapEstimate(found, keys) ==
    IF found.rows > MaxRows THEN Refused
    ELSE [ok |-> TRUE, rows |-> <<>>, count |-> found.rows,
          work |-> MapDecodeWork(Len(keys), found.work - Len(keys),
                                 Len(found.lists), found.rows)]

(* bounded_map_rows and bounded_posting_union.                             *)
PostingUnion(found, rows, several) ==
    [ok |-> TRUE, count |-> found.rows,
     rows |-> IF several THEN Unique(rows) ELSE rows,
     work |-> found.work + found.work + Len(found.lists) + Len(rows)
                  + (IF several THEN RadixWork(Len(rows)) ELSE 0)]
MapRows(found) ==
    IF found.rows > MaxRows THEN Refused
    ELSE PostingUnion(found,
             FlattenSeq([i \in 1..Len(found.lists) |-> RowsOf(found.lists[i])]),
             Len(found.lists) > 1)

(* bounded_pair_estimate and bounded_pair_rows.                            *)
PairsBetween(pairs, first, last) ==
    IF last.left - first.left > MaxRows THEN Refused
    ELSE [ok |-> TRUE, count |-> last.left - first.left,
          rows |-> Unique([i \in 1..last.left - first.left |-> pairs[first.left + i][2]]),
          work |-> first.work + last.work + (last.left - first.left)
                       + RadixWork(last.left - first.left)]
Pairs(pairs, start, end) ==
    IF start >= end THEN [Refused EXCEPT !.ok = TRUE]
    ELSE PairsBetween(pairs, PartitionPoint(pairs, LAMBDA p : p[1] < start),
                             PartitionPoint(pairs, LAMBDA p : p[1] < end))

PcPairs(module_pc, module) ==
    LET at == Lookup(module_pc, module).found
    IN  IF at = None THEN <<>> ELSE module_pc[at].pairs

(* locate_bounded: from the first block whose greatest end is past the     *)
(* start, and from there to the first entry with such a prefix.            *)
LocatedFrom(memory, start, upper, block, from) ==
    LET first == Min({i \in from..upper.left :
                         i = upper.left \/ memory.prefix[i + 1] > start})
    IN  [first |-> first, upper |-> upper.left,
         work |-> upper.work + (IF upper.left = 0 THEN 0
                  ELSE block.work + (first - from) + (IF first < upper.left THEN 1 ELSE 0))]
LocatedIn(memory, start, upper, block) ==
    LocatedFrom(memory, start, upper, block, Min({block.left * BlockRows, upper.left}))
Locate(memory, start, end) ==
    LocatedIn(memory, start, PartitionPoint(memory.entries, LAMBDA e : e.start < end),
                             PartitionPoint(memory.blocks, LAMBDA m : m <= start))

Span(memory, located) == SubSeq(memory.entries, located.first + 1, located.upper)

OverlapEstimate(located, span, count) ==
    IF count > MaxRows THEN Refused
    ELSE [ok |-> TRUE, rows |-> <<>>, count |-> count,
          work |-> IF located.upper = 0 THEN located.work
                   ELSE 2 * located.work + 2 * Len(span) + RadixWork(count)]

(* overlaps_bounded: rows that follow one another are not sorted again; an *)
(* empty range is answered before all this with no rows.                   *)
Overlaps(located, span, rows) ==
    LET ordered == \A i \in 1..Len(rows) - 1 : rows[i] < rows[i + 1]
    IN  IF Len(rows) > MaxRows THEN Refused
        ELSE [ok |-> TRUE, count |-> Len(rows),
              rows |-> IF ordered THEN rows ELSE Unique(rows),
              work |-> IF located.upper = 0 THEN located.work
                       ELSE located.work + (located.work + Len(span)) + Len(span)
                                + (IF ordered THEN 0 ELSE RadixWork(Len(rows)))]

(* SourceKeyIndex::find.                                                   *)
RowForSource(indexes, ordinal) ==
    LET at == PartitionPoint(indexes.source_keys, LAMBDA r : Keys[r].ordinal < ordinal).left
    IN  IF at < Len(indexes.source_keys) /\ Keys[indexes.source_keys[at + 1]].ordinal = ordinal
        THEN indexes.source_keys[at + 1] ELSE None
-----------------------------------------------------------------------------
(* What the events themselves say.                                         *)
Event(row) == events[row + 1]
Earlier(row, Is(_)) ==
    {r \in 0..row - 1 : Event(r).scope = Event(row).scope /\ Is(Event(r).payload)}

(* The row that gave a module id its meaning in the scope of an            *)
(* instruction: its first definition there, or the first instruction that  *)
(* used it after a Begin; and the module it then means.                    *)
Binder(row) ==
    LET id == Event(row).payload.module_id
        binders == Earlier(row, LAMBDA p : p.kind = "module" /\ p.id = id)
                   \union {r \in {row} \union Earlier(row, LAMBDA p :
                               p.kind = "instruction" /\ p.module_id = id) :
                               Earlier(r, LAMBDA p : p.kind = "begin") # {}}
    IN  IF binders = {} THEN None ELSE Min(binders)
ModuleOf(row) ==
    LET binder == Binder(row)
        source == IF Event(binder).payload.kind = "module" THEN binder
                  ELSE Max(Earlier(binder, LAMBDA p : p.kind = "begin"))
    IN  IF binder = None THEN {}
        ELSE {<<Event(source).payload.base, Event(source).payload.name>>}
DefinitionOf(row) ==
    {Event(r).payload.name : r \in Earlier(row, LAMBDA p :
        p.kind = "definition" /\ p.id = Event(row).payload.definition_id)}

(* An instruction names the module and the definition that its own chunk   *)
(* gave the ids, although another chunk generation uses the same ids for   *)
(* others, and a module or definition met in several scopes is one entry   *)
(* (append_with_payload_blob).                                             *)
ResolvesInScope ==
    status = "built" =>
        LET modules == [i \in 1..Len(store.tables.modules) |->
                <<store.tables.modules[i].base,
                  store.strings[store.tables.modules[i].name + 1]>>]
            definitions == [i \in 1..Len(store.tables.definitions) |->
                store.strings[store.tables.definitions[i].mnemonic + 1]]
        IN  /\ \A i \in ToSet(store.tables.instructions) :
                   /\ ModuleOf(i.owner_row)
                          = IF i.module = None THEN {} ELSE {modules[i.module + 1]}
                   /\ DefinitionOf(i.owner_row)
                          = IF i.definition = None THEN {} ELSE {definitions[i.definition + 1]}
            /\ IsInjective(modules) /\ IsInjective(definitions)

(* The keys that a row has in a posting family, from its event.            *)
KeysOf(c, family, row) ==
    LET p == Event(row).payload
        ids(table, Is(_)) == {i \in 0..Len(table) - 1 : Is(table[i + 1])}
        string(text) == ids(c.strings, LAMBDA t : t = text)
    IN  CASE family = "tid" -> {workload.scopes[Event(row).scope]} \ {None}
          [] family = "kind" -> {KindCode(p.kind)}
          [] family = "module" ->
                 IF p.kind # "instruction" THEN {}
                 ELSE ids(c.tables.modules,
                          LAMBDA m : <<m.base, c.strings[m.name + 1]>> \in ModuleOf(row))
          [] family = "definition" ->
                 IF p.kind # "instruction" THEN {}
                 ELSE ids(c.tables.definitions,
                          LAMBDA d : c.strings[d.mnemonic + 1] \in DefinitionOf(row))
          [] family = "register" ->
                 CASE p.kind = "instruction" -> ToSet(p.reads \o p.writes)
                   [] p.kind \in {"checkpoint", "delta"} -> ToSet(p.slots)
                   [] OTHER -> {}
          [] family = "category" ->
                 IF p.kind = "semantic" /\ p.category # "" THEN string(p.category) ELSE {}
          [] family = "name" -> IF p.kind = "semantic" THEN string(p.name) ELSE {}

Rows == 0..Len(events) - 1
Exactly(answer, rows) == answer.ok => answer.rows = SortedInts(rows)
Absent == 99

(* The key sequences a family is asked for: one key or two, found or not.  *)
Terms(map) ==
    LET keys == {map[i].key : i \in 1..Len(map)} \union {Absent}
    IN  {<<k>> : k \in keys} \union
        {<<p[2], p[1]>> : p \in {q \in keys \X keys : q[1] < q[2]}}
Ranges == {r \in Points \X Points : r[1] <= r[2]}

Accesses(first, end) ==
    {r \in Rows : LET p == Event(r).payload
                  IN  /\ p.kind = "memory"
                      /\ (first..end - 1) \cap (p.address..p.address + p.size - 1) # {}}
ExecutedAt(module, first, end) ==
    {r \in Rows : /\ Event(r).payload.kind = "instruction"
                  /\ Event(r).payload.pc \in first..end - 1
                  /\ module \in KeysOf(loaded, "module", r)}

(* The answer is exact, or the query is refused for its size, by the       *)
(* estimate and the decoder alike; and the answer has no more rows and     *)
(* charges the work guard no more than the estimate said.                  *)
Answers(answer, estimate, rows) ==
    /\ Exactly(answer, rows)
    /\ estimate.ok = answer.ok
    /\ answer.work <= estimate.work /\ Len(answer.rows) <= estimate.count

PostingAnswers(found, family, keys) ==
    Answers(MapRows(found), MapEstimate(found, keys),
            {r \in Rows : KeysOf(loaded, family, r) \cap ToSet(keys) # {}})

OverlapAnswers(located, span, first, end) ==
    LET hits == SelectSeq(span, LAMBDA e : e.end > first)
    IN  Answers(Overlaps(located, span, [i \in 1..Len(hits) |-> hits[i].row]),
                OverlapEstimate(located, span, Len(hits)), Accesses(first, end))

LocatedAnswers(memory, located, first, end) ==
    OverlapAnswers(located, Span(memory, located), first, end)

ListsAreExact(lists) ==
    /\ \A flag \in {"call", "return"} :
           ToSet(RowsOf(lists[flag])) =
               {r \in Rows : Event(r).payload.kind = "instruction" /\
                   \E d \in Rows : /\ Event(d).payload.kind = "definition"
                                   /\ Event(d).payload.name \in DefinitionOf(r)
                                   /\ flag \in Event(d).payload.flags}
    /\ ToSet(RowsOf(lists.checkpoint)) =
           {r \in Rows : Event(r).payload.kind = "checkpoint"
                             /\ Event(r).payload.slots # <<>>}

(* Every bounded query of a reopened trace returns exactly the rows of the *)
(* events that match, once each and in order, or is refused for its size,  *)
(* and costs no more than the estimate it was admitted with: posting       *)
(* families, sequence and module PC ranges, memory overlaps (a long access *)
(* that starts before many short ones included), call, return and          *)
(* checkpoint lists and the lookup of a source key.                        *)
QueriesAreExact ==
    status = "open" =>
        LET ix == loaded.indexes
        IN  /\ \A family \in DOMAIN ix.maps : \A keys \in Terms(ix.maps[family]) :
                   PostingAnswers(Found(ix.maps[family], keys), family, keys)
            /\ \A q \in Ranges :
                   /\ q[1] < q[2] =>
                          LocatedAnswers(ix.memory, Locate(ix.memory, q[1], q[2]), q[1], q[2])
                   /\ Exactly(Pairs(ix.sequence, q[1], q[2]),
                          {r \in Rows : Keys[r].sequence \in q[1]..q[2] - 1})
                   /\ \A module \in 0..Len(loaded.tables.modules) :
                          Exactly(Pairs(PcPairs(ix.module_pc, module), q[1], q[2]),
                                  ExecutedAt(module, q[1], q[2]))
            /\ ListsAreExact(ix.lists)
            /\ \A r \in Rows : RowForSource(ix, Keys[r].ordinal) = r

(* A file that was written as built is accepted again, and whatever is     *)
(* accepted after a change in the file is the catalog that was built: the  *)
(* replay of the payloads leaves nothing in the tables, dictionaries,      *)
(* capabilities and indexes to the file's word (validate_cached_truth).    *)
ReopensAsBuilt ==
    /\ status = "open" => loaded = store
    /\ status = "refused" => file # Encode(store)
=============================================================================
