---------------------------- MODULE MCTraceIndex ----------------------------
(* Three alphabets of events for TraceIndex: ids that two chunk            *)
(* generations reuse, registers and semantic events, and memory accesses   *)
(* with the discontinuities of a Flight artifact.                          *)
EXTENDS TraceIndex

Module(id, base, name) == [label |-> "module" \o name, kind |-> "module", id |-> id,
                           base |-> base, name |-> name]
Definition(id, name, flags) == [label |-> "definition" \o name, kind |-> "definition",
                                id |-> id, name |-> name, flags |-> flags]
Instruction(label, pc, reads, writes) ==
    [label |-> label, kind |-> "instruction", module_id |-> 0, definition_id |-> 0,
     pc |-> pc, reads |-> reads, writes |-> writes]
Registers(label, kind, slots, reliable) ==
    [label |-> label, kind |-> kind, slots |-> slots, reliable |-> reliable]
Semantic(category, name, literal) ==
    [label |-> category \o name, kind |-> "semantic", category |-> category, name |-> name,
     literal |-> literal, detail |-> "detail"]
Memory(label, address, size, after) ==
    [label |-> label, kind |-> "memory", module_id |-> 0, address |-> address,
     size |-> size, before |-> "none", after |-> after]
Lost(label, cause, first, last) ==
    [label |-> label, kind |-> "discontinuity",
     evidence |-> [cause |-> cause, first |-> first, last |-> last]]
Plain(kind) == [label |-> kind, kind |-> kind]

Rising == [row \in 0..5 |-> row]
Mixed == [row \in 0..5 |-> IF row < 2 THEN 1 - row ELSE row]
Equal == [row \in 0..5 |-> 1]

ReusedIds == {[label |-> "begin", kind |-> "begin", base |-> 1, name |-> "lib"],
              Module(0, 1, "lib"), Module(0, 2, "app"),
              Definition(0, "bl", {"call"}), Definition(0, "ret", {"return"}),
              Instruction("insn", 1, <<>>, <<>>)}

Reused(kinds, length, order, changes) ==
    [format |-> "flight", scopes |-> [a |-> 1, b |-> 2], length |-> length,
     order |-> order, changes |-> changes,
     payloads |-> {p \in ReusedIds : p.kind \in kinds}]

RegistersAndCalls(length, order, changes) ==
    [format |-> "qtrb", scopes |-> [artifact |-> 1], length |-> length,
     order |-> order, changes |-> changes,
     payloads |-> {Registers("full", "checkpoint", <<0, 1>>, TRUE),
                   Registers("delta", "delta", <<1>>, FALSE),
                   Instruction("reads", 1, <<0>>, <<0, 1>>),
                   Semantic("io", "open", TRUE), Semantic("", "io", FALSE),
                   Plain("lifecycle"), Plain("signals"), Plain("string"), Plain("opaque")}]

AccessesAndLosses(kinds, length, order, changes) ==
    [format |-> "flight", scopes |-> [a |-> 1], length |-> length,
     order |-> order, changes |-> changes,
     payloads |-> {p \in {Memory("long", 0, 4, "bytes"), Memory("low", 0, 1, "none"),
                          Memory("mid", 1, 2, "none"), Memory("empty", 2, 0, "none"),
                          Memory("high", 3, 1, "bytes"), Lost("lost1", 1, 1, 1),
                          Lost("lost2", 1, 2, 3), Lost("damaged", 2, 2, 2)} :
                      p.kind \in kinds}]

AllWorkloads ==
    {Reused({"begin", "module", "instruction"}, 4, Rising, 0),
     Reused({"definition", "instruction"}, 4, Rising, 0),
     Reused({"begin", "module", "definition", "instruction"}, 3, Rising, 0),
     Reused({"begin", "module", "definition", "instruction"}, 2, Equal, 1),
     RegistersAndCalls(3, Mixed, 0), RegistersAndCalls(2, Rising, 1),
     AccessesAndLosses({"memory"}, 4, Rising, 0),
     AccessesAndLosses({"memory", "discontinuity"}, 3, Rising, 0),
     AccessesAndLosses({"memory", "discontinuity"}, 2, Mixed, 1)}
=============================================================================
