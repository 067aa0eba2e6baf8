--------------------------- MODULE MCTimelineWorks ---------------------------
(* Traces and filters for TLC's instance of TimelineProjection.            *)
EXTENDS Integers

CONSTANTS None, MaxWord

(* Seven events; the order of their keys is not that of their rows.        *)
Key(ordinal, offset, sequence, tid) ==
    [timeline |-> 0, record_ordinal |-> ordinal, source_offset |-> offset,
     sequence |-> sequence, tid |-> tid]

MCTrace ==
    [keys |-> <<Key(2, 1, MaxWord, 1), Key(1, 2, None, 2), Key(1, 2, 0, None),
                Key(2, 0, 3, 0), Key(0, 3, 5, 1), Key(3, 0, 6, 2), Key(1, 2, None, None)>>,
     kinds |-> <<"Instruction", "Instruction", "MemoryAccess", "MemoryAccess",
                 "SemanticCall", "SemanticRule", "SemanticCall">>,
     modules |-> <<1, 3>>,
     definitions |-> <<<<"A", "b">>, <<"b">>>>,
     instructions |-> <<[owner |-> 1, module |-> 1, relative_pc |-> 3, definition |-> 1],
                        [owner |-> 2, module |-> 2, relative_pc |-> 1, definition |-> 2]>>,
     memories |-> <<[owner |-> 3, module |-> 2, relative_pc |-> 2, address |-> 2,
                     end_exclusive |-> 4, direction |-> "ReadWrite"],
                    [owner |-> 4, module |-> None, relative_pc |-> 1, address |-> 4,
                     end_exclusive |-> 5, direction |-> "Write"]>>,
     observations |-> <<[owner |-> 1, slot |-> "x0", access |-> "Read"],
                        [owner |-> 1, slot |-> "x1", access |-> "Write"],
                        [owner |-> 2, slot |-> "x0", access |-> "Write"]>>,
     semantics |-> <<[owner |-> 5, category |-> "c", name |-> "m", detail |-> <<"a", "b">>],
                     [owner |-> 6, category |-> None, name |-> "n", detail |-> <<"b", "a">>],
                     [owner |-> 7, category |-> "c", name |-> "n",
                      detail |-> <<"a", "a", "b", "b">>]>>]

(* One byte too many for a scan of all the details.                        *)
LongTrace == [MCTrace EXCEPT !.semantics[2].detail = <<"b", "a", "b">>]

any == [tids |-> {}, kinds |-> {}, modules |-> {}, relative_pc |-> {}, absolute_pc |-> {},
        sequence |-> {}, mnemonic |-> {}, reads |-> {}, writes |-> {}, memory |-> {},
        categories |-> {}, names |-> {}, details |-> {}]

(* What a filter may ask of each field.                                    *)
Asked ==
    [tids |-> {{0, 2}},
     kinds |-> {{"Instruction", "SemanticRule"}},
     modules |-> {{1}, {2}},
     relative_pc |-> {{<<1, 2>>, <<2, 3>>}, {<<3, 2>>}},
     absolute_pc |-> {{<<0, 4>>, <<2, 5>>}, {<<5, MaxWord>>}, {<<0, 1>>, <<4, 5>>}},
     sequence |-> {{<<0, 3>>, <<4, 5>>}, {<<6, MaxWord>>, <<MaxWord, MaxWord>>}},
     mnemonic |-> {{<<"Contains", <<" ", "b">>>>}, {<<"Exact", <<"a", "b">>>>}},
     reads |-> {{"x0"}},
     writes |-> {{"x0"}},
     memory |-> {{<<1, 3, {"Read"}>>, <<2, 5, {"ReadWrite"}>>}, {<<0, 4, {}>>, <<3, 6, {"Write"}>>}},
     categories |-> {{"c"}},
     names |-> {{"n"}},
     details |-> {{<<"b", "a">>, <<"a", "b", "b">>}}]

(* Every filter on one or two fields.                                      *)
Filters ==
    {any} \union UNION {
        {[[any EXCEPT ![f] = v] EXCEPT ![g] = w] : v \in Asked[f], w \in Asked[g]} :
            <<f, g>> \in (DOMAIN any) \X (DOMAIN any)}

(* Filters on details; the first two are the same when normalized.         *)
Detail(patterns) == [any EXCEPT !.details = patterns]
Scans == <<Detail({<<"a", "b", "b">>, <<"b">>}),
           Detail({<<" ", "b">>, <<"a", "b", "b">>}),
           Detail({<<"a", "a", "b", "a">>, <<"a", "b", "b">>})>>

MCWorks ==
    {[trace |-> MCTrace, filters |-> <<f>>] : f \in Filters}
        \union {[trace |-> MCTrace, filters |-> <<Scans[1], Scans[i]>>] : i \in {2, 3}}
        \union {[trace |-> LongTrace, filters |-> <<Scans[3]>>]}
=============================================================================
