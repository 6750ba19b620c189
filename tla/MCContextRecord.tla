-------------------------- MODULE MCContextRecord --------------------------
EXTENDS ContextRecord

Distinct(list) == \A i, j \in DOMAIN list : list[i].id = list[j].id => i = j

ListsOf(parts, n) == {l \in UNION {[1..k -> parts] : k \in 0..n} : Distinct(l)}

Parts == {[id |-> "p", text |-> "t", src |-> None], [id |-> "p", text |-> "t", src |-> "x"],
          [id |-> "p", text |-> "u", src |-> None], [id |-> "q", text |-> "t", src |-> None],
          [id |-> "r", text |-> "t", src |-> None]}

OmittedParts == {[id |-> "p", text |-> "t"], [id |-> "p", text |-> "u"],
                 [id |-> "q", text |-> "t"], [id |-> "r", text |-> "t"]}

Message(n) == [type |-> "item", kind |-> "message", rid |-> 0, images |-> n]
Output(n)  == [type |-> "item", kind |-> "output", rid |-> 0, images |-> n]

Outputs == {None}
  \cup {[text |-> t, items |-> s, groups |-> <<>>] : t \in {"d", "e"}, s \in {{}, {2}, {2, 3}}}
  \cup {[text |-> None, items |-> {}, groups |-> [x \in {"g"} |-> s]] : s \in {{2}, {2, 3}}}
  \cup {[text |-> "d", items |-> {2}, groups |-> [x \in {"g"} |-> {3}]]}
  \cup {[text |-> None, items |-> {}, groups |-> [x \in {"g", "h"} |-> IF x = "g" THEN {2} ELSE {3}]]}

Images == {None, [keep |-> 1, before |-> 0], [keep |-> 0, before |-> 3]}

Omits == {[reasoning |-> r, items |-> s, outputs |-> o, images |-> m] :
            r \in BOOLEAN, s \in {{}, {1}}, o \in Outputs, m \in Images}

NoReasoning == [NoOmit EXCEPT !.reasoning = TRUE]

Quiet == [parts |-> {}, omitted |-> {}, omits |-> {}, models |-> {}, items |-> {}, compacts |-> TRUE,
          calls |-> FALSE, start |-> <<Message(0)>>, want |-> Wanted, max |-> 4]

MCAgendas ==
  {[Quiet EXCEPT !.parts = ListsOf(Parts, 3)],
   [Quiet EXCEPT !.omitted = ListsOf(OmittedParts, 3)],
   [Quiet EXCEPT !.omits = {o \in Omits : ~o.reasoning}, !.compacts = FALSE,
                 !.start = <<Message(2), Output(1), Output(0)>>, !.max = 5],
   [Quiet EXCEPT !.models = {"m", "n"}, !.calls = TRUE, !.max = 7,
                 !.start = <<Message(0), [NoDelta EXCEPT !.model = "m"], [NoDelta EXCEPT !.omit = NoReasoning]>>,
                 !.want = [Wanted EXCEPT !.model = "m", !.omit = NoReasoning]],
   [Quiet EXCEPT !.items = {Output(1)}, !.calls = TRUE, !.max = 6,
                 !.omits = {[NoOmit EXCEPT !.images = [keep |-> 1, before |-> 0], !.items = {1}],
                            [NoOmit EXCEPT !.outputs = [text |-> "d", items |-> {2, 3}, groups |-> <<>>],
                                           !.images = [keep |-> 0, before |-> 3]]}]}
=============================================================================
