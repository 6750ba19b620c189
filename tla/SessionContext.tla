--------------------------- MODULE SessionContext ---------------------------
(***************************************************************************)
(* The settings and the request a path stands for.  A config entry is a    *)
(* delta; the settings in force are the deltas replayed over the path, or  *)
(* over a compaction's checkpoint.  A writer computes each delta from the  *)
(* settings in force and what it wants in force next, so both directions   *)
(* are here: the delta (InstructionsDelta, OmittedDelta, OmitDelta) and    *)
(* its replay (Apply), and the context built from the result.              *)
(*                                                                         *)
(* A path is a sequence of entries, an entry's id its position.  A text    *)
(* stands for its own hash.  Parts of the instructions are records of an   *)
(* id, a text and a source (the part's trust goes with the source);        *)
(* elements of a delta carry a form: "text", "hash" or "keep".             *)
(***************************************************************************)
EXTENDS Integers, Sequences, FiniteSets

CONSTANT
  None   \* what is absent: no value a setting, a delta or a text can have

Missing == "missing"   \* the text of a part the path could not rebuild
InForce == 0           \* the list a keep with no "of" counts over

Least(a, b) == IF a <= b THEN a ELSE b

Place(list, id) ==
  LET at == {i \in DOMAIN list : list[i].id = id}
  IN  IF at = {} THEN 0 ELSE CHOOSE i \in at : \A j \in at : i <= j

Unresolved(p) == p.id = Missing \/ p.text = Missing

(***************************************************************************)
(* The parts that left force: newest first, a set for each entry that      *)
(* moved any.                                                              *)
(***************************************************************************)
Leave(left, prev, now) ==
  LET gone == {prev[i] : i \in {j \in DOMAIN prev :
                 ~Unresolved(prev[j]) /\ ~\E k \in DOMAIN now : now[k] = prev[j]}}
  IN  IF gone = {} THEN left ELSE <<gone>> \o left

\* The part that left force most recently under id with the text: at most one.
Find(left, id, text) ==
  LET has == {n \in DOMAIN left : \E p \in left[n] : p.id = id /\ p.text = text}
  IN  IF has = {} THEN {}
      ELSE {p \in left[CHOOSE n \in has : \A m \in has : n <= m] : p.id = id /\ p.text = text}

Has(left, p) == p \in Find(left, p.id, p.text)

(***************************************************************************)
(* Replaying a delta's list over the list in force.                        *)
(***************************************************************************)
NamedBy(delta) == {delta[k].id : k \in {j \in DOMAIN delta : delta[j].form /= "keep"}}

\* The n elements of list from the cursor, and whether a keep may take them.
RunAt(list, cursor, n) ==
  SubSeq(list, Least(cursor, Len(list)) + 1, Least(cursor + n, Len(list)))

Takes(run, n, delta) == Len(run) = n /\ \A i \in DOMAIN run : run[i].id \notin NamedBy(delta)

\* A part named by its hash: the text in force when it is that text, else
\* the one that left force with it.
Resolve(p, prev, left) ==
  LET i == Place(prev, p.id)
      other == i = 0 \/ (~Unresolved(prev[i]) /\ prev[i].text /= p.text)
      old == IF other THEN Find(left, p.id, p.text) ELSE {q \in {prev[i]} : ~Unresolved(q)}
  IN  CASE p.form = "text" -> [id |-> p.id, text |-> p.text, src |-> p.src]
        [] old /= {}       -> CHOOSE q \in old : TRUE
        [] OTHER           -> [id |-> p.id, text |-> Missing, src |-> None]

ApplyInstructionParts(prev, delta, left) ==
  LET step[k \in 0..Len(delta)] ==
        IF k = 0 THEN [out |-> <<>>, cursor |-> 0]
        ELSE LET r == step[k-1]
                 p == delta[k]
                 run == RunAt(prev, r.cursor, p.n)
             IN  IF p.form = "keep"
                 THEN [out |-> r.out \o (IF Takes(run, p.n, delta) THEN run
                                         ELSE <<[id |-> Missing, text |-> Missing, src |-> None]>>),
                       cursor |-> r.cursor + p.n]
                 ELSE [out |-> Append(r.out, Resolve(p, prev, left)),
                       cursor |-> IF Place(prev, p.id) = 0 THEN r.cursor ELSE Place(prev, p.id)]
  IN  step[Len(delta)].out

\* A keep counts over the list in force or over one an earlier entry put in
\* force; every list has a cursor of its own.
ResolveOmitted(prev, delta, lists) ==
  LET ofs == {delta[k].of : k \in {j \in DOMAIN delta : delta[j].form = "keep"}}
      held == {lists[n].entry : n \in DOMAIN lists}
      listOf(of) == IF of = InForce THEN prev
                    ELSE lists[CHOOSE n \in DOMAIN lists :
                                 lists[n].entry = of /\ \A m \in 1..n-1 : lists[m].entry /= of].list
      counted == (ofs \cap held) \cup {InForce}
      step[k \in 0..Len(delta)] ==
        IF k = 0 THEN [out |-> <<>>, cursor |-> [c \in counted |-> 0]]
        ELSE LET r == step[k-1]
                 p == delta[k]
             IN  CASE p.form = "keep" /\ p.of \notin counted ->
                        [r EXCEPT !.out = Append(@, [id |-> Missing, text |-> Missing])]
                   [] p.form = "keep" ->
                        LET run == RunAt(listOf(p.of), r.cursor[p.of], p.n)
                        IN  [out |-> r.out \o (IF Takes(run, p.n, delta) THEN run
                                               ELSE <<[id |-> Missing, text |-> Missing]>>),
                             cursor |-> [r.cursor EXCEPT ![p.of] = @ + p.n]]
                   [] OTHER ->
                        [out |-> Append(r.out, [id |-> p.id, text |-> p.text]),
                         cursor |-> [c \in counted |-> LET i == Place(listOf(c), p.id)
                                                       IN  IF i = 0 THEN r.cursor[c] ELSE i]]
  IN  step[Len(delta)].out

(***************************************************************************)
(* What a request leaves out or sends placeholders for.  outputs is None   *)
(* or a default text (None: no default group), the entries under it, and   *)
(* a set of entries for each named group's text; images is None, the       *)
(* number of image parts kept, or the entry before which they are replaced.*)
(***************************************************************************)
NoOmit == [reasoning |-> FALSE, items |-> {}, outputs |-> None, images |-> None]

NoOutputs == [text |-> None, items |-> {}, groups |-> <<>>]

HasDefault(o) == o.text /= None \/ o.items /= {} \/ DOMAIN o.groups = {}

DefaultItems(o) == IF HasDefault(o) THEN o.items ELSE {}

GroupOf(o, text) == IF text \in DOMAIN o.groups THEN o.groups[text] ELSE {}

\* Some entry would be in two groups.
OutputsOverlap(held, d) ==
  \E e \in DefaultItems(d) \cup UNION {d.groups[t] : t \in DOMAIN d.groups} :
    \/ e \in DefaultItems(d) /\ \E t \in DOMAIN d.groups \cup DOMAIN held.groups :
         e \in GroupOf(d, t) \cup GroupOf(held, t)
    \/ \E t \in DOMAIN d.groups : e \in d.groups[t] /\
         (e \in DefaultItems(held) \/ \E u \in DOMAIN held.groups \cup DOMAIN d.groups :
                                        u /= t /\ e \in GroupOf(held, u) \cup GroupOf(d, u))

MergedOutputs(held, d) ==
  [text   |-> IF HasDefault(d) THEN d.text ELSE held.text,
   items  |-> held.items \cup DefaultItems(d),
   groups |-> [t \in DOMAIN held.groups \cup DOMAIN d.groups |-> GroupOf(held, t) \cup GroupOf(d, t)]]

OutputsOf(omit) == IF omit.outputs = None THEN NoOutputs ELSE omit.outputs

Merged(o, d) ==
  IF d = NoOmit THEN NoOmit
  ELSE [reasoning |-> o.reasoning \/ d.reasoning,
        items     |-> o.items \cup d.items,
        outputs   |-> IF d.outputs = None \/ OutputsOverlap(OutputsOf(o), d.outputs) THEN o.outputs
                      ELSE MergedOutputs(OutputsOf(o), d.outputs),
        images    |-> IF d.images = None THEN o.images ELSE d.images]

\* The text an output is sent with in its place, None for as it is.
TextFor(omit, id) ==
  LET o == OutputsOf(omit)
      of == {t \in DOMAIN o.groups : id \in o.groups[t]}
  IN  CASE of /= {}               -> CHOOSE t \in of : TRUE
        [] id \in DefaultItems(o) -> o.text
        [] OTHER                  -> None

(***************************************************************************)
(* Settings.                                                               *)
(***************************************************************************)
NoSettings == [model |-> None, parts |-> <<>>, plain |-> "", omitted |-> <<>>, omit |-> NoOmit,
               left |-> <<>>, lists |-> <<>>]

\* A config entry that sets nothing; a delta changes some of its members.
NoDelta == [type |-> "config", replace |-> FALSE, model |-> None, parts |-> None, plain |-> None,
            omitted |-> None, omit |-> None]

PartsAfter(s, c) ==
  IF c.parts /= None THEN ApplyInstructionParts(s.parts, c.parts, s.left)
  ELSE IF c.plain /= None THEN <<>> ELSE s.parts

OmittedAfter(s, c) ==
  IF c.omitted = None THEN s.omitted ELSE ResolveOmitted(s.omitted, c.omitted, s.lists)

\* The settings after the delta c over s, whose lists come to these.
Applied(s, c, id, parts, omitted) ==
  [model   |-> IF c.model = None THEN s.model ELSE c.model,
   parts   |-> parts,
   plain   |-> IF c.parts /= None THEN "" ELSE IF c.plain /= None THEN c.plain ELSE s.plain,
   omitted |-> omitted,
   omit    |-> IF c.omit = None THEN s.omit ELSE Merged(s.omit, c.omit),
   left    |-> IF c.parts = None /\ c.plain = None THEN s.left ELSE Leave(s.left, s.parts, parts),
   lists   |-> IF c.omitted = None THEN s.lists ELSE <<[entry |-> id, list |-> omitted]>> \o s.lists]

\* The settings after the delta c, entry id of the path.
Apply(s, c, id) ==
  LET base == IF c.replace THEN NoSettings ELSE s
  IN  Applied(base, c, id, PartsAfter(base, c), OmittedAfter(base, c))

\* A compaction writes the settings in force whole, and nothing older can be
\* named after it; parts that could not be rebuilt leave their joined text.
Checkpoint(s) ==
  LET lost == \E i \in DOMAIN s.parts : Unresolved(s.parts[i])
  IN  [s EXCEPT !.left = <<>>, !.lists = <<>>,
                !.parts = IF lost THEN <<>> ELSE @, !.plain = IF lost THEN Missing ELSE @]

LastCompaction(path) ==
  LET cs == {i \in DOMAIN path : path[i].type = "compaction"}
  IN  IF cs = {} THEN 0 ELSE CHOOSE i \in cs : \A j \in cs : j <= i

SettingsAt(path) ==
  LET from == LastCompaction(path)
      at[i \in from..Len(path)] ==
        IF i = from THEN IF from = 0 THEN NoSettings ELSE path[from].config
        ELSE IF path[i].type = "config" THEN Apply(at[i-1], path[i], i) ELSE at[i-1]
  IN  at[Len(path)]

(***************************************************************************)
(* The deltas a writer computes.                                           *)
(***************************************************************************)
TextForm(p) == [form |-> "text", id |-> p.id, text |-> p.text, src |-> p.src]

HashForm(p) == [form |-> "hash", id |-> p.id, text |-> p.text]

KeepForm(n, of) == [form |-> "keep", n |-> n, of |-> of]

KeepRun(run, of) == IF run > 0 THEN <<KeepForm(run, of)>> ELSE <<>>

\* Mutant: a text that left force is named by its hash whatever the part in force holds.
WrittenStale(s, p) == IF Has(s.left, p) THEN HashForm(p) ELSE TextForm(p)

\* A part that is new or changed: by its hash when its text left force and
\* no part in force stands before it, in full otherwise.
Written(s, p) ==
  LET j == Place(s.parts, p.id)
  IN  IF (j = 0 \/ (~Unresolved(s.parts[j]) /\ s.parts[j].text /= p.text)) /\ Has(s.left, p)
      THEN HashForm(p) ELSE TextForm(p)

\* None when parts are the ones in force.
InstructionsDelta(s, parts) ==
  LET step[k \in 0..Len(parts)] ==
        IF k = 0 THEN [out |-> <<>>, cursor |-> 0, run |-> 0]
        ELSE LET r == step[k-1]
                 p == parts[k]
                 j == Place(s.parts, p.id)
             IN  CASE j = 0 \/ s.parts[j] /= p ->
                        [out |-> r.out \o KeepRun(r.run, InForce) \o <<Written(s, p)>>, run |-> 0,
                         cursor |-> IF j = 0 THEN r.cursor + r.run ELSE j]
                   [] j = r.cursor + r.run + 1 -> [r EXCEPT !.run = @ + 1]
                   [] OTHER ->
                        [out |-> r.out \o KeepRun(r.run, InForce) \o <<HashForm(p)>>, run |-> 0,
                         cursor |-> j]
      end == step[Len(parts)]
  IN  CASE parts = <<>> /\ s.parts = <<>> /\ s.plain = "" -> None
        [] parts = <<>>    -> [NoDelta EXCEPT !.plain = ""]
        [] parts = s.parts -> None
        [] OTHER           -> [NoDelta EXCEPT !.parts = end.out \o KeepRun(end.run, InForce)]

\* omitted with its runs of unchanged elements of list named by keeps.
OmittedRuns(list, of, omitted) ==
  LET step[k \in 0..Len(omitted)] ==
        IF k = 0 THEN [out |-> <<>>, cursor |-> 0, run |-> 0]
        ELSE LET r == step[k-1]
                 p == omitted[k]
                 j == Place(list, p.id)
             IN  IF j /= 0 /\ list[j] = p /\ j = r.cursor + r.run + 1
                 THEN [r EXCEPT !.run = @ + 1]
                 ELSE [out |-> r.out \o KeepRun(r.run, of) \o
                               <<[form |-> "text", id |-> p.id, text |-> p.text]>>,
                       run |-> 0, cursor |-> IF j = 0 THEN r.cursor + r.run ELSE j]
      end == step[Len(omitted)]
  IN  end.out \o KeepRun(end.run, of)

CountsOver(list) == list /= <<>> /\ \A i \in DOMAIN list : list[i].id /= Missing

\* The members that may be the shortest way to omitted; None when it is in force.
OmittedDeltas(s, omitted) ==
  LET whole == [i \in DOMAIN omitted |-> [form |-> "text", id |-> omitted[i].id, text |-> omitted[i].text]]
      over  == {OmittedRuns(s.omitted, InForce, omitted) : x \in {y \in {0} : CountsOver(s.omitted)}}
      older == {OmittedRuns(s.lists[n].list, s.lists[n].entry, omitted) :
                  n \in {m \in DOMAIN s.lists : CountsOver(s.lists[m].list)
                                                 /\ ~(m = 1 /\ s.lists[m].list = s.omitted)}}
  IN  IF omitted = s.omitted THEN {None} ELSE IF omitted = <<>> THEN {<<>>} ELSE {whole} \cup over \cup older

SameOutputs(a, b) ==
  (a = None /\ b = None) \/
  (a /= None /\ b /= None /\ HasDefault(a) = HasDefault(b) /\ a.groups = b.groups
   /\ (HasDefault(a) => a.text = b.text /\ a.items = b.items))

\* The outputs a delta over have writes to put want in force; {} when none can.
OutputsDelta(have, want) ==
  LET h == IF have = None THEN NoOutputs ELSE have
      added == want.items \ DefaultItems(h)
      defaults == have = None \/ ~HasDefault(h) \/ h.text /= want.text \/ added /= {}
      d == [text   |-> IF HasDefault(want) /\ defaults THEN want.text ELSE None,
            items  |-> IF HasDefault(want) THEN added ELSE {},
            groups |-> [t \in {u \in DOMAIN want.groups : u \notin DOMAIN h.groups
                                                          \/ want.groups[u] \ h.groups[u] /= {}}
                          |-> want.groups[t] \ GroupOf(h, t)]]
  IN  IF /\ IF have = None THEN TRUE
            ELSE DefaultItems(h) \subseteq (IF HasDefault(want) THEN want.items ELSE {})
         /\ \A t \in DOMAIN h.groups : t \in DOMAIN want.groups /\ h.groups[t] \subseteq want.groups[t]
         /\ ~OutputsOverlap(h, d)
      THEN {d} ELSE {}

\* The members that take the omit in force to want, one config entry each:
\* nothing, one delta, or a clear and then want where no delta can.
OmitDeltas(s, want) ==
  LET have == s.omit
      same == SameOutputs(have.outputs, want.outputs)
      outputs == IF want.outputs = None THEN IF have.outputs = None THEN {None} ELSE {}
                 ELSE OutputsDelta(have.outputs, want.outputs)
  IN  CASE have.reasoning = want.reasoning /\ have.items = want.items /\ same
           /\ have.images = want.images -> <<>>
        [] want = NoOmit -> <<NoOmit>>
        [] \/ have.reasoning /\ ~want.reasoning
           \/ ~(have.items \subseteq want.items)
           \/ outputs = {}
           \/ have.images /= None /\ want.images = None -> <<NoOmit, want>>
        [] OTHER -> <<[reasoning |-> want.reasoning /\ ~have.reasoning,
                       items     |-> want.items \ have.items,
                       outputs   |-> IF same THEN None ELSE CHOOSE o \in outputs : TRUE,
                       images    |-> IF have.images = want.images THEN None ELSE want.images]>>

(***************************************************************************)
(* The context.  An item of it is the entry it comes from and what is sent *)
(* for it: a text in place of an output, and how many image parts are      *)
(* replaced.                                                               *)
(***************************************************************************)
Contributes(e) == e.type \in {"item", "summary"}

\* The model in force when a reasoning item of a response was written.
ModelOfOutput(path, i) == SettingsAt(SubSeq(path, 1, i)).model

OtherModel(of, now) == of /= None /\ now /= None /\ of /= now

LeftOut(path, s, i) ==
  /\ path[i].type = "item"
  /\ \/ i \in s.omit.items
     \/ /\ s.omit.reasoning /\ path[i].kind = "reasoning" /\ path[i].rid /= 0
        /\ OtherModel(ModelOfOutput(path, i), s.model)

\* The entries that contribute an item, in the order of the request.
ItemEntries(path, s, omit) ==
  LET comp == LastCompaction(path)
      from == IF comp = 0 THEN 1 ELSE path[comp].kept
      shown(i) == Contributes(path[i]) /\ ~(omit /\ LeftOut(path, s, i))
      tail == SelectSeq([k \in 1..Len(path) - from + 1 |-> from + k - 1], shown)
  IN  (IF comp = 0 THEN <<>> ELSE <<comp>>) \o tail

\* Image parts of an entry left to send once its output's text stands in.
ImageParts(path, s, i, omit) ==
  IF path[i].type /= "item" THEN 0
  ELSE IF omit /\ path[i].kind = "output" /\ TextFor(s.omit, i) /= None THEN 0 ELSE path[i].images

\* How many image parts of the k-th item of entries are replaced.
Replaced(path, s, entries, k) ==
  LET parts(j) == ImageParts(path, s, entries[j], TRUE)
      sum[j \in 0..Len(entries)] == IF j = 0 THEN 0 ELSE sum[j-1] + parts(j)
      reach == sum[Len(entries)] - s.omit.images.keep   \* the first parts, up to here
  IN  CASE s.omit.images = None -> 0
        [] s.omit.images.before /= 0 ->
             IF s.omit.images.before \in DOMAIN path /\ entries[k] < s.omit.images.before
             THEN parts(k) ELSE 0
        [] OTHER -> IF reach <= sum[k-1] THEN 0 ELSE Least(parts(k), reach - sum[k-1])

\* What is sent for each of the entries.
SentItems(path, s, entries, omit) ==
  [k \in DOMAIN entries |->
     [of   |-> entries[k],
      text |-> IF omit /\ path[entries[k]].type = "item" /\ path[entries[k]].kind = "output"
               THEN TextFor(s.omit, entries[k]) ELSE None,
      gone |-> IF omit THEN Replaced(path, s, entries, k) ELSE 0]]

ContextUnder(path, s, omit) ==
  [settings |-> s, items |-> SentItems(path, s, ItemEntries(path, s, omit), omit)]

BuildContext(path, omit) == ContextUnder(path, SettingsAt(path), omit)

\* What a request holds: the history of the settings is not part of it.
RequestOf(ctx) ==
  [model |-> ctx.settings.model, parts |-> ctx.settings.parts, plain |-> ctx.settings.plain,
   items |-> ctx.items]

\* Mutant: the walk back goes on over items another response left.
OutputEntriesAny(path, rid) ==
  {i \in DOMAIN path :
     /\ path[i].type = "item"
     /\ \A j \in i..Len(path) : path[j].type = "item" => path[j].rid /= 0}

\* A response's own output: walking back over the items of the path, those
\* that name it, up to the first that does not.
OutputEntries(path, rid) ==
  {i \in DOMAIN path :
     /\ path[i].type = "item"
     /\ \A j \in i..Len(path) : path[j].type = "item" => path[j].rid = rid /\ rid /= 0}

\* The request that produced a response appended after path.
RequestContextAt(path, rid) ==
  LET out == OutputEntries(path, rid)
      gone(i) == IF i \in out THEN [type |-> "gone"] ELSE path[i]
  IN  BuildContext([i \in DOMAIN path |-> gone(i)], TRUE)
=============================================================================
