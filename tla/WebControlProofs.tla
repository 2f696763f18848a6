--------------------------- MODULE WebControlProofs ----------------------------
(* The properties of WebControl hold for any number of administrators, masks,   *)
(* lists, templates, options and codes.                                        *)
EXTENDS WebControl, TLAPS

-------------------------------------------------------------------------------
(* The inductive invariant                                                     *)

\* Ids stay in the range of the table.
IdsBounded == \A table \in Tables : next[table] \in 1..(LastId[table] + 1)

\* A template, and the template an option row belongs to, had its id given out.
TemplatesGiven ==
    /\ templates \subseteq Given("templates")
    /\ \A o \in Rows(options) : options[o].template \in Given("templates")

\* A deletion that got past its check has seen no user of what it deletes.
SeenUnused ==
    \A w \in Admins :
        req[w] # None /\ req[w].at = "delete" =>
            \A m \in Rows(req[w].seen) :
                req[w].id # IF req[w].of = "list" THEN req[w].seen[m].iplist
                                                  ELSE req[w].seen[m].options

WebInv == WebTypeOK /\ IdsBounded /\ TemplatesGiven

-------------------------------------------------------------------------------
(* Lemmas                                                                      *)

LEMMA GivenIds ==
    ASSUME WebInv, NEW table \in Tables
    PROVE  /\ Given(table) \subseteq Ids(table)
           /\ 0 \notin Given(table)
  BY LastIdAssumption DEF WebInv, IdsBounded, Given, Ids

\* The next id of a table is a new one, and is given out when a row takes it.
LEMMA TakesNext ==
    ASSUME WebInv, NEW table \in Tables, Takes(table)
    PROVE  /\ next[table] \in Ids(table) /\ next[table] \notin Given(table)
           /\ next' \in [Tables -> Nat \ {0}] /\ IdsBounded'
           /\ Given(table)' = Given(table) \cup {next[table]}
           /\ \A other \in Tables \ {table} : Given(other)' = Given(other)
<1>1. /\ next \in [Tables -> Nat \ {0}] /\ next[table] \in 1..LastId[table]
      /\ next' = [next EXCEPT ![table] = next[table] + 1]
      /\ \A t \in Tables : LastId[t] \in Nat
  BY LastIdAssumption DEF WebInv, WebTypeOK, Takes, Ids
<1>2. IdsBounded'
  BY <1>1 DEF WebInv, IdsBounded
<1>3. QED
  BY <1>1, <1>2 DEF Given, Ids

LEMMA NothingTaken ==
    ASSUME WebInv, UNCHANGED next
    PROVE  next' \in [Tables -> Nat \ {0}] /\ IdsBounded' /\ \A t \in Tables : Given(t)' = Given(t)
  BY DEF WebInv, WebTypeOK, IdsBounded, Given

LEMMA InitWeb == WebInit => WebInv /\ SeenUnused
  BY LastIdAssumption
     DEF WebInit, WebInv, WebTypeOK, IdsBounded, TemplatesGiven, SeenUnused,
         NoMasks, Masks, Rows, Given, Ids, Tables
-------------------------------------------------------------------------------
(* The steps                                                                   *)

\* A mask names a list and a template that were given out.
LEMMA MaskRowGiven ==
    ASSUME WebInv, NEW l \in {0} \cup Given("lists"), NEW t \in {0} \cup Given("templates"),
           Chosen(l), Chosen(t)
    PROVE  [iplist |-> l, options |-> t] \in MaskRow
<1>1. l \in Ids("lists") /\ t \in Ids("templates")
  BY GivenIds DEF Chosen, Tables
<1>2. QED
  BY <1>1 DEF MaskRow

LEMMA MaskSteps ==
    ASSUME WebInv,
           \/ \E l \in {0} \cup Given("lists"), t \in {0} \cup Given("templates") :
                AddMask(l, t) \/ \E m \in Rows(masks) : EditMask(m, l, t)
           \/ \E m \in Rows(masks) : DelMask(m)
    PROVE  WebInv'
<1>1. masks \in Masks
  BY DEF WebInv, WebTypeOK
<1>2. ASSUME NEW l \in {0} \cup Given("lists"), NEW t \in {0} \cup Given("templates"),
             AddMask(l, t)
      PROVE  WebInv'
  <2>1. [iplist |-> l, options |-> t] \in MaskRow
    BY <1>2, MaskRowGiven DEF AddMask
  <2>2. masks' \in Masks
    BY <1>1, <1>2, <2>1 DEF AddMask, Masks
  <2>3. next' \in [Tables -> Nat \ {0}] /\ IdsBounded' /\ Given("templates")' = Given("templates")
    BY <1>2, TakesNext DEF AddMask, Tables
  <2>4. UNCHANGED <<lists, templates, options, req>>
    BY <1>2 DEF AddMask
  <2>5. QED
    BY <2>2, <2>3, <2>4 DEF WebInv, WebTypeOK, TemplatesGiven, Rows
<1>3. ASSUME NEW l \in {0} \cup Given("lists"), NEW t \in {0} \cup Given("templates"),
             NEW m \in Rows(masks), EditMask(m, l, t)
      PROVE  WebInv'
  <2>1. [iplist |-> l, options |-> t] \in MaskRow
    BY <1>3, MaskRowGiven DEF EditMask
  <2>2. masks' \in Masks
    BY <1>1, <1>3, <2>1 DEF EditMask, Masks
  <2>3. UNCHANGED <<lists, templates, options, next, req>>
    BY <1>3 DEF EditMask
  <2>4. QED
    BY <2>2, <2>3, NothingTaken DEF WebInv, WebTypeOK, TemplatesGiven, Rows, Tables
<1>4. ASSUME NEW m \in Rows(masks), DelMask(m)
      PROVE  WebInv'
  <2>1. masks' \in Masks
    BY <1>1, <1>4 DEF DelMask, Masks
  <2>2. UNCHANGED <<lists, templates, options, next, req>>
    BY <1>4 DEF DelMask
  <2>3. QED
    BY <2>1, <2>2, NothingTaken DEF WebInv, WebTypeOK, TemplatesGiven, Rows, Tables
<1>5. QED
  BY <1>2, <1>3, <1>4

LEMMA AddListStep ==
    ASSUME WebInv, AddList
    PROVE  WebInv'
<1>1. /\ next["lists"] \in Ids("lists")
      /\ next' \in [Tables -> Nat \ {0}] /\ IdsBounded' /\ Given("templates")' = Given("templates")
  BY TakesNext DEF AddList, Tables
<1>2. lists' = lists \cup {next["lists"]} /\ UNCHANGED <<masks, templates, options, req>>
  BY DEF AddList
<1>3. QED
  BY <1>1, <1>2 DEF WebInv, WebTypeOK, TemplatesGiven, Rows

LEMMA AddTemplateStep ==
    ASSUME WebInv, AddTemplate
    PROVE  WebInv'
<1>1. /\ next["templates"] \in Ids("templates")
      /\ next' \in [Tables -> Nat \ {0}] /\ IdsBounded'
      /\ Given("templates")' = Given("templates") \cup {next["templates"]}
  BY TakesNext DEF AddTemplate, Tables
<1>2. /\ templates' = templates \cup {next["templates"]}
      /\ UNCHANGED <<masks, lists, options, req>>
  BY DEF AddTemplate
<1>3. QED
  BY <1>1, <1>2 DEF WebInv, WebTypeOK, TemplatesGiven, Rows

LEMMA DeletionSteps ==
    ASSUME WebInv, NEW w \in Admins,
           \/ \E id \in Given("lists") : Delete(w, "list", id)
           \/ \E id \in Given("templates") : Delete(w, "template", id)
           \/ CheckUnused(w) \/ DeleteList(w) \/ DeleteTemplate(w) \/ DeleteData(w)
    PROVE  WebInv'
<1>1. masks \in Masks /\ NoMasks \in Masks /\ req \in [Admins -> Deletion \cup {None}]
  BY DEF WebInv, WebTypeOK, Masks, NoMasks
<1>2. UNCHANGED <<masks, next>>
  BY DEF Delete, CheckUnused, DeleteList, DeleteTemplate, DeleteData
<1>3. req' \in [Admins -> Deletion \cup {None}]
  <2>1. ASSUME NEW of \in {"list", "template"}, NEW id \in Nat, Delete(w, of, id)
        PROVE  req' \in [Admins -> Deletion \cup {None}]
    BY <1>1, <2>1 DEF Delete, Deletion
  <2>2. Given("lists") \subseteq Nat /\ Given("templates") \subseteq Nat
    BY DEF Given
  <2>3. ASSUME NEW l \in {"check", "delete", "data"}, NEW rows \in Masks,
               req[w] # None, Goto(w, l, rows)
        PROVE  req' \in [Admins -> Deletion \cup {None}]
    <3>1. req[w] \in Deletion
      BY <1>1, <2>3
    <3>2. [req[w] EXCEPT !.at = l, !.seen = rows] \in Deletion
      BY <3>1 DEF Deletion
    <3>3. QED
      BY <1>1, <2>3, <3>2 DEF Goto
  <2>4. Done(w) => req' \in [Admins -> Deletion \cup {None}]
    BY <1>1 DEF Done
  <2>5. QED
    BY <1>1, <2>1, <2>2, <2>3, <2>4 DEF CheckUnused, DeleteList, DeleteTemplate, DeleteData
<1>4. /\ lists' \subseteq lists /\ templates' \subseteq templates
      /\ \A o \in Ids("options") : options'[o] \in {options[o], None}
      /\ options' \in [Ids("options") -> OptionRow \cup {None}]
  <2>1. CASE options' = options
    BY <2>1 DEF WebInv, WebTypeOK, Delete, CheckUnused, DeleteList, DeleteTemplate, DeleteData
  <2>2. CASE options' # options
    BY <2>2 DEF WebInv, WebTypeOK, Delete, CheckUnused, DeleteList, DeleteTemplate, DeleteData
  <2>3. QED
    BY <2>1, <2>2
<1>5. TemplatesGiven'
  BY <1>2, <1>4 DEF WebInv, WebTypeOK, TemplatesGiven, Rows, Given
<1>6. QED
  BY <1>2, <1>3, <1>4, <1>5, NothingTaken DEF WebInv, WebTypeOK

LEMMA OptionSteps ==
    ASSUME WebInv,
           \/ \E t \in Given("templates") :
                \/ \E c \in Codes : AddOption(t, c)
                \/ \E o \in Rows(options) : DelOption(o, t)
           \/ \E o \in Rows(options), c \in Codes : EditOption(o, c)
    PROVE  WebInv'
<1>1. options \in [Ids("options") -> OptionRow \cup {None}]
  BY DEF WebInv, WebTypeOK
<1>2. ASSUME NEW t \in Given("templates"), NEW c \in Codes, AddOption(t, c)
      PROVE  WebInv'
  <2>1. [template |-> t, code |-> c] \in OptionRow
    BY GivenIds DEF OptionRow, Tables
  <2>2. /\ next["options"] \in Ids("options")
        /\ next' \in [Tables -> Nat \ {0}] /\ IdsBounded' /\ Given("templates")' = Given("templates")
    BY <1>2, TakesNext DEF AddOption, Tables
  <2>3. /\ options' = [options EXCEPT ![next["options"]] = [template |-> t, code |-> c]]
        /\ UNCHANGED <<masks, lists, templates, req>>
    BY <1>2 DEF AddOption
  <2>4. options' \in [Ids("options") -> OptionRow \cup {None}]
    BY <1>1, <2>1, <2>3
  <2>5. \A o \in Ids("options") : o \in Rows(options)' =>
            (options'[o] = options[o] /\ o \in Rows(options)) \/ options'[o].template = t
    BY <1>1, <2>2, <2>3 DEF Rows
  <2>6. TemplatesGiven'
    BY <2>2, <2>3, <2>4, <2>5 DEF WebInv, TemplatesGiven, Rows
  <2>7. QED
    BY <2>2, <2>3, <2>4, <2>6 DEF WebInv, WebTypeOK
<1>3. ASSUME NEW t \in Given("templates"), NEW o \in Rows(options), DelOption(o, t)
      PROVE  WebInv'
  <2>1. /\ options' = [options EXCEPT ![o] = None]
        /\ UNCHANGED <<masks, lists, templates, next, req>>
    BY <1>3 DEF DelOption
  <2>2. TemplatesGiven'
    BY <1>1, <2>1 DEF WebInv, TemplatesGiven, Rows, Given
  <2>3. QED
    BY <1>1, <2>1, <2>2, NothingTaken DEF WebInv, WebTypeOK
<1>4. ASSUME NEW o \in Rows(options), NEW c \in Codes, EditOption(o, c)
      PROVE  WebInv'
  <2>1. /\ options' = [options EXCEPT ![o].code = c]
        /\ UNCHANGED <<masks, lists, templates, next, req>>
    BY <1>4 DEF EditOption
  <2>2. o \in Ids("options") /\ options[o] \in OptionRow
    BY <1>1 DEF Rows
  <2>3. /\ [options[o] EXCEPT !.code = c] \in OptionRow
        /\ [options[o] EXCEPT !.code = c].template = options[o].template
    BY <2>2 DEF OptionRow
  <2>4. /\ options' \in [Ids("options") -> OptionRow \cup {None}]
        /\ \A q \in Ids("options") : options'[q] =
                IF q = o THEN [options[o] EXCEPT !.code = c] ELSE options[q]
    BY <1>1, <2>1, <2>3
  <2>5. TemplatesGiven'
    BY <1>1, <2>1, <2>3, <2>4 DEF WebInv, TemplatesGiven, Rows, Given
  <2>6. QED
    BY <2>1, <2>4, <2>5, NothingTaken DEF WebInv, WebTypeOK
<1>5. QED
  BY <1>2, <1>3, <1>4

LEMMA WebStep == WebInv /\ [WebNext]_webVars => WebInv'
<1> SUFFICES ASSUME WebInv, [WebNext]_webVars
             PROVE  WebInv'
  OBVIOUS
<1>1. CASE WebNext
  BY <1>1, MaskSteps, AddListStep, AddTemplateStep, DeletionSteps, OptionSteps, Zenon
     DEF WebNext
<1>2. CASE UNCHANGED webVars
  BY <1>2 DEF webVars, WebInv, WebTypeOK, IdsBounded, TemplatesGiven, Rows, Given
<1>3. QED
  BY <1>1, <1>2

LEMMA WebInvariance == WebSpec => []WebInv
  BY InitWeb, WebStep, PTL DEF WebSpec

\* The tables keep their types; in particular no row gets an id out of its range
\* and no mask is stored without a list and a template.
THEOREM WebTypes == WebSpec => []WebTypeOK
<1>1. WebInv => WebTypeOK
  BY DEF WebInv
<1>2. QED
  BY <1>1, WebInvariance, PTL

-------------------------------------------------------------------------------
(* Deletions                                                                   *)

\* Only the check of a deletion brings it to the deletion itself.
LEMMA SeenStep ==
    ASSUME "check" \notin Faults, WebInv, SeenUnused, [WebNext]_webVars
    PROVE  SeenUnused'
<1> SUFFICES ASSUME NEW w \in Admins, req'[w] # None, req'[w].at = "delete",
                    NEW m \in Rows(req'[w].seen)
             PROVE  req'[w].id # IF req'[w].of = "list" THEN req'[w].seen[m].iplist
                                                        ELSE req'[w].seen[m].options
  BY DEF SeenUnused, Rows
<1>1. req \in [Admins -> Deletion \cup {None}]
  BY DEF WebInv, WebTypeOK
<1>2. CASE req'[w] = req[w]
  BY <1>2 DEF SeenUnused, Rows
<1>3. CASE req'[w] # req[w]
  <2>1. PICK v \in Admins :
          \/ \E of \in {"list", "template"}, id \in Nat : Delete(v, of, id)
          \/ CheckUnused(v) \/ DeleteList(v) \/ DeleteTemplate(v) \/ DeleteData(v)
    <3>1. Given("lists") \subseteq Nat /\ Given("templates") \subseteq Nat
      BY DEF Given
    <3>2. WebNext /\ req' # req
      BY <1>3 DEF webVars
    <3>3. QED
      BY <3>1, <3>2
         DEF WebNext, AddMask, EditMask, DelMask, AddList, AddTemplate,
             AddOption, DelOption, EditOption
  <2>2. v = w /\ CheckUnused(w) /\ ~Done(w)
    BY <1>1, <1>3, <2>1
       DEF Delete, CheckUnused, DeleteList, DeleteTemplate, DeleteData, Done, Goto, Deletion
  <2>3. Users(req[w].of, req[w].id) = {} /\ Goto(w, "delete", masks) /\ req[w] \in Deletion
    BY <1>1, <2>2 DEF CheckUnused
  <2>4. /\ req'[w].id = req[w].id /\ req'[w].of = req[w].of
        /\ req'[w].seen = masks
    BY <1>1, <2>3 DEF Goto, Deletion
  <2>5. QED
    BY <2>3, <2>4 DEF Users, Rows
<1>4. QED
  BY <1>2, <1>3

\* As long as the check of a deletion does not fail, a mask loses its list or its
\* template only by a race.
THEOREM OnlyRaces ==
    ASSUME "check" \notin Faults
    PROVE  WebSpec => OnlyRacesBreak
<1>1. WebSpec => []SeenUnused
  <2>1. WebInv /\ SeenUnused /\ [WebNext]_webVars => SeenUnused'
    BY SeenStep
  <2>2. WebInit => SeenUnused
    BY InitWeb
  <2>3. QED
    BY <2>1, <2>2, WebInvariance, PTL DEF WebSpec
<1>2. WebInv /\ SeenUnused /\ [WebNext]_webVars => Breaks
  <2> SUFFICES ASSUME WebInv, SeenUnused, [WebNext]_webVars,
                      NEW m \in Listed, m \in Rows(masks)', m \notin Listed',
                      masks'[m] = masks[m]
               PROVE  \E w \in Admins :
                        req[w] # None /\ req[w].at = "delete" /\ req[w].seen # masks
    BY DEF Breaks
  <2>1. masks[m].iplist \notin lists' \/ masks[m].options \notin templates'
    BY DEF Listed, Served
  <2>2. /\ m \in Rows(masks)
        /\ masks[m].iplist \in lists /\ masks[m].options \in templates
    BY DEF Listed, Served
  <2>3. ~(lists \subseteq lists' /\ templates \subseteq templates')
    BY <2>1, <2>2
  <2>4. PICK w \in Admins : DeleteList(w) \/ DeleteTemplate(w)
    <3>1. WebNext
      BY <2>3 DEF webVars
    <3>2. QED
      BY <2>3, <3>1
         DEF WebNext, AddMask, EditMask, DelMask, AddList, AddTemplate, AddOption,
             DelOption, EditOption, Delete, CheckUnused, DeleteData
  <2>5. req[w] # None /\ req[w].at = "delete"
    BY <2>4 DEF DeleteList, DeleteTemplate
  <2>6. ASSUME req[w].seen = masks
        PROVE  FALSE
    <3>1. req[w].id # IF req[w].of = "list" THEN masks[m].iplist ELSE masks[m].options
      BY <2>2, <2>5, <2>6 DEF SeenUnused
    <3>2. CASE DeleteList(w)
      BY <2>1, <2>2, <3>1, <3>2 DEF DeleteList
    <3>3. CASE DeleteTemplate(w)
      BY <2>1, <2>2, <3>1, <3>3 DEF DeleteTemplate
    <3>4. QED
      BY <2>4, <3>2, <3>3
  <2>7. QED
    BY <2>5, <2>6
<1>3. QED
  BY <1>1, <1>2, WebInvariance, PTL DEF WebSpec, OnlyRacesBreak

\* A template has no option when it is added, whatever deletions failed before.
THEOREM NewTemplatesAreEmpty == WebSpec => TemplatesStartEmpty
<1>1. WebInv /\ [WebNext]_webVars => StartsEmpty
  <2> SUFFICES ASSUME WebInv, [WebNext]_webVars,
                      NEW t \in templates' \ templates,
                      NEW o \in Rows(options)'
               PROVE  options'[o].template # t
    BY DEF StartsEmpty
  <2>1. AddTemplate
    <3>1. WebNext /\ ~(templates' \subseteq templates)
      BY DEF webVars
    <3>2. QED
      BY <3>1
         DEF WebNext, AddMask, EditMask, DelMask, AddList, AddOption, DelOption, EditOption,
             Delete, CheckUnused, DeleteList, DeleteTemplate, DeleteData
  <2>2. t = next["templates"] /\ options' = options
    BY <2>1 DEF AddTemplate
  <2>3. options[o].template \in Given("templates")
    BY <2>2 DEF WebInv, TemplatesGiven, Rows
  <2>4. next["templates"] \notin Given("templates")
    BY <2>1, TakesNext DEF AddTemplate, Tables
  <2>5. QED
    BY <2>2, <2>3, <2>4
<1>2. QED
  BY <1>1, WebInvariance, PTL DEF WebSpec, TemplatesStartEmpty
===============================================================================
