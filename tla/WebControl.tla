------------------------------ MODULE WebControl -------------------------------
(* The web interface: the tables interfaces, iplists, options_template and      *)
(* options_template_data, and the requests of the pages intmask, iplist and     *)
(* opts.  One action is one SQL statement; a request of several statements can  *)
(* be overtaken by those of other administrators between any two.               *)
(*                                                                             *)
(* A form or a link may be as old as one likes (a second tab, a bookmark): a     *)
(* request names any id that was ever given out.  Names, ranges, priorities and  *)
(* values are left out, and with them the two updates that change nothing else   *)
(* (edit of iplist.php and of opts.php).  A statement that a unique name refuses *)
(* or that fails alone changes nothing and is no step.                          *)
EXTENDS Naturals, FiniteSets

CONSTANTS
    Admins,   \* administrators
    Codes,    \* codes of options
    LastId,   \* per table, bound on its ids
    None,     \* "no such row", "no request"
    Faults    \* the statements of a deletion that may fail: "check", "data"

VARIABLES
    masks,       \* interfaces, by id
    lists,       \* the ids in iplists
    templates,   \* the ids in options_template
    options,     \* options_template_data, by id
    next,        \* per table, its AUTO_INCREMENT
    req          \* per administrator, the deletion under way or None

webVars == <<masks, lists, templates, options, next, req>>

Tables == {"masks", "lists", "templates", "options"}

ASSUME LastIdAssumption == LastId \in [Tables -> Nat]

Ids(table) == 1..LastId[table]

MaskRow == [iplist: Ids("lists"), options: Ids("templates")]
OptionRow == [template: Ids("templates"), code: Codes]

Masks == [Ids("masks") -> MaskRow \cup {None}]
NoMasks == [m \in Ids("masks") |-> None]

\* A deletion: of what, at which statement; between its check and the deletion,
\* seen is the table interfaces as it was at the check.
Deletion == [of: {"list", "template"}, id: Nat, at: {"check", "delete", "data"},
             seen: Masks]

ASSUME NoneAssumption == None \notin MaskRow \cup OptionRow \cup Deletion

WebTypeOK ==
    /\ masks \in Masks
    /\ lists \subseteq Ids("lists") /\ templates \subseteq Ids("templates")
    /\ options \in [Ids("options") -> OptionRow \cup {None}]
    /\ next \in [Tables -> Nat \ {0}]
    /\ req \in [Admins -> Deletion \cup {None}]

Rows(table) == {id \in DOMAIN table : table[id] # None}

\* An id a form or a link may name; 0 is what an empty selection sends.
Given(table) == 1..(next[table] - 1)

\* A row takes the next id of its table.
Takes(table) ==
    /\ next[table] \in Ids(table)
    /\ next' = [next EXCEPT ![table] = @ + 1]

-------------------------------------------------------------------------------
(* intmask.php                                                                 *)

MutantChosen(id) == TRUE

\* check_input, check_data: something is selected.
Chosen(id) == id # 0

AddMask(l, t) ==
    /\ Chosen(l) /\ Chosen(t)
    /\ Takes("masks")
    /\ masks' = [masks EXCEPT ![next["masks"]] = [iplist |-> l, options |-> t]]
    /\ UNCHANGED <<lists, templates, options, req>>

\* An update of a row that is gone changes nothing.
EditMask(m, l, t) ==
    /\ Chosen(l) /\ Chosen(t)
    /\ masks' = [masks EXCEPT ![m] = [iplist |-> l, options |-> t]]
    /\ UNCHANGED <<lists, templates, options, next, req>>

DelMask(m) ==
    /\ masks' = [masks EXCEPT ![m] = None]
    /\ UNCHANGED <<lists, templates, options, next, req>>

-------------------------------------------------------------------------------
(* iplist.php and opts.php: lists and templates                                *)

AddList ==
    /\ Takes("lists")
    /\ lists' = lists \cup {next["lists"]}
    /\ UNCHANGED <<masks, templates, options, req>>

\* A template with an id of its own making, not of the table's.
MutantAddTemplate ==
    LET id == CHOOSE i \in 1..next["templates"] :
                i \notin templates /\ \A j \in 1..next["templates"] : j \notin templates => i <= j IN
    /\ id \in Ids("templates")
    /\ next' = [next EXCEPT !["templates"] = IF id = @ THEN @ + 1 ELSE @]
    /\ templates' = templates \cup {id}
    /\ UNCHANGED <<masks, lists, options, req>>

AddTemplate ==
    /\ Takes("templates")
    /\ templates' = templates \cup {next["templates"]}
    /\ UNCHANGED <<masks, lists, options, req>>

\* The deletion of w goes on to statement l.
Goto(w, l, rows) == req' = [req EXCEPT ![w].at = l, ![w].seen = rows]
Done(w) == req' = [req EXCEPT ![w] = None]

Delete(w, of, id) ==
    /\ req[w] = None
    /\ req' = [req EXCEPT ![w] = [of |-> of, id |-> id, at |-> "check",
                                  seen |-> NoMasks]]
    /\ UNCHANGED <<masks, lists, templates, options, next>>

MutantUsers(of, id) == {m \in Rows(masks) : masks[m].iplist = id}

\* select int_mask from interfaces where iplist=id (options=id)
Users(of, id) ==
    {m \in Rows(masks) :
        id = IF of = "list" THEN masks[m].iplist ELSE masks[m].options}

\* The check that nothing uses the list or the template.  A query that fails has
\* no rows to fetch either.
CheckUnused(w) ==
    /\ req[w] # None /\ req[w].at = "check"
    /\ \/ Users(req[w].of, req[w].id) # {} /\ Done(w)
       \/ /\ Users(req[w].of, req[w].id) = {} \/ "check" \in Faults
          /\ Goto(w, "delete", masks)
    /\ UNCHANGED <<masks, lists, templates, options, next>>

DeleteList(w) ==
    /\ req[w] # None /\ req[w].at = "delete" /\ req[w].of = "list"
    /\ lists' = lists \ {req[w].id}
    /\ Done(w)
    /\ UNCHANGED <<masks, templates, options, next>>

DeleteTemplate(w) ==
    /\ req[w] # None /\ req[w].at = "delete" /\ req[w].of = "template"
    /\ templates' = templates \ {req[w].id}
    /\ Goto(w, "data", NoMasks)
    /\ UNCHANGED <<masks, lists, options, next>>

\* Its options follow; when this statement fails they stay.
DeleteData(w) ==
    LET mine == {o \in Rows(options) : options[o].template = req[w].id} IN
    /\ req[w] # None /\ req[w].at = "data"
    /\ \/ options' = [o \in DOMAIN options |-> IF o \in mine THEN None ELSE options[o]]
       \/ "data" \in Faults /\ UNCHANGED options
    /\ Done(w)
    /\ UNCHANGED <<masks, lists, templates, next>>

-------------------------------------------------------------------------------
(* opts.php: options                                                           *)

\* UNIQUE KEY tc
HasCode(t, c) == \E o \in Rows(options) : options[o] = [template |-> t, code |-> c]

AddOption(t, c) ==
    /\ ~HasCode(t, c)
    /\ Takes("options")
    /\ options' = [options EXCEPT ![next["options"]] = [template |-> t, code |-> c]]
    /\ UNCHANGED <<masks, lists, templates, req>>

EditOption(o, c) ==
    /\ ~HasCode(options[o].template, c)
    /\ options' = [options EXCEPT ![o].code = c]
    /\ UNCHANGED <<masks, lists, templates, next, req>>

\* delete from options_template_data where id=o and template=t
DelOption(o, t) ==
    /\ options[o].template = t
    /\ options' = [options EXCEPT ![o] = None]
    /\ UNCHANGED <<masks, lists, templates, next, req>>

-------------------------------------------------------------------------------

WebInit ==
    /\ masks = NoMasks
    /\ lists = {} /\ templates = {}
    /\ options = [o \in Ids("options") |-> None]
    /\ next = [table \in Tables |-> 1]
    /\ req = [w \in Admins |-> None]

WebNext ==
    \/ \E l \in {0} \cup Given("lists"), t \in {0} \cup Given("templates") :
        AddMask(l, t) \/ \E m \in Rows(masks) : EditMask(m, l, t)
    \/ \E m \in Rows(masks) : DelMask(m)
    \/ AddList \/ AddTemplate
    \/ \E w \in Admins :
        \/ \E id \in Given("lists") : Delete(w, "list", id)
        \/ \E id \in Given("templates") : Delete(w, "template", id)
        \/ CheckUnused(w) \/ DeleteList(w) \/ DeleteTemplate(w) \/ DeleteData(w)
    \/ \E t \in Given("templates") :
        \/ \E c \in Codes : AddOption(t, c)
        \/ \E o \in Rows(options) : DelOption(o, t)
    \/ \E o \in Rows(options), c \in Codes : EditOption(o, c)

WebSpec == WebInit /\ [][WebNext]_webVars

-------------------------------------------------------------------------------
(* Properties                                                                  *)

\* The daemon finds a mask through its list (dhcp_db.c:205), the page that shows
\* masks through its list and its template (intmask.php:133).
Served == {m \in Rows(masks) : masks[m].iplist \in lists}
Listed == {m \in Served : masks[m].options \in templates}

Breaks ==
    \A m \in Listed :
        m \in Rows(masks)' /\ m \notin Listed' =>
            \/ masks'[m] # masks[m]
            \/ \E w \in Admins : req[w] # None /\ req[w].at = "delete" /\ req[w].seen # masks

\* A mask loses its list or its template, and with it its line on the page where
\* it could be edited or deleted, only by a race: a form that is older than a
\* deletion is submitted, or the table interfaces changes between the check of a
\* deletion and the deletion itself.
OnlyRacesBreak == [][Breaks]_webVars

StartsEmpty ==
    \A t \in templates' \ templates : \A o \in Rows(options)' : options'[o].template # t

\* A template is new when it is added: no option left behind by a deletion that
\* failed half way, or added from a page older than the deletion, turns up in it.
TemplatesStartEmpty == [][StartsEmpty]_webVars
===============================================================================
