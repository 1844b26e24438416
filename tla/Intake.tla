------------------------------- MODULE Intake -------------------------------
(***************************************************************************)
(* Requirements that arrive as a workbook or as free text (intake/,        *)
(* services/extraction_service.py, api/routers/intake.py).  A workbook is  *)
(* read as the platform's own template; when that yields no section, the   *)
(* language model is asked for the fields, and its answer goes through the *)
(* same rules.  What was read may be estimated in the same request.        *)
(*                                                                         *)
(* A cell is what it reads as: [kind, value], a blank, an empty text, a    *)
(* number (its whole part in an integer field), one too large to have a    *)
(* whole part, a flag, a name, or something else.  Fields have the names   *)
(* and the units of the estimate's modules.  Free text is the set of       *)
(* signals that its patterns find.                                         *)
(***************************************************************************)
EXTENDS EstimatePipeline

CONSTANTS
  Uploads,       \* [readable, cells, auto, force, term]: cells is section -> field -> cell
  Answers,       \* what the model may extract: [cells, unmapped, listed]
  Texts,         \* [said, number, type, family, place, hint, auto, force, term]
  Configured     \* whether there is a model to ask

VARIABLE intake  \* the request: Nothing, or a record of what it holds and where it is

-----------------------------------------------------------------------------
(* The questionnaire *)

Whole == [type |-> "whole", choices |-> {}]
Decimal == [type |-> "decimal", choices |-> {}]
Flag == [type |-> "flag", choices |-> {}]
Text == [type |-> "text", choices |-> {}]
OneOf(options) == [type |-> "enum", choices |-> options]

\* FIELD_SCHEMA, without the labels nothing downstream reads.
FieldSchema ==
  [top |-> [name |-> Text, region |-> OneOf(DOMAIN RegionPercent),
            strategy |-> OneOf({"conservative", "balanced", "performance"})],
   compute |-> [family |-> OneOf(Families), machineType |-> Text, kind |-> OneOf({"predefined", "custom"}),
                vcpu |-> Whole, ram |-> Decimal, count |-> Whole,
                gpu |-> OneOf(DOMAIN GpuFamilies \cup {"none"}), gpuCount |-> Whole],
   storage |-> [type |-> OneOf(DOMAIN DiskMin), size |-> Whole, snapshots |-> Flag, retention |-> Whole],
   database |-> [required |-> Flag, engine |-> OneOf({"postgres", "mysql", "sqlserver"}), size |-> Whole,
                 vcpu |-> Whole, ram |-> Decimal, ha |-> Flag],
   network |-> [balancer |-> Flag, ips |-> Whole, egress |-> Decimal, cdn |-> Flag, vpn |-> Flag],
   kubernetes |-> [required |-> Flag, nodes |-> Whole, autopilot |-> Flag],
   availability |-> [ha |-> Flag, uptime |-> Decimal, backup |-> OneOf({"none", "daily", "weekly"}), dr |-> Flag],
   business |-> [users |-> Whole, peak |-> Whole]]

SectionKeys == DOMAIN FieldSchema \ {"top"}

\* The sections' defaults (domain/requirements.py).
Defaults ==
  [compute |-> DefaultCompute([family |-> "e2", vcpu |-> 0, count |-> 1]),
   storage |-> AsStorage(EmptyForm),
   database |-> [AsDatabase(EmptyForm) EXCEPT !.required = FALSE],
   network |-> DefaultNetwork,
   kubernetes |-> [AsKubernetes(EmptyForm) EXCEPT !.required = FALSE],
   availability |-> [ha |-> FALSE, uptime |-> 0, dr |-> FALSE, backup |-> "none"],
   business |-> [users |-> 0, peak |-> 0]]

\* coerce_value: a flag is also written as 1 or 0, and a boolean is no number.
Coercible(cell, field) ==
  CASE field.type = "text" -> TRUE
    [] field.type \in {"whole", "decimal"} -> cell.kind = "number"
    [] field.type = "flag" -> cell.kind = "flag" \/ (cell.kind = "number" /\ cell.value \in {0, 1})
    [] field.type = "enum" -> cell.kind = "name" /\ cell.value \in field.choices

Coerced(cell, field) ==
  IF field.type = "flag" /\ cell.kind = "number" THEN cell.value = 1 ELSE cell.value

\* What is passed over without a word: a sheet's cell that is blank, or holds blanks; a
\* null of the model's.
SheetBlanks == {"blank", "empty"}
AnswerBlanks == {"blank"}

\* A faulty variant: a zero or a "no" is taken for a blank.
EntriesNonZero(cells, blanks) ==
  {e \in UNION {{s} \X DOMAIN cells[s] : s \in DOMAIN cells} :
     /\ e[2] \in DOMAIN FieldSchema[e[1]] /\ cells[e[1]][e[2]].kind \notin blanks
     /\ cells[e[1]][e[2]] \notin {[kind |-> "number", value |-> 0], [kind |-> "flag", value |-> FALSE]}}

\* The entries that are read: those of a known label with something in them.
Entries(cells, blanks) ==
  {e \in UNION {{s} \X DOMAIN cells[s] : s \in DOMAIN cells} :
     e[2] \in DOMAIN FieldSchema[e[1]] /\ cells[e[1]][e[2]].kind \notin blanks}

\* int() of an infinite number raises OverflowError, which coerce_value's callers do
\* not catch.
Overflows(cells, blanks) ==
  \E e \in Entries(cells, blanks) :
    FieldSchema[e[1]][e[2]].type = "whole" /\ cells[e[1]][e[2]].kind = "infinite"

Issue(severity, section, field) == [severity |-> severity, section |-> section, field |-> field]

\* What is taken of each section, and a warning for each entry that is not.
Taking(cells, blanks) ==
  LET good == {e \in Entries(cells, blanks) : Coercible(cells[e[1]][e[2]], FieldSchema[e[1]][e[2]])}
  IN [sections |-> [s \in DOMAIN FieldSchema |->
                      [f \in {e[2] : e \in {d \in good : d[1] = s}} |-> Coerced(cells[s][f], FieldSchema[s][f])]],
      issues |-> {Issue("warning", e[1], e[2]) : e \in Entries(cells, blanks) \ good}]

-----------------------------------------------------------------------------
(* Building the requirement *)

\* The section's model takes the values: fields within their bounds, those it cannot
\* do without present.
Accepts(section, values) ==
  LET within(f, low, high) == f \in DOMAIN values => low <= values[f] /\ values[f] <= high
  IN CASE section = "compute" ->
            /\ within("vcpu", 1, 416) /\ within("ram", 1, Limit)
            /\ within("count", 1, Limit) /\ within("gpuCount", 0, Limit)
            /\ "machineType" \in DOMAIN values \/ {"vcpu", "ram"} \subseteq DOMAIN values
       [] section = "storage" -> /\ "size" \in DOMAIN values
                                 /\ within("size", 1, Limit) /\ within("retention", 0, Limit)
       [] section = "database" -> /\ within("size", 0, Limit)
                                  /\ within("vcpu", 1, Limit) /\ within("ram", 1, Limit)
       [] section = "network" -> within("ips", 0, Limit) /\ within("egress", 0, Limit)
       [] section = "kubernetes" -> within("nodes", 0, Limit)
       [] section = "availability" -> within("uptime", 0, 10000)
       [] section = "business" -> within("users", 0, Limit) /\ within("peak", 0, Limit)

\* The values that were given, over the defaults.
WithDefaults(values, defaults) ==
  [f \in DOMAIN defaults |-> IF f \in DOMAIN values THEN values[f] ELSE defaults[f]]

DefaultRegion == "asia-south1"

\* build_customer_requirement: a section without values is left out, one that its
\* model refuses is left out with a blocker, and the region has a default.
Build(sections) ==
  LET refused == {s \in SectionKeys : sections[s] # <<>> /\ ~Accepts(s, sections[s])}
      built(s) == IF sections[s] = <<>> \/ s \in refused THEN Nothing
                  ELSE WithDefaults(sections[s], Defaults[s])
      top == WithDefaults(sections.top, [region |-> DefaultRegion, strategy |-> "balanced"])
  IN [requirement |->
        [compute |-> built("compute"), storage |-> built("storage"), database |-> built("database"),
         network |-> built("network"), kubernetes |-> built("kubernetes"),
         availability |-> built("availability"), business |-> built("business"),
         region |-> top.region, strategy |-> top.strategy, force |-> FALSE, term |-> 0, selected |-> <<>>],
      issues |-> {Issue("blocker", s, "section") : s \in refused}
                 \cup (IF "name" \in DOMAIN sections.top THEN {} ELSE {Issue("warning", "top", "name")})]

Unmappable == Issue("blocker", "workbook", "workbook")

-----------------------------------------------------------------------------
(* Workbooks *)

Upload ==
  /\ intake = Nothing
  /\ \E u \in Uploads :
       intake' = [stage |-> "uploaded", of |-> u, read |-> u.cells, attempt |-> 0, requirement |-> Nothing,
                  issues |-> {}, source |-> "unrecognized", notes |-> {}]

\* The request has its answer, but for the estimate it may have asked for.
Extracted(requirement, issues, source) ==
  intake' = [intake EXCEPT !.requirement = requirement, !.issues = issues, !.source = source,
                           !.stage = IF intake.of.auto /\ requirement # Nothing THEN "extracted" ELSE "answered"]

\* The sheet is forgotten, and nothing has been read of it in the end.
Unrecognized ==
  intake' = [intake EXCEPT !.stage = "answered", !.read = <<>>, !.issues = {Unmappable}]

\* ExcelQuestionnaireParser: a file that is no workbook fails the request, and so does a
\* number that overflows; one that yields no section is another layout, and what was
\* said of it is forgotten.
ReadTemplate ==
  LET taken == Taking(intake.of.cells, SheetBlanks)
      built == Build(taken.sections)
      broken == ~intake.of.readable \/ Overflows(intake.of.cells, SheetBlanks)
  IN /\ intake.stage = "uploaded"
     /\ CASE broken -> intake' = [intake EXCEPT !.stage = "failed"]
          [] ~broken /\ \E s \in SectionKeys : built.requirement[s] # Nothing ->
               Extracted(built.requirement, taken.issues \cup built.issues, "template")
          [] OTHER -> IF Configured THEN intake' = [intake EXCEPT !.stage = "asked", !.read = <<>>]
                      ELSE Unrecognized

MaxAttempts == 3

\* Too many requests, a server error, or no connection: tried again, then given up.
ModelBusy ==
  /\ intake.stage = "asked"
  /\ IF intake.attempt + 1 < MaxAttempts THEN intake' = [intake EXCEPT !.attempt = @ + 1]
     ELSE Unrecognized

\* The key is refused, or the answer is empty or no JSON object.
ModelRefuses == intake.stage = "asked" /\ Unrecognized

\* What is looked at in the model's answer: the fields of sections, a name that is text
\* and a region that is one.
Heeded(cells) ==
  [s \in DOMAIN cells |->
     IF s # "top" THEN cells[s]
     ELSE [f \in {g \in DOMAIN cells.top \cap {"name", "region"} :
                    cells.top[g].kind = "name" /\ Coercible(cells.top[g], FieldSchema.top[g])} |-> cells.top[f]]]

\* _build_from_extraction: what the model could not place is named in a warning.  A
\* number that overflows fails the request, and so does a list of assumptions or of
\* unmapped labels that is none.
ModelAnswers ==
  /\ intake.stage = "asked"
  /\ \E a \in Answers :
       LET cells == Heeded(a.cells)
           taken == Taking(cells, AnswerBlanks)
           built == Build(taken.sections)
           issues == taken.issues \cup {Issue("warning", "sheet", label) : label \in a.unmapped}
           broken == Overflows(cells, AnswerBlanks) \/ ~a.listed
       IN intake' = [(CASE broken -> [intake EXCEPT !.stage = "failed"]
                        [] ~broken /\ \E s \in SectionKeys : taken.sections[s] # <<>> ->
                             [intake EXCEPT !.requirement = built.requirement, !.source = "ai",
                                !.issues = issues \cup built.issues,
                                !.stage = IF intake.of.auto THEN "extracted" ELSE "answered"]
                        [] OTHER -> [intake EXCEPT !.issues = issues \cup {Unmappable}, !.stage = "answered"])
                     EXCEPT !.read = cells]

-----------------------------------------------------------------------------
(* Free text *)

\* The requirement a text leads to.  A database is postgres on a custom tier, and
\* GKE runs on Autopilot; the load balancer has an address.
FromText(t) ==
  LET has(f) == f \in DOMAIN t.number
      n(f) == t.number[f]
      says(s) == s \in t.said
      sure == has("uptime") /\ n("uptime") >= 9990
      ha == says("ha") \/ sure
      egress == IF has("egress") THEN n("egress") ELSE 0
      given(f, other) == CASE has(f) -> n(f) [] ~has(f) /\ has(other) -> n(other) [] OTHER -> 0
      shaped == has("vcpu") /\ has("ram")
      family == IF t.family = Nothing THEN "e2" ELSE t.family
  IN [region |-> CASE t.hint # Nothing -> t.hint [] t.hint = Nothing /\ t.place # Nothing -> t.place
                   [] OTHER -> DefaultRegion,
      strategy |-> "balanced", force |-> FALSE, term |-> 0, selected |-> <<>>, storage |-> Nothing,
      business |-> [users |-> given("users", "peak"), peak |-> given("peak", "users")],
      availability |->
        IF says("ha") \/ says("dr") \/ has("uptime")
        THEN [ha |-> ha, uptime |-> IF has("uptime") THEN n("uptime") ELSE 0, dr |-> says("dr"),
              backup |-> IF says("dr") THEN "daily" ELSE "none"]
        ELSE Nothing,
      network |->
        IF t.said \cap {"balancer", "cdn", "vpn"} # {} \/ egress > 0
        THEN [balancer |-> says("balancer"), ips |-> IF says("balancer") THEN 1 ELSE 0,
              egress |-> egress, cdn |-> says("cdn"), vpn |-> says("vpn")]
        ELSE Nothing,
      kubernetes |-> IF says("containers")
                     THEN [Defaults.kubernetes EXCEPT !.required = TRUE, !.autopilot = TRUE] ELSE Nothing,
      database |-> IF has("database")
                   THEN [Defaults.database EXCEPT !.required = TRUE, !.size = n("database"),
                           !.ha = ha]
                   ELSE Nothing,
      compute |->
        CASE t.type # Nothing -> [Defaults.compute EXCEPT !.family = family, !.machineType = t.type]
          [] t.type = Nothing /\ shaped ->
               [Defaults.compute EXCEPT !.family = family, !.vcpu = n("vcpu"), !.ram = n("ram"),
                                        !.kind = IF says("custom") THEN "custom" ELSE @]
          [] OTHER -> Nothing]

\* The assumptions recorded on the way, each of a field.
TextNotes(t) ==
  LET has(f) == f \in DOMAIN t.number
      shaped == t.type = Nothing /\ has("vcpu") /\ has("ram")
      when(shown, section, field) == IF shown THEN {<<section, field>>} ELSE {}
      on(said, section, field) == when(said \in t.said, section, field)
  IN when(t.hint = Nothing, "top", "region")
     \cup when(has("users") \/ has("peak"), "business", "users")
     \cup when(has("users") \/ has("peak"), "business", "peak")
     \cup when(has("uptime"), "availability", "uptime")
     \cup on("ha", "availability", "ha") \cup on("dr", "availability", "dr")
     \cup when(has("egress"), "network", "egress")
     \cup on("balancer", "network", "balancer") \cup on("cdn", "network", "cdn")
     \cup on("containers", "kubernetes", "required")
     \cup when(has("database"), "database", "size")
     \cup when(has("database") /\ FromText(t).database.ha, "database", "ha")
     \cup when(t.type # Nothing, "compute", "machineType")
     \cup when(shaped, "compute", "vcpu") \cup when(shaped, "compute", "ram")
     \cup when(shaped /\ t.family = Nothing, "compute", "family")
     \cup when(shaped /\ "custom" \in t.said, "compute", "kind")
     \cup on("gpu", "compute", "gpu")

\* The shape or the uptime is out of its model's bounds, or the region that the
\* caller named is none: the request fails.
TextRaises(t) ==
  LET r == FromText(t)
      stated(section, fields) == [f \in fields \cap DOMAIN t.number |-> t.number[f]]
  IN \/ r.compute # Nothing /\ t.type = Nothing /\ ~Accepts("compute", stated("compute", {"vcpu", "ram"}))
     \/ ~Accepts("availability", stated("availability", {"uptime"}))
     \/ r.region \notin DOMAIN RegionPercent

\* A cell that reads as a number holds one, a section is one of the questionnaire's, a
\* text names a family that is sold, "none" is no machine type's name, and neither a
\* measure without end nor a machine type without a name is entered.
Legible(cells, blanks) ==
  /\ DOMAIN cells \subseteq DOMAIN FieldSchema
  /\ \A s \in DOMAIN cells : \A f \in DOMAIN cells[s] :
       /\ cells[s][f].kind = "number" => cells[s][f].value \in Int
       /\ f = "machineType" => cells[s][f].value # "none"
       /\ f = "machineType" /\ cells[s][f].kind = "empty" => "empty" \in blanks
       /\ f \in {"ram", "egress", "uptime"} => cells[s][f].kind # "infinite"
\* Nothing is neither a requirement nor a section.
Something(cells, blanks) ==
  LET sections == Taking(cells, blanks).sections
  IN Build(sections).requirement # Nothing /\ \A s \in SectionKeys : WithDefaults(sections[s], Defaults[s]) # Nothing
ASSUME IntakeAssumption ==
  /\ \A u \in Uploads : Legible(u.cells, SheetBlanks) /\ Something(u.cells, SheetBlanks)
  /\ \A a \in Answers : Legible(a.cells, AnswerBlanks) /\ Something(Heeded(a.cells), AnswerBlanks)
  /\ \A t \in Texts :
       /\ \A f \in DOMAIN t.number : t.number[f] \in Nat
       /\ t.family # Nothing => t.family \in Families
       /\ t.type # "none"
       /\ FromText(t) # Nothing
  /\ DefaultRegion \in DOMAIN RegionPercent

ExtractText ==
  /\ intake = Nothing
  /\ \E t \in Texts :
       intake' = [stage |-> CASE TextRaises(t) -> "failed" [] ~TextRaises(t) /\ t.auto -> "extracted" [] OTHER -> "answered",
                  of |-> t, read |-> <<>>, attempt |-> 0, requirement |-> FromText(t), issues |-> {},
                  source |-> "text", notes |-> TextNotes(t)]

-----------------------------------------------------------------------------
(* The estimate in the same request *)

\* _try_auto_estimate
EstimateExtracted ==
  /\ intake.stage = "extracted"
  /\ intake' = [intake EXCEPT !.stage = "pricing"]
  /\ Start([intake.requirement EXCEPT !.force = intake.of.force, !.term = intake.of.term])

\* A blocked estimate's blockers join the issues; one that raises anything else loses
\* what was read.
FoldEstimate ==
  /\ intake.stage = "pricing"
  /\ stage \in {"done", "blocked", "failed", "raised"}
  /\ intake' = [intake EXCEPT
       !.stage = IF stage \in {"failed", "raised"} THEN "failed" ELSE "answered",
       !.issues = IF stage = "blocked"
                  THEN @ \cup {Issue("blocker", "estimate", f.field) : f \in {g \in found : g.severity = "blocker"}}
                  ELSE @]
  /\ UNCHANGED vars

\* The answer is sent.
IntakeLeaves ==
  /\ intake.stage \in {"answered", "failed"}
  /\ intake' = Nothing
  /\ IF stage = "idle" THEN UNCHANGED vars ELSE Respond

\* One request of the intake, while no other is under way.
TakeIn ==
  \/ /\ stage = "idle"
     /\ Upload \/ ExtractText
     /\ UNCHANGED vars
  \/ /\ intake # Nothing
     /\ \/ (ReadTemplate \/ ModelBusy \/ ModelRefuses \/ ModelAnswers) /\ UNCHANGED vars
        \/ EstimateExtracted \/ FoldEstimate \/ IntakeLeaves

-----------------------------------------------------------------------------
(* Properties *)

\* What a requirement has in its sections that is not their default.
Inferred(r) ==
  {e \in UNION {{s} \X DOMAIN Defaults[s] : s \in SectionKeys} :
     r[e[1]] # Nothing /\ r[e[1]][e[2]] # Defaults[e[1]][e[2]]}

\* What is in the text as it stands, or follows from a signal with a note of its own.
Implied ==
  {<<"network", "ips">>, <<"kubernetes", "autopilot">>, <<"database", "required">>,
   <<"availability", "backup">>, <<"compute", "family">>}

\* "Every inference is recorded as an `Assumption` ... never a silent guess"
\* (text_extractor.py:14-17): whatever a text's requirement has in a section that is
\* neither its default nor implied by something noted, a note names.
InferencesRecorded ==
  intake # Nothing /\ intake.source = "text" /\ intake.stage = "answered" =>
    Inferred(intake.requirement) \ Implied \subseteq intake.notes

\* Each entry read of a workbook, or of what the model extracted from it, is in the
\* requirement or an issue names it or its section, and nothing else was filled in.
EntriesAccounted(r, cells, blanks, issues) ==
  LET about(severity, section, field) == Issue(severity, section, field) \in issues
      kept(e) == /\ r # Nothing
                 /\ IF e[1] = "top" THEN r[e[2]] = cells.top[e[2]].value
                    ELSE /\ r[e[1]] # Nothing
                         /\ r[e[1]][e[2]] = Coerced(cells[e[1]][e[2]], FieldSchema[e[1]][e[2]])
      entered == {e \in UNION {{s} \X DOMAIN cells[s] : s \in DOMAIN cells} :
                    e[2] \in DOMAIN FieldSchema[e[1]] /\ cells[e[1]][e[2]].kind \notin blanks}
  IN /\ \A e \in entered :
          \/ e = <<"top", "name">>
          \/ e[1] = "top" /\ r = Nothing
          \/ about("warning", e[1], e[2]) \/ about("blocker", e[1], "section")
          \/ kept(e)
     /\ r # Nothing => Inferred(r) \subseteq entered

\* Nothing that was read of a workbook is lost without a word, through template, model,
\* retries and refusals: in every answer to an upload, each entry read is in the
\* requirement or an issue names it, nothing else was filled in, and an answer without a
\* requirement says so (excel_parser.py:5-10, extraction_service.py:18-32).  An estimate
\* that is blocked leaves an issue for every blocker (routers/intake.py:32-35).  A sheet
\* in which no section was recognised has not been read in this sense, whatever issues
\* it had; a number that overflows ends the request without any answer.
IntakeAccounted ==
  intake # Nothing /\ intake.stage = "answered" =>
    /\ intake.requirement = Nothing =>
         \E i \in intake.issues : i.severity = "blocker" /\ i.section = "workbook"
    /\ intake.source # "text" =>
         EntriesAccounted(intake.requirement, intake.read,
                          IF intake.source = "template" THEN SheetBlanks ELSE AnswerBlanks, intake.issues)
    /\ stage = "blocked" =>
         \A f \in found : f.severity = "blocker" => Issue("blocker", "estimate", f.field) \in intake.issues
=============================================================================
