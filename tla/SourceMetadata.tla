--------------------------- MODULE SourceMetadata ---------------------------
(***************************************************************************)
(* What class, authority and profile a source has, and which searches may  *)
(* return it: path rules, content fallbacks, front matter, decision status *)
(* and the profile rules, in the order the code applies them.  A source is *)
(* the part of the tree it is in and the features of its name and text     *)
(* that the rules look at.                                                 *)
(***************************************************************************)
EXTENDS Naturals, Integers, Sequences, FiniteSets, SequencesExt, FiniteSetsExt

\* The places the path patterns tell apart ("code" is cmd/, internal/, pkg/).
Place == {"vend_feedback", "improvements_dump", "archive", "validation", "decisions",
          "backlog", "rootconfig", "configs", "docs", "readme", "code", "elsewhere"}

Class     == {"source_code", "test", "docs", "adr", "pm_item", "generated", "archived",
              "review_corpus", "config", "raw_evidence", "unknown"}
Authority == {"authoritative", "active", "generated", "advisory", "raw_evidence",
              "archived", "unknown"}
Profile   == {"code", "project_memory", "review_corpus", "archive"}

MetaType  == [class : Class, authority : Authority, profile : Profile, place : Place,
              log : BOOLEAN, generated : BOOLEAN, stale : BOOLEAN,
              decision : {"", "unknown", "implemented", "accepted", "superseded",
                          "deprecated", "proposed"}]

SourceType == [place : Place, kind : {"code", "config", "markdown", "pdf", "text"},
               log : BOOLEAN, adr : BOOLEAN, test : BOOLEAN, item : BOOLEAN, superseded : BOOLEAN,
               status : {"none", "closed", "active", "urgent"},
               decision : {"unknown", "implemented", "accepted", "superseded", "deprecated", "proposed"}]

-----------------------------------------------------------------------------
(* Deriving the metadata.                                                  *)

Rule(in, class, authority, profile) ==
    [in |-> in, class |-> class, authority |-> authority, profile |-> profile]

\* DefaultMetadataRules: the first that matches the path decides.
MetadataRules == <<
    Rule({"vend_feedback", "improvements_dump"}, "review_corpus", "advisory", "review_corpus"),
    Rule({"archive"}, "archived", "archived", "archive"),
    Rule({"log"}, "raw_evidence", "raw_evidence", "review_corpus"),
    Rule({"validation"}, "generated", "generated", "project_memory"),
    Rule({"adrfile"}, "adr", "unknown", "project_memory"),
    Rule({"backlog"}, "pm_item", "active", "project_memory"),
    Rule({"rootconfig"}, "config", "authoritative", "code"),
    Rule({"configs"}, "config", "active", "code"),
    Rule({"docs", "readme"}, "docs", "active", "project_memory") >>

\* matchMetadataPattern: a directory, a file name, "**/*.log" or "ADR-*.md".
Matches(rule, src) ==
    \/ src.place \in rule.in
    \/ src.log /\ "log" \in rule.in
    \/ src.place = "decisions" /\ src.adr /\ "adrfile" \in rule.in

\* applyPathRules
ApplyPathRules(src) ==
    LET hit  == {i \in DOMAIN MetadataRules : Matches(MetadataRules[i], src)}
        none == Rule({}, "unknown", "unknown", "project_memory")
        rule == IF hit = {} THEN none ELSE MetadataRules[Min(hit)]
    IN  [class |-> rule.class, authority |-> rule.authority, profile |-> rule.profile,
         place |-> src.place, log |-> src.log,
         generated |-> rule.class = "generated", stale |-> rule.class = "archived",
         decision |-> ""]

\* applyContentFallbacks, for what no path rule knew.
ApplyContentFallbacks(meta, src) ==
    LET as(c, a, p) == [meta EXCEPT !.class = c, !.authority = a, !.profile = p]
    IN  CASE meta.class # "unknown" -> meta
          [] meta.class = "unknown" /\ src.test -> as("test", "active", "code")
          [] meta.class = "unknown" /\ ~src.test /\ src.kind = "code" ->
                as("source_code", "active", "code")
          [] meta.class = "unknown" /\ ~src.test /\ src.kind = "config" ->
                as("config", "authoritative", "code")
          [] meta.class = "unknown" /\ ~src.test /\ src.kind \in {"markdown", "pdf", "text"} ->
                as("docs", "active", "project_memory")

\* applyFrontmatterMetadata: a planning item, then the item's status.
ApplyFrontmatter(meta, src) ==
    LET item == IF src.item
                THEN [meta EXCEPT !.class = "pm_item", !.authority = "active",
                                  !.profile = "project_memory"]
                ELSE meta
    IN  CASE src.status = "closed" ->
                [item EXCEPT !.class = "archived", !.authority = "archived",
                             !.profile = "archive", !.stale = TRUE]
          [] src.status = "active" /\ item.authority = "unknown" ->
                [item EXCEPT !.authority = "active"]
          [] src.status = "urgent" -> [item EXCEPT !.authority = "authoritative"]
          [] OTHER -> item

\* Mutation of ApplyDecision: a superseded decision keeps its authority.
DecisionStaysCurrent(meta, src) ==
    IF meta.class # "adr" /\ ~src.adr THEN meta
    ELSE [meta EXCEPT !.class = "adr", !.decision = src.decision,
                      !.profile = "project_memory", !.authority = "authoritative"]

\* applyDecisionMetadata: a decision record, by its class or its name.
ApplyDecision(meta, src) ==
    LET status == IF src.superseded THEN "superseded" ELSE src.decision
        adr(a) == [meta EXCEPT !.class = "adr", !.decision = status,
                               !.profile = "project_memory", !.authority = a]
    IN  CASE meta.class # "adr" /\ ~src.adr -> meta
          [] (meta.class = "adr" \/ src.adr)
                /\ meta.class \in {"review_corpus", "generated", "archived"} ->
                [meta EXCEPT !.decision = status]
          [] OTHER ->
                CASE status \in {"accepted", "implemented"} -> adr("authoritative")
                  [] status \in {"deprecated", "superseded"} ->
                        [adr("archived") EXCEPT !.profile = "archive", !.stale = TRUE]
                  [] status = "proposed" -> adr("active")
                  [] status = "unknown" -> adr("unknown")

\* DeriveSourceMetadata
Derive(src) ==
    ApplyDecision(ApplyFrontmatter(ApplyContentFallbacks(ApplyPathRules(src), src), src), src)

\* MetadataPriority
Priority(meta) ==
    LET of == [authoritative |-> 100, active |-> 80, generated |-> 45, advisory |-> 35,
               raw_evidence |-> 25, archived |-> 20, unknown |-> 10]
        decided == CASE meta.decision \in {"accepted", "implemented"} -> 10
                     [] meta.decision = "proposed" -> 0 - 10
                     [] meta.decision \in {"deprecated", "superseded"} -> 0 - 30
                     [] meta.decision = "unknown" /\ meta.class = "adr" -> 0 - 5
                     [] OTHER -> 0
    IN  of[meta.authority] + decided - (IF meta.generated THEN 5 ELSE 0)
            - (IF meta.stale THEN 10 ELSE 0)

-----------------------------------------------------------------------------
(* Profiles.                                                               *)

\* DefaultProfileRules
ProfileRules == [
    code |-> [include |-> {"code", "configs", "rootconfig"}, exclude |-> {}, noLogs |-> FALSE,
              classes |-> {"source_code", "test", "config"}, authorities |-> Authority],
    project_memory |-> [include |-> {"readme", "docs", "backlog", "decisions"},
              exclude |-> {"vend_feedback", "improvements_dump", "archive"}, noLogs |-> TRUE,
              classes |-> {"docs", "adr", "pm_item", "generated", "config", "unknown"},
              authorities |-> Authority],
    review_corpus |-> [include |-> {"vend_feedback", "improvements_dump"}, exclude |-> {},
              noLogs |-> FALSE, classes |-> {"review_corpus", "raw_evidence"},
              authorities |-> {"advisory", "raw_evidence"}],
    archive |-> [include |-> {"archive"}, exclude |-> {}, noLogs |-> FALSE,
              classes |-> {"archived"}, authorities |-> {"archived"}]]

Excluded(rule, meta) == meta.place \in rule.exclude \/ (rule.noLogs /\ meta.log)

\* profileRuleAllows: included directories decide nothing of their own.
ProfileRuleAllows(rule, meta) ==
    /\ ~Excluded(rule, meta)
    /\ meta.class \in rule.classes /\ meta.authority \in rule.authorities

\* requiredProfileFor: the profile a searcher is told to select.
RequiredProfile(meta) ==
    LET order == <<"review_corpus", "archive", "code", "project_memory">>
        owns  == {i \in 1..4 : LET rule == ProfileRules[order[i]]
                               IN  meta.place \in rule.include /\ ~Excluded(rule, meta)}
    IN  IF owns = {} THEN meta.profile ELSE order[Min(owns)]

\* isDefaultExcluded
DefaultExcluded(meta) ==
    \/ meta.class \in {"review_corpus", "archived", "raw_evidence"}
    \/ meta.profile \in {"review_corpus", "archive"}
    \/ meta.authority \in {"raw_evidence", "advisory"}

\* ExplainProfileEligibilityWithRules
Eligible(meta, requested) ==
    IF requested = ""
    THEN ~DefaultExcluded(meta) /\ RequiredProfile(meta) \notin {"review_corpus", "archive"}
    ELSE ProfileRuleAllows(ProfileRules[requested], meta)

-----------------------------------------------------------------------------
(* Filters.                                                                *)

\* contentTypeFilter
PassesContent(src, filter) ==
    CASE filter = "code" -> src.kind = "code"
      [] filter = "docs" -> src.kind \in {"markdown", "pdf", "text"}
      [] OTHER -> TRUE

\* modeFilter
PassesMode(meta, search) ==
    CASE search = "decisions" ->
            meta.class = "adr" /\ ~meta.generated /\ ~meta.stale
                /\ meta.decision \notin {"superseded", "deprecated"}
      [] search = "decision-history" -> meta.class = "adr"
      [] OTHER -> TRUE

\* ApplyFilters: content, language, symbol and scope filters, the mode, and the
\* profile, which the history of decisions does not apply.
PassesFilters(src, opts) ==
    LET meta == Derive(src)
    IN  PassesContent(src, opts.filter) /\ PassesMode(meta, opts.search)
            /\ (opts.search = "decision-history" \/ Eligible(meta, opts.profile))

-----------------------------------------------------------------------------
(* One source of every kind.                                               *)

CONSTANTS Source,   \* the sources that are looked at
          NoSource

ASSUME SourceAssumption == Source \subseteq SourceType /\ NoSource \notin SourceType

VARIABLE source     \* the file under inspection, NoSource before it is there

sourceVars == <<source>>

SourceInit == source = NoSource

AddSource == source = NoSource /\ source' \in Source

\* A file is edited in place: its front matter or its decision changes.
EditSource ==
    /\ source # NoSource
    /\ source' \in {s \in Source : s.place = source.place /\ s.kind = source.kind
                                     /\ s.log = source.log /\ s.adr = source.adr}
    /\ source' # source

SourceNext == AddSource \/ EditSource

SourceSpec == SourceInit /\ [][SourceNext]_source

\* A decision that holds no more, by what its text says.
Overruled(src) == src.superseded \/ src.decision \in {"superseded", "deprecated"}

\* No source that may be indexed is out of the reach of every search: some
\* profile returns it, unless its front matter says it is a planning item or an
\* urgent one, where the archive's and the reviews' rules look for their own
\* class and authority, or it is a log that is named and reads like an overruled
\* decision, which the profile of decisions excludes and that of logs does not take.
SomeProfileReturns ==
    \/ \E p \in Profile \cup {""} : Eligible(Derive(source), p)
    \/ /\ source.item \/ source.status = "urgent"
       /\ source.log \/ source.place \in {"archive", "vend_feedback", "improvements_dump"}
    \/ source.log /\ source.adr /\ Overruled(source)

\* Closed items and overruled decisions; a validation report keeps its class.
Outdated(src) ==
    \/ src.status = "closed" /\ (src.adr => src.place # "validation")
    \/ src.adr /\ src.place # "validation" /\ Overruled(src)

\* A search without a profile returns nothing outdated: closing an item or
\* overruling a decision takes the file out of ordinary results wherever it is,
\* and lowers a project's own document in those that still return it (unless
\* nothing was known of it: an undecided record ranks below an archived one).
DefaultIsCurrent ==
    Outdated(source') =>
        /\ ~Eligible(Derive(source'), "")
        /\ (/\ source # NoSource
            /\ ~Outdated(source) /\ Derive(source).authority # "unknown"
            /\ source.place \notin {"archive", "vend_feedback", "improvements_dump"})
              => Priority(Derive(source')) < Priority(Derive(source))

\* Every source can be asked for from the start, and an outdated one must be
\* (source_metadata.go:264-600).
ProfilesAreRight ==
    [][source' # NoSource => (source = NoSource => SomeProfileReturns') /\ DefaultIsCurrent]_source

=============================================================================
