----------------------------- MODULE PluginGate -----------------------------
(***************************************************************************)
(* Plugin adapters: discovery, the conformance gate, enablement and use in *)
(* a recovery (crates/adapters-plugin-host; the plugin commands of         *)
(* src-tauri/src/main.rs; plugin_settings and plugin_gates of settings.rs).*)
(* A place is the user directory or the adapter directory of a repository. *)
(* An artifact there is [build, corpus]: build stands for the bytes and    *)
(* their hash, corpus for the golden file beside it, which the hash does   *)
(* not cover.  Anything on disk may be replaced between any two steps.     *)
(* A fact of a guest has props beside its key: "prov" for an object that   *)
(* holds a prov object (whose evidence ev may be empty), "object" for one  *)
(* that holds none, "other" for any other JSON.                            *)
(***************************************************************************)
EXTENDS Assembly

CONSTANTS
    Roots,        \* repository roots in path order
    PluginIds,
    Builds,       \* Builds[b] = [compiles, answers], answers[path] = {} for an error
    Corpora,      \* Corpora[c] = [exts, cases], a case is [path, facts]
    Artifacts,    \* what may be put at a place
    Sources,      \* the files of a repository, [path, ext], in path order
    Inputs,       \* what the built-in extractors may find
    LayerSets,    \* selections of layers
    MaxChanges    \* how often the disk and the settings change

ASSUME PluginAssumption == IsFiniteSet(PluginIds)

VARIABLES
    disk,         \* disk[place][id]
    enabled,      \* plugin_settings: [place][id] -> [build, on]
    verdicts,     \* plugin_gates: [id][build] -> none, passed or failed
    gate,         \* the running gate, [id, at, place, build, passed]
    rec,          \* the running recovery, [at, root, active, facts]
    found,        \* what the built-in extractors find
    published,    \* the last finished recovery, as a set
    vouched,      \* <<id, build>> that a gate ran with success
    granted,      \* <<place, id, build>> that were enabled
    changes

pluginVars == <<disk, enabled, verdicts, gate, rec, found, published, vouched, granted, changes>>

User == "user"
Places == {User} \cup ToSet(Roots)
Nothing == [build |-> "none", corpus |-> "none"]
NoGate == [id |-> "none", at |-> "idle", place |-> User, build |-> "none", passed |-> FALSE]
NoRecovery == [at |-> "idle", root |-> User, active |-> <<>>, facts |-> <<>>]
Commit == 1

-----------------------------------------------------------------------------
(* discover: the first root that has the plugin, else the user directory.  *)
Winner(roots, id) ==
    LET first == SelectInSeq(roots, LAMBDA r : disk[r][id] # Nothing)
    IN  IF first # 0 THEN {roots[first]} ELSE {p \in {User} : disk[p][id] # Nothing}

(* active_plugins_in: enabled at that very hash for this root or for the   *)
(* user, passed by the gate at that hash, with a corpus that claims files. *)
Active(root, id, place) ==
    LET a == disk[place][id]
    IN  /\ enabled[place][id] = [build |-> a.build, on |-> TRUE]
        /\ verdicts[id][a.build] = "passed"
        /\ a.corpus # "none" /\ Corpora[a.corpus].exts # {}

Listed(id, place) ==
    [id |-> id, place |-> place, build |-> disk[place][id].build, exts |-> Corpora[disk[place][id].corpus].exts]

ActivePlugins(root) ==
    SetToSeq(UNION {{Listed(id, p) : p \in {p \in Winner(<<root>>, id) : Active(root, id, p)}} : id \in PluginIds})

(* fill_missing_provenance: an object without a prov object gets one that  *)
(* cites the whole file.                                                   *)
FilledFact(f, path) ==
    IF f.props = "object" THEN [f EXCEPT !.conf = "Confirmed", !.ev = {[path |-> path, commit |-> Commit]}] ELSE f

(* Faulty variant: only the provenance that a guest wrote is pinned.       *)
PinnedProvFact(f, id, build) == IF f.props = "prov" THEN f @@ [pin |-> <<id, build>>] ELSE f

(* pin_extraction: an object names the plugin and its build.  JSON that is *)
(* no object has no place for either and is let through as it is.          *)
PinnedFact(f, id, build) == IF f.props = "other" THEN f ELSE f @@ [pin |-> <<id, build>>]

PinnedFacts(raw, id, build, path) ==
    LET kept(f) == FilledFact(PinnedFact(f, id, build), path)
    IN  [nodes |-> [i \in DOMAIN raw.nodes |-> kept(raw.nodes[i])], edges |-> {kept(e) : e \in raw.edges}]

(* call_extract, without the deadline: {} is an error of the guest, a trap,*)
(* a limit that was hit or a fact that does not parse.                     *)
CallExtract(id, build, path) == {PinnedFacts(raw, id, build, path) : raw \in Builds[build].answers[path]}

(* run_gate on these bytes with this corpus.                               *)
Conforms(id, build, corpus) ==
    /\ Builds[build].compiles
    /\ corpus # "none" /\ Corpora[corpus].cases # {}
    /\ \A c \in Corpora[corpus].cases : CallExtract(id, build, c.path) = {PinnedFacts(c.facts, id, build, c.path)}

ClaimedFiles(exts) == SelectSeq(Sources, LAMBDA s : s.ext \in exts)

(* extract_claimed: one file that fails fails the plugin.                  *)
Answered(p, build) ==
    /\ Builds[build].compiles
    /\ \A s \in ToSet(ClaimedFiles(p.exts)) : CallExtract(p.id, build, s.path) # {}

AllAnswers(p, build) ==
    LET files == ClaimedFiles(p.exts)
    IN  FoldLeft(WithFacts, [nodes |-> <<>>, edges |-> {}],
                 [i \in DOMAIN files |-> CHOOSE a \in CallExtract(p.id, build, files[i].path) : TRUE])

ExtractClaimed(p, build) == IF Answered(p, build) THEN {AllAnswers(p, build)} ELSE {}

-----------------------------------------------------------------------------
PluginInit ==
    /\ disk \in [Places -> [PluginIds -> Artifacts]]
    /\ enabled = [p \in Places |-> [id \in PluginIds |-> [build |-> "none", on |-> FALSE]]]
    /\ verdicts = [id \in PluginIds |-> [b \in DOMAIN Builds |-> "none"]]
    /\ gate = NoGate
    /\ rec = NoRecovery
    /\ found \in Inputs
    /\ published = {}
    /\ vouched = {}
    /\ granted = {}
    /\ changes \in {0, MaxChanges}

(* Somebody installs, rebuilds or removes a plugin, or edits its corpus.   *)
ReplaceArtifact(p, id) ==
    /\ changes > 0
    /\ \E a \in Artifacts \ {disk[p][id]} : disk' = [disk EXCEPT ![p][id] = a]
    /\ changes' = changes - 1
    /\ UNCHANGED <<enabled, verdicts, gate, rec, found, published, vouched, granted>>

(* set_plugin_enabled stores the hash that was shown, whatever is on disk. *)
SetPluginEnabled(p, id, build, on) ==
    /\ changes > 0
    /\ enabled' = [enabled EXCEPT ![p][id] = [build |-> build, on |-> on]]
    /\ granted' = IF on THEN granted \cup {<<p, id, build>>} ELSE granted
    /\ changes' = changes - 1
    /\ UNCHANGED <<disk, verdicts, gate, rec, found, published, vouched>>

GateUnchanged == UNCHANGED <<disk, enabled, rec, found, published, granted, changes>>

(* run_plugin_gate: the plugin of that id among all roots.                 *)
DiscoverForGate(id) ==
    /\ gate.at = "idle"
    /\ \E p \in Winner(Roots, id) :
           gate' = [NoGate EXCEPT !.id = id, !.at = "found", !.place = p, !.build = disk[p][id].build]
    /\ UNCHANGED <<verdicts, vouched>>
    /\ GateUnchanged

(* The bytes that are tested are read and hashed after the discovery.      *)
ReadForGate ==
    /\ gate.at = "found"
    /\ disk[gate.place][gate.id] # Nothing
    /\ gate' = [gate EXCEPT !.at = "read", !.build = disk[gate.place][gate.id].build]
    /\ UNCHANGED <<verdicts, vouched>>
    /\ GateUnchanged

(* A deadline that passes fails a plugin that conforms.                    *)
TestForGate ==
    /\ gate.at = "read"
    /\ \E ok \in {FALSE, Conforms(gate.id, gate.build, disk[gate.place][gate.id].corpus)} :
           /\ gate' = [gate EXCEPT !.at = "tested", !.passed = ok]
           /\ vouched' = IF ok THEN vouched \cup {<<gate.id, gate.build>>} ELSE vouched
    /\ UNCHANGED verdicts
    /\ GateUnchanged

RecordGate ==
    /\ gate.at = "tested"
    /\ verdicts' = [verdicts EXCEPT ![gate.id][gate.build] = IF gate.passed THEN "passed" ELSE "failed"]
    /\ gate' = NoGate
    /\ UNCHANGED vouched
    /\ GateUnchanged

(* Cancelled, or an artifact that is gone.                                 *)
StopGate ==
    /\ gate.at # "idle"
    /\ gate' = NoGate
    /\ UNCHANGED <<verdicts, vouched>>
    /\ GateUnchanged

-----------------------------------------------------------------------------
RecoveryUnchanged == UNCHANGED <<disk, enabled, verdicts, gate, found, vouched, granted, changes>>

(* active_plugins_for_root, before the extraction.                         *)
ListActive(root) ==
    /\ rec.at = "idle"
    /\ rec' = [at |-> "loading", root |-> root, active |-> ActivePlugins(root), facts |-> <<>>]
    /\ published' = {}
    /\ RecoveryUnchanged

(* Faulty variant: the bytes on disk are taken as the ones that passed.    *)
LoadableUnhashed(p) == {disk[p.place][p.id].build} \ {"none"}

(* The bytes are read again and their hash compared with the listed one.   *)
Loadable(p) == {disk[p.place][p.id].build} \cap {p.build}

LoadPlugin ==
    /\ rec.at = "loading" /\ Len(rec.facts) < Len(rec.active)
    /\ LET p == rec.active[Len(rec.facts) + 1]
       IN  \E b \in Loadable(p) : \E f \in ExtractClaimed(p, b) : rec' = [rec EXCEPT !.facts = Append(@, f)]
    /\ UNCHANGED published
    /\ RecoveryUnchanged

Publish ==
    /\ rec.at = "loading" /\ Len(rec.facts) = Len(rec.active)
    /\ \E layers \in LayerSets :
           /\ Readable(found, layers)
           /\ published' = {[root |-> rec.root, layers |-> layers, active |-> rec.active, graph |-> Assemble(found, layers, rec.facts, Commit)]}
    /\ rec' = NoRecovery
    /\ RecoveryUnchanged

(* Cancelled, an input that does not parse, a plugin that changed or failed.*)
FailRecovery ==
    /\ rec.at = "loading"
    /\ rec' = NoRecovery
    /\ UNCHANGED published
    /\ RecoveryUnchanged

PluginNext ==
    \/ \E p \in Places, id \in PluginIds : ReplaceArtifact(p, id)
    \/ \E p \in Places, id \in PluginIds, b \in DOMAIN Builds, on \in BOOLEAN : SetPluginEnabled(p, id, b, on)
    \/ \E id \in PluginIds : DiscoverForGate(id)
    \/ ReadForGate \/ TestForGate \/ RecordGate \/ StopGate
    \/ \E r \in ToSet(Roots) : ListActive(r)
    \/ LoadPlugin \/ Publish \/ FailRecovery

PluginSpec == PluginInit /\ [][PluginNext]_pluginVars

-----------------------------------------------------------------------------
(* Bytes that a gate ran with success and that were enabled for the        *)
(* repository or for the user.                                             *)
Gated(root, id, build) ==
    /\ <<id, build>> \in vouched
    /\ \E place \in {User, root} : <<place, id, build>> \in granted

(* Whatever is replaced on disk while a gate or a recovery is under way, a *)
(* published recovery assembles one answer of every plugin that it listed, *)
(* for every file it claims, and of no other: each by gated bytes.  A      *)
(* plugin that fails or changes fails the recovery.                        *)
AnswersAreGated ==
    \A p \in published :
        LET all == [i \in DOMAIN p.active |-> AllAnswers(p.active[i], p.active[i].build)]
        IN  /\ \A a \in ToSet(p.active) : Gated(p.root, a.id, a.build) /\ Answered(a, a.build)
            /\ p.graph = Assemble(found, p.layers, all, Commit)

FactsOf(x) == ToSet(x.nodes) \cup x.edges

(* What the listed plugins answered: who, of which file, which fact.       *)
GuestFacts(p) ==
    UNION {UNION {{[by |-> a, path |-> s.path, fact |-> f] : f \in UNION {FactsOf(raw) : raw \in Builds[a.build].answers[s.path]}} :
                     s \in ToSet(ClaimedFiles(a.exts))} : a \in ToSet(p.active)}

(* A published fact of the same key that names the build that answered it; *)
(* where the guest gave no provenance it cites the file.                   *)
Attributed(p, g) ==
    \E f \in FactsOf(p.graph) :
        /\ \A k \in {"id", "label", "src", "dst"} \cap DOMAIN g.fact : k \in DOMAIN f /\ f[k] = g.fact[k]
        /\ "pin" \in DOMAIN f /\ f.pin = <<g.by.id, g.by.build>>
        /\ g.fact.props = "object" => g.path \in {e.path : e \in f.ev}

(* A node that claims to be a placeholder may become one with others.      *)
Declares(f) == "ph" \in DOMAIN f => ~f.ph

(* Nothing that is joined later hides or forges what they answered: a      *)
(* published fact of a plugin is pinned to gated bytes, and each fact that *)
(* a listed plugin answered is published with the pin of its build, if its *)
(* props can hold one.                                                     *)
PluginFactsAreGated ==
    /\ AnswersAreGated
    /\ \A p \in published :
           /\ \A f \in FactsOf(p.graph) : "pin" \in DOMAIN f => Gated(p.root, f.pin[1], f.pin[2])
           /\ \A g \in GuestFacts(p) : Declares(g.fact) /\ g.fact.props # "other" => Attributed(p, g)

(* What lib.rs:331-333 says of every fact that leaves the host, "there is  *)
(* no unpinned production path", and ADR-0017 of every fact of a plugin.   *)
EveryFactIsPinned == \A p \in published : \A g \in GuestFacts(p) : Declares(g.fact) => Attributed(p, g)

(* What makes it so at every step: a verdict and an enablement have their  *)
(* cause, a gate has run the bytes that it will record, and a recovery     *)
(* that loads has listed gated bytes and holds what they answered.         *)
VerdictsFit ==
    /\ verdicts \in [PluginIds -> [DOMAIN Builds -> {"none", "passed", "failed"}]]
    /\ \A id \in PluginIds, b \in DOMAIN Builds : verdicts[id][b] = "passed" => <<id, b>> \in vouched

EnablementsFit ==
    /\ enabled \in [Places -> [PluginIds -> [build : DOMAIN Builds \cup {"none"}, on : BOOLEAN]]]
    /\ \A p \in Places, id \in PluginIds : enabled[p][id].on =>
           enabled[p][id].build \in DOMAIN Builds /\ <<p, id, enabled[p][id].build>> \in granted

TestFits ==
    /\ DOMAIN gate = DOMAIN NoGate
    /\ gate.at = "tested" /\ gate.passed => <<gate.id, gate.build>> \in vouched

LoadsFit ==
    /\ DOMAIN rec = DOMAIN NoRecovery
    /\ DOMAIN rec.active = 1..Len(rec.active) /\ Len(rec.active) \in Nat
    /\ rec.facts \in Seq(UNION {ExtractClaimed(a, a.build) : a \in ToSet(rec.active)}) /\ Len(rec.facts) <= Len(rec.active)
    /\ \A i \in DOMAIN rec.facts : rec.facts[i] \in ExtractClaimed(rec.active[i], rec.active[i].build)

ListedGated == \A a \in ToSet(rec.active) : Gated(rec.root, a.id, a.build)

GateInv == VerdictsFit /\ EnablementsFit /\ TestFits /\ LoadsFit /\ ListedGated /\ AnswersAreGated

(* An id that nobody declares and no state observes has exactly one node   *)
(* after a recovery, and that node is a gap as soon as one extractor or    *)
(* one reference left it open, or two disagree about it: joining more      *)
(* extractors never turns what one of them could not resolve into a fact.  *)
GapsKept(nodes, held) ==
    LET of(s, id) == {i \in DOMAIN s : s[i].id = id}
        open == {id \in {n.id : n \in ToSet(nodes)} : \A i \in of(nodes, id) : nodes[i].ph}
    IN  \A id \in open :
            /\ Cardinality(of(nodes, id)) = 1
            /\ \/ of(held, id) = {}
               \/ \E i \in of(held, id) : IsGap(held[i])
               \/ \E i, k \in of(held, id) : held[i].boundary # held[k].boundary
               => \A i \in of(nodes, id) : IsGap(nodes[i])

GapNotHidden == \A p \in published : GapsKept(p.graph.nodes, Documented(found, p.layers, Commit).nodes)

(* What the name of a site may stand for, whatever config or trace says it.*)
KnownNames(in, s) ==
    NameValues(s.name, in.env, in.manifest)
    \cup (IF s.name.as = "literal" THEN {} ELSE {t.destination : t \in {t \in UNION {ToSet(in.traces[i]) : i \in DOMAIN in.traces} : t.kind = s.kind}})

(* Every event or fetch site of a wanted layer is accounted for by one     *)
(* edge from its source: to a channel that its name, the configuration or  *)
(* one trace identifies, to the only endpoint that answers, or to its own  *)
(* gap.  That node exists, and a gap that was filled is gone.  A trace     *)
(* that locates nothing fills no gap that has a rival.                     *)
SitesAccounted ==
    \A p \in published :
        LET g == p.graph
            ids == {n.id : n \in ToSet(g.nodes)}
            sites == EventSitesOf(found, p.layers)
            to(s, label) == {e \in g.edges : e.src = s.src /\ e.label = label}
            gapped(s) == SiteGap("chan", s) \in ids
            unlocated == \A i \in DOMAIN found.traces : \A t \in ToSet(found.traces[i]) : t.file = <<>>
            unnamed(s) == NameValues(s.name, found.env, found.manifest) = {}
        IN  /\ \A s \in ToSet(sites) : \E e \in to(s, RoleLabel(s)) :
                   /\ e.dst \in ids
                   /\ IF gapped(s) THEN e.dst = SiteGap("chan", s) /\ e.conf = "Gap"
                      ELSE e.conf = "Confirmed" /\ e.dst \in {<<"chan", s.kind, v>> : v \in KnownNames(found, s)}
            /\ \A s, t \in ToSet(sites) : s # t /\ s.kind = t.kind /\ unnamed(s) /\ unnamed(t) /\ unlocated => gapped(s)
            /\ \A s \in ToSet(FetchSitesOf(found, p.layers)) : \E e \in to(s, "FETCHES") :
                   LET answers == {i \in DOMAIN g.nodes : /\ g.nodes[i].id[1] = "ep" /\ g.nodes[i].id[2] = s.method
                                                          /\ \E u \in NameValues(s.name, found.env, found.manifest) :
                                                                RouteMatches(g.nodes[i].id[3], UrlPath(u))}
                   IN  IF e.conf = "Confirmed" THEN {g.nodes[i].id : i \in answers} = {e.dst}
                       ELSE e.dst = SiteGap("fetch", s) /\ SiteGap("fetch", s) \in ids
=============================================================================
