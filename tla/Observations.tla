---------------------------- MODULE Observations ----------------------------
(***************************************************************************)
(* What an extraction is joined with: environment files that give channel  *)
(* names and URLs their values (crates/events), and the artifacts of a     *)
(* running system, namely a Terraform state, a Pulumi deployment and       *)
(* OpenTelemetry traces (crates/dynamic).                                  *)
(*                                                                         *)
(* A site is [role, src, kind, name, path, at]; name is [as, of] with as   *)
(* literal, env or computed.  A path or URL is its sequence of segments.   *)
(* "" stands for an absent attribute.  An extraction is                    *)
(* [nodes, edges, observed]: observed is the set of [id, by, what] that    *)
(* artifacts left beside the facts.                                        *)
(***************************************************************************)
EXTENDS Placeholders, Integers, FiniteSets

Param == ":id"

(* ConfigIndex: the manifest overrides the env files; among those the      *)
(* first line in path order wins.  A line without a key is skipped.        *)
Resolve(env, manifest, key) ==
    LET lines == FlattenSeq([i \in DOMAIN env |-> env[i].lines])
        first == SelectInSeq(lines, LAMBDA l : l.key = key)
    IN  CASE key \in DOMAIN manifest -> {manifest[key]}
          [] key \notin DOMAIN manifest /\ first # 0 -> {lines[first].value}
          [] OTHER -> {}

NameValues(name, env, manifest) ==
    CASE name.as = "literal" -> {name.of}
      [] name.as = "env" -> Resolve(env, manifest, name.of)
      [] OTHER -> {}

SiteEv(site, commit) == {[path |-> site.path, commit |-> commit]}
SiteGap(scheme, site) == <<"gap", scheme, site.path, site.at>>

RoleLabel(site) == IF site.role = "produces" THEN "PUBLISHES" ELSE "SUBSCRIBES"

(* stitch: a channel per resolved name, cited by its first site, and a gap *)
(* per site whose name does not resolve.                                   *)
Stitch(sites, env, manifest, commit) ==
    LET named(i) == NameValues(sites[i].name, env, manifest)
        chan(i) == {<<"chan", sites[i].kind, v>> : v \in named(i)}
        found == UNION {chan(i) : i \in DOMAIN sites}
        first(c) == CHOOSE i \in DOMAIN sites : c \in chan(i) /\ \A k \in DOMAIN sites : c \in chan(k) => i <= k
        open == {i \in DOMAIN sites : named(i) = {}}
    IN  [nodes |-> InSomeOrder({NodeFact(SiteGap("chan", sites[i]), "Gap", SiteEv(sites[i], commit)) : i \in open})
                   \o InSomeOrder({NodeFact(c, "Confirmed", SiteEv(sites[first(c)], commit)) : c \in found}),
         edges |-> UNION {{EdgeFact(sites[i].src, RoleLabel(sites[i]), c, "Confirmed", SiteEv(sites[i], commit)) : c \in chan(i)} : i \in DOMAIN sites}
                   \cup {EdgeFact(sites[i].src, RoleLabel(sites[i]), SiteGap("chan", sites[i]), "Gap", SiteEv(sites[i], commit)) : i \in open}]

(* url_path: an absolute URL without a path is "/"; a query is no part.    *)
UrlPath(url) == IF url.segs = <<>> THEN <<"", "">> ELSE url.segs

RouteMatches(pattern, concrete) ==
    /\ Len(pattern) = Len(concrete)
    /\ \A i \in DOMAIN pattern : pattern[i] = concrete[i] \/ (pattern[i] = Param /\ concrete[i] # "")

(* The endpoint of a fetch: the only one that answers its method and path. *)
(* endpoints is a list: two nodes of one id are two candidates.            *)
FetchTarget(site, endpoints, env, manifest) ==
    UNION {LET hits == SelectSeq(endpoints, LAMBDA e : e[2] = site.method /\ RouteMatches(e[3], UrlPath(u)))
           IN  IF site.method # "?" /\ Len(hits) = 1 THEN {hits[1]} ELSE {} : u \in NameValues(site.name, env, manifest)}

StitchFetches(sites, endpoints, env, manifest, commit) ==
    LET hit(s) == FetchTarget(s, endpoints, env, manifest)
        open == {s \in ToSet(sites) : hit(s) = {}}
    IN  [nodes |-> InSomeOrder({NodeFact(SiteGap("fetch", s), "Gap", SiteEv(s, commit)) : s \in open}),
         edges |-> UNION {{EdgeFact(s.src, "FETCHES", e, "Confirmed", SiteEv(s, commit)) : e \in hit(s)} : s \in ToSet(sites)}
                   \cup {EdgeFact(s.src, "FETCHES", SiteGap("fetch", s), "Gap", SiteEv(s, commit)) : s \in open}]

-----------------------------------------------------------------------------
(* walk_module: the scalar values of a resource; what the provider marks   *)
(* sensitive is replaced before it is kept.                                *)
RedactedMark == "[redacted]"
StateValues(resource) ==
    {[key |-> v.key, value |-> IF v.sensitive THEN RedactedMark ELSE v.value] : v \in {v \in resource.values : v.scalar}}

(* redact_pulumi_value: a secret wrapper hides everything under it.  A     *)
(* value is the set of its leaves, each with the wrapper above it, if any. *)
PulumiValues(leaves) ==
    {IF l.wrapper = <<>> THEN [key |-> l.key, value |-> l.value]
     ELSE [key |-> l.wrapper, value |-> RedactedMark] : l \in leaves}

(* pulumi_resource and collect_pulumi_resources: deletions, stacks and     *)
(* providers are passed over; the last entry of a urn is kept.             *)
DeployedResources(entries) ==
    LET kept == SelectSeq(entries, LAMBDA e : ~e.delete /\ e.kind = "resource")
    IN  {kept[i] : i \in {i \in DOMAIN kept : \A k \in DOMAIN kept : kept[k].urn = kept[i].urn => k <= i}}

(* A state is a sequence of modules in walk order; the last resource of an *)
(* address is the one observed.                                            *)
StateResource(state, address) ==
    LastOf(FlattenSeq([i \in DOMAIN state |-> state[i].resources]), LAMBDA r : r.address = address)
StateModule(state, address) ==
    LastOf(state, LAMBDA m : m.address = address)

(* enrich_resources: an address of the state is observed; a placeholder    *)
(* that the state knows, as a resource or as a module, is one no longer.   *)
StateSees(node, state) ==
    IF node.label # "Resource" THEN {}
    ELSE LET seen == {StateValues(r) : r \in StateResource(state, node.id[2])}
         IN  IF seen = {} /\ node.ph THEN {{[key |-> "module_resources", value |-> Len(m.resources)]} : m \in StateModule(state, node.id[2])}
             ELSE seen

EnrichResources(x, state) ==
    LET ev == {[path |-> <<"state">>, commit |-> 0]}
        after(n) == IF StateSees(n, state) # {} /\ n.ph
                    THEN [n EXCEPT !.ph = FALSE, !.boundary = "none", !.conf = "Confirmed", !.ev = ev]
                    ELSE n
    IN  [x EXCEPT !.nodes = [i \in DOMAIN @ |-> after(@[i])],
                  !.observed = @ \cup UNION {{[id |-> n.id, by |-> "state", what |-> v] : v \in StateSees(n, state)} : n \in ToSet(x.nodes)}]

(* enrich_pulumi_resources: one deployed resource of that type and name.   *)
EnrichPulumiResources(x, entries) ==
    LET deployed(n) == {r \in DeployedResources(entries) : <<"pulumi", r.type, r.name>> = n.id[2]}
        seen == {n \in ToSet(x.nodes) : n.label = "Resource" /\ Cardinality(deployed(n)) = 1}
    IN  [x EXCEPT !.observed = @ \cup {[id |-> n.id, by |-> "pulumi", what |-> UNION {PulumiValues(r.values) : r \in deployed(n)}] : n \in seen}]

-----------------------------------------------------------------------------
(* parse_otlp_jsonl: a span without an id is passed over.                  *)
Spans(trace) == SelectSeq(trace, LAMBDA s : s.id # "")

(* observed_channel: kind is what the messaging system maps to.            *)
ObservesChannel(span, kind) == span.kind = kind /\ span.destination # ""

(* paths_match: an observed path may have directories in front.            *)
PathsMatch(observed, source) == IsSuffix(source, observed)

(* enrich_http_endpoints: the only endpoint node of that method and route, *)
(* unless a trace has observed it already.                                 *)
EnrichHttpEndpoints(x, trace) ==
    LET one(y, s) ==
            LET matching == {i \in DOMAIN y.nodes : y.nodes[i].id = <<"ep", s.method, s.route>>}
                known == \E o \in y.observed : o.id = <<"ep", s.method, s.route>> /\ o.by = "otel"
            IN  IF s.method = "" \/ Cardinality(matching) # 1 \/ known THEN y
                ELSE [y EXCEPT !.observed = @ \cup {[id |-> <<"ep", s.method, s.route>>, by |-> "otel", what |-> {[key |-> "span", value |-> s.id]}]}]
    IN  FoldLeft(one, x, Spans(trace))

(* Faulty variant: a trace without code locations settles every gap.       *)
CandidatesAnywhere(gap, gaps, trace) ==
    SelectSeq(Spans(trace), LAMBDA s : ObservesChannel(s, gap.kind) /\ (s.file = <<>> \/ PathsMatch(s.file, gap.path)))

(* The spans that may fill a channel gap: those of its source file if the  *)
(* trace locates any span of that kind; all of them, without locations,    *)
(* if it is the only gap of its kind.                                      *)
Candidates(gap, gaps, trace) ==
    LET same == SelectSeq(Spans(trace), LAMBDA s : ObservesChannel(s, gap.kind))
        located == \E i \in DOMAIN same : same[i].file # <<>>
        alone == Cardinality({g \in gaps : g.kind = gap.kind}) = 1
    IN  CASE located -> SelectSeq(same, LAMBDA s : s.file # <<>> /\ PathsMatch(s.file, gap.path))
          [] ~located /\ alone -> same
          [] OTHER -> <<>>

(* apply_trace: a gap that one identity fills becomes a channel; its edges *)
(* move to it and cite the trace.  kinds gives the channel kind of a gap.  *)
ApplyTrace(x, trace, kinds) ==
    LET gaps == {[id |-> n.id, kind |-> kinds[n.id], path |-> n.id[3]] :
                    n \in {n \in ToSet(x.nodes) : n.label = "Gap" /\ n.id \in DOMAIN kinds}}
        seen(g) == {s.destination : s \in ToSet(Candidates(g, gaps, trace))}
        filled == {g \in gaps : Cardinality(seen(g)) = 1}
        chan(g) == <<"chan", g.kind, CHOOSE v \in seen(g) : TRUE>>
        ev == {[path |-> <<"trace">>, commit |-> 0]}
        known == {n.id : n \in ToSet(x.nodes)}
        y == EnrichHttpEndpoints(x, trace)
        moved(e) == {g \in filled : g.id = e.dst}
    IN  [y EXCEPT !.nodes = SelectSeq(@, LAMBDA n : n.id \notin {g.id : g \in filled})
                            \o InSomeOrder({NodeFact(c, "Confirmed", ev) : c \in {chan(g) : g \in filled} \ known}),
                  !.edges = {e \in @ : moved(e) = {}}
                            \cup UNION {{EdgeFact(e.src, e.label, chan(g), "Confirmed", ev) : g \in moved(e)} : e \in @}]
=============================================================================
