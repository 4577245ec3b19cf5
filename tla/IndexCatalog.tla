---------------------------- MODULE IndexCatalog ----------------------------
(***************************************************************************)
(* The indexes of a table: their operator classes, their WITH options and  *)
(* the parameters that a build takes from both (src/index_am/options.rs).  *)
(*                                                                         *)
(* Options reach a build only.  An ALTER INDEX changes the catalog, and    *)
(* the stored graph keeps the header it was built with.                    *)
(***************************************************************************)
EXTENDS Metric, HnswParams

CONSTANTS
  Indexes,   \* names
  NoIndex,
  WithLists  \* WITH lists: functions from some of "m", "gamma", "ef" to values

OptionNames == {"m", "gamma", "ef"}

ASSUME OptionAssumption ==
  /\ <<>> \in WithLists
  /\ \A with \in WithLists : DOMAIN with \subseteq OptionNames

VARIABLE indexes

MIN_M == 2
MIN_EF_CONSTRUCTION == 4
MAX_EF_CONSTRUCTION == 1000

OptionRange ==
  [m |-> MIN_M .. MAX_M, gamma |-> 4 .. MAX_GAMMA,
   ef |-> MIN_EF_CONSTRUCTION .. MAX_EF_CONSTRUCTION]

\* build_reloptions fills in the options not given.
ParsedOptions(with) ==
  [name \in OptionNames |-> IF name \in DOMAIN with THEN with[name]
                                     ELSE DefaultParams[name]]

\* Variant of ExcessiveDegree: the cap of the upper layers is checked.
ExcessiveDegreeUpper(options) == options.m * options.gamma > 4 * MAX_LAYER0_DEGREE

\* reject_excessive_degree: 2 * m * gamma, gamma in quarters.
ExcessiveDegree(options) == 2 * options.m * options.gamma > 4 * MAX_LAYER0_DEGREE

\* amoptions with validate: what CREATE and ALTER INDEX accept.
OptionsAccepted(with) ==
  /\ \A name \in DOMAIN with : with[name] \in OptionRange[name]
  /\ with # <<>> => ~ExcessiveDegree(ParsedOptions(with))

\* Variant of BuildParams: with options, the metric is the default's.
BuildParamsDropMetric(opclass, with) ==
  IF with = <<>> THEN [DefaultParams EXCEPT !.metric = IndexMetric(opclass)]
  ELSE [m |-> ParsedOptions(with).m, gamma |-> ParsedOptions(with).gamma,
        ef |-> ParsedOptions(with).ef, metric |-> DefaultParams.metric]

\* build_params: an empty WITH list leaves rd_options NULL.
BuildParams(opclass, with) ==
  LET defaults == [DefaultParams EXCEPT !.metric = IndexMetric(opclass)]
      options == ParsedOptions(with)
  IN IF with = <<>> THEN defaults
     ELSE [defaults EXCEPT !.m = options.m, !.gamma = options.gamma, !.ef = options.ef]

\* An index as ambuild leaves it.
Built(opclass, with) ==
  [opclass |-> opclass, with |-> with, header |-> NewHeader(BuildParams(opclass, with))]

Existing == {i \in Indexes : indexes[i] # NoIndex}

CreateIndex(i, opclass, with) ==
  /\ indexes[i] = NoIndex /\ OptionsAccepted(with)
  /\ indexes' = [indexes EXCEPT ![i] = Built(opclass, with)]

\* ALTER INDEX ... SET replaces the options that it names.
AlterIndex(i, with) ==
  LET merged == [name \in DOMAIN indexes[i].with \cup DOMAIN with |->
                   IF name \in DOMAIN with THEN with[name] ELSE indexes[i].with[name]] IN
  /\ i \in Existing /\ OptionsAccepted(merged)
  /\ indexes' = [indexes EXCEPT ![i].with = merged]

Reindex(i) ==
  /\ i \in Existing
  /\ indexes' = [indexes EXCEPT ![i] = Built(@.opclass, @.with)]

DropIndex(i) ==
  /\ i \in Existing
  /\ indexes' = [indexes EXCEPT ![i] = NoIndex]

IndexTypeOK ==
  \A i \in Existing : /\ indexes[i].opclass \in Opclasses
                      /\ indexes[i].header.metric \in Metrics

\* No index that exists can fail to decode: what CREATE and ALTER INDEX accept, and a
\* build makes of it, the decoder accepts too (HnswParams::MAX_M, amoptions).
IndexesCanBeRead == \A i \in Existing : HeaderAccepted(indexes[i].header)
=============================================================================
