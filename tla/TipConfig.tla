----------------------------- MODULE TipConfig -----------------------------
(***************************************************************************)
(* The policy of the tip queue: system defaults, defaults per schema,      *)
(* overrides per source and overrides per source and schema, with the      *)
(* setters the administrators' pinning API and the embedding program call, *)
(* and ResolveConfig, which merges them for one tip.  Every method holds   *)
(* the configuration's mutex.                                              *)
(***************************************************************************)
EXTENDS Naturals

CONSTANTS
    Schemas,        \* schema types tips are about
    Peers,          \* sources of tips
    SchemaConfigs,  \* per-schema settings that may be set
    SourceConfigs,  \* source overrides SetSourceOverride may be given
    SystemDefault,  \* DefaultAutoFetch, DefaultAutoPin, DefaultTTL, DefaultPriority
    Nil             \* an absent map entry or a nil pointer

SchemaConfig == [autoFetch : BOOLEAN, autoPin : BOOLEAN, ttl : Nat, priority : Nat]
SourceConfig ==
    [trusted         : BOOLEAN,
     autoFetch       : BOOLEAN \cup {Nil},
     autoPin         : BOOLEAN \cup {Nil},
     ttl             : Nat \cup {Nil},
     schemaOverrides : [Schemas -> SchemaConfigs \cup {Nil}]]

ASSUME TipConfigAssumption ==
    /\ SchemaConfigs \subseteq SchemaConfig
    /\ SystemDefault \in SchemaConfig
    /\ SourceConfigs \subseteq SourceConfig
    /\ Nil \notin SchemaConfig \cup BOOLEAN \cup Nat

VARIABLES
    schemaDefaults,  \* SchemaDefaults
    sources          \* SourceOverrides

configVars == <<schemaDefaults, sources>>

ConfigTypeOK ==
    /\ schemaDefaults \in [Schemas -> SchemaConfigs \cup {Nil}]
    /\ sources \in [Peers -> SourceConfig \cup {Nil}]

ConfigInit ==
    /\ schemaDefaults = [s \in Schemas |-> Nil]
    /\ sources = [p \in Peers |-> Nil]

NoOverrides == [s \in Schemas |-> Nil]
EmptySource ==
    [trusted |-> FALSE, autoFetch |-> Nil, autoPin |-> Nil, ttl |-> Nil,
     schemaOverrides |-> NoOverrides]
-----------------------------------------------------------------------------
(* ResolveConfig applies the four layers one after the other, the weakest  *)
(* first.                                                                  *)
WithTrust(c, t) ==
    [autoFetch |-> c.autoFetch, autoPin |-> c.autoPin, ttl |-> c.ttl,
     priority |-> c.priority, trusted |-> t]

AfterSchemaDefaults(s) ==
    IF schemaDefaults[s] # Nil THEN schemaDefaults[s] ELSE SystemDefault

OrElse(x, default) == IF x # Nil THEN x ELSE default

AfterSource(c, source) ==
    [c EXCEPT !.autoFetch = OrElse(source.autoFetch, @),
              !.autoPin   = OrElse(source.autoPin, @),
              !.ttl       = OrElse(source.ttl, @)]

\* Mutant: the override for a source and schema is applied before the source's.
SourceLast(p, s) ==
    LET base == AfterSchemaDefaults(s)
        source == sources[p] IN
    IF source = Nil
      THEN WithTrust(base, FALSE)
      ELSE WithTrust(AfterSource(OrElse(source.schemaOverrides[s], base), source),
                     source.trusted)

ResolveConfig(p, s) ==
    LET base == AfterSchemaDefaults(s)
        source == sources[p] IN
    IF source = Nil
      THEN WithTrust(base, FALSE)
      ELSE WithTrust(OrElse(source.schemaOverrides[s], AfterSource(base, source)),
                     source.trusted)
-----------------------------------------------------------------------------
SetSchemaDefault(s, c) ==
    /\ schemaDefaults' = [schemaDefaults EXCEPT ![s] = c]
    /\ UNCHANGED sources

SetSourceOverride(p, c) ==
    /\ sources' = [sources EXCEPT ![p] = c]
    /\ UNCHANGED schemaDefaults

SetSourceSchemaOverride(p, s, c) ==
    /\ sources' = [sources EXCEPT ![p] = [OrElse(@, EmptySource) EXCEPT !.schemaOverrides[s] = c]]
    /\ UNCHANGED schemaDefaults

\* Mutant: a source without an entry gets one that is not initialised.
TrustUnset(p) ==
    /\ sources' = [sources EXCEPT ![p] = IF @ = Nil THEN [trusted |-> TRUE]
                                                 ELSE [@ EXCEPT !.trusted = TRUE]]
    /\ UNCHANGED schemaDefaults

TrustSource(p) ==
    /\ sources' = [sources EXCEPT ![p] = [OrElse(@, EmptySource) EXCEPT !.trusted = TRUE]]
    /\ UNCHANGED schemaDefaults

\* UntrustSource, which DELETE of the pinning API calls for a trusted source.
UntrustSource(p) ==
    /\ sources[p] # Nil
    /\ sources' = [sources EXCEPT ![p].trusted = FALSE]
    /\ UNCHANGED schemaDefaults

ConfigNext ==
    \/ \E s \in Schemas, c \in SchemaConfigs : SetSchemaDefault(s, c)
    \/ \E p \in Peers :
          \/ \E c \in SourceConfigs : SetSourceOverride(p, c)
          \/ \E s \in Schemas, c \in SchemaConfigs : SetSourceSchemaOverride(p, s, c)
          \/ TrustSource(p)
          \/ UntrustSource(p)

-----------------------------------------------------------------------------
(* The values a setting may get for a source and schema, strongest first.  *)
Layers(p, s, field) ==
    LET source == sources[p]
        own == IF source = Nil THEN Nil ELSE source.schemaOverrides[s] IN
    << IF own = Nil THEN Nil ELSE own[field],
       IF source = Nil \/ field \notin DOMAIN source THEN Nil ELSE source[field],
       IF schemaDefaults[s] = Nil THEN Nil ELSE schemaDefaults[s][field],
       SystemDefault[field] >>

\* ResolveConfig's comment: "Resolution order: 1. SourceOverrides[peerID]
\* .SchemaOverrides[schemaType] ... 4. System Default* values".  After any sequence
\* of policy changes, every setting of every tip comes from the first of these
\* layers that has a value for it.
ResolvesInOrder ==
    \A p \in Peers, s \in Schemas, field \in DOMAIN SystemDefault :
        LET layers == Layers(p, s, field) IN
        \E i \in 1..4 :
            /\ layers[i] # Nil
            /\ \A j \in 1..i - 1 : layers[j] = Nil
            /\ ResolveConfig(p, s)[field] = layers[i]
=============================================================================
