-------------------------- MODULE StructuredPipeline --------------------------
(***************************************************************************)
(* A pipeline statement on the structured path: pipeline_identity.c gives  *)
(* its name the packet the yield exposes, pipeline_stage.c checks every    *)
(* stage, and pipeline_lower.c publishes the parent module's records.      *)
(*                                                                         *)
(* Fields are read by name wherever the text of an item or of the yield    *)
(* spells one; any other name is an external read.                         *)
(***************************************************************************)
EXTENDS Integers, Sequences, FiniteSets, FiniteSetsExt, SequencesExt

CONSTANTS
    Pipelines,          \* fields (a list of names and widths), stages (lists of
                        \* items: the name written, the names read in order)
                        \* and the names the yield reads, in order
    Limit               \* PIGEN_STAGE_MAX_READS and PIGEN_PIPELINE_MAX


VARIABLES
    phase,              \* establishing, checking, lowering, lowered or rejected
    pipeline,
    packet,             \* the width of the established packet
    views,              \* the execution-law views of the stages checked so far
    rtl                 \* what is published: the width of the packet object and
                        \* its members, the stage boundaries and the stages' equations

vars == <<phase, pipeline, packet, views, rtl>>

Unpublished == [width |-> 0, members |-> << >>, boundaries |-> 0, equations |-> 0]

-----------------------------------------------------------------------------
Sum(widths) == FoldSeq(LAMBDA w, total : w + total, 0, widths)

Names == {f.name : f \in Range(pipeline.fields)}

\* The loops over the names of a span: those of the list that are wanted, in its order.
\* (What SelectSeq gives, as a function on the places of the list.)
Only(list, wanted) ==
    LET upto[n \in 0 .. Len(list)] ==
            IF n = 0 THEN << >>
            ELSE IF list[n] \in wanted THEN Append(upto[n - 1], list[n]) ELSE upto[n - 1]
    IN  upto[Len(list)]

\* field_node_for.
FirstDeclared(name) ==
    pipeline.fields[Min({i \in DOMAIN pipeline.fields : pipeline.fields[i].name = name})]

WidthOf(name) == FirstDeclared(name).width

MemberWidths(names) == [i \in DOMAIN names |-> WidthOf(names[i])]

IsField(name) == name \in Names

\* At most Limit of a list are kept.
Kept(list) == SubSeq(list, 1, IF Len(list) < Limit THEN Len(list) ELSE Limit)

\* Mutant: the fields a stage writes itself count as produced before it.
ProducedThrough(k) ==
    Kept(FlattenSeq([s \in 1 .. k |-> [i \in DOMAIN pipeline.stages[s] |->
                                          pipeline.stages[s][i].to]]))

\* collect_produced_fields: what the stages before the k-th write.
Produced(k) ==
    Kept(FlattenSeq([s \in 1 .. k - 1 |-> [i \in DOMAIN pipeline.stages[s] |->
                                              pipeline.stages[s][i].to]]))

\* pigen_pipeline_stage_laws of the k-th stage.
FieldReads(k) == FlattenSeq([i \in DOMAIN pipeline.stages[k] |->
                                Only(pipeline.stages[k][i].reads, Names)])
ExternalReads(k) == FlattenSeq([i \in DOMAIN pipeline.stages[k] |->
                        LET reads == pipeline.stages[k][i].reads
                        IN  Only(reads, Range(reads) \ Names)])
Writes(k) == [i \in DOMAIN pipeline.stages[k] |-> pipeline.stages[k][i].to]

View(k) == [writes |-> Len(Writes(k)), reads |-> Len(ExternalReads(k)),
            in |-> Sum(MemberWidths(FieldReads(k))), out |-> Sum(MemberWidths(Writes(k)))]

Lawful(k) ==
    /\ Writes(k) # << >>
    /\ \A name \in Range(Writes(k)) : IsField(name)
    /\ IF k = 1 THEN FieldReads(k) = << >>
       ELSE /\ Range(FieldReads(k)) \subseteq Range(Produced(k))
            /\ View(k).in = View(k).out

\* yield_members: every name of the yield that is a field, in the yield's order.
Members == Kept(Only(pipeline.yield, Names))

\* The declared fields the yield reads, in the order of their declarations.
Yielded == Only(pipeline.fields,
                {f \in Range(pipeline.fields) : f.name \in Range(pipeline.yield)})

-----------------------------------------------------------------------------
Init == /\ phase = "establishing"
        /\ pipeline \in Pipelines
        /\ packet = 0
        /\ views = << >>
        /\ rtl = Unpublished

\* pigen_pipeline_identifier_establish.
Establish ==
    /\ phase = "establishing"
    /\ packet' = Sum([i \in DOMAIN Yielded |-> Yielded[i].width])
    /\ phase' = IF packet' = 0 THEN "rejected" ELSE "checking"
    /\ UNCHANGED <<pipeline, views, rtl>>

\* lower_pipeline, up to the laws: one stage of the first Limit.
CheckStage ==
    /\ phase = "checking"
    /\ LET k == Len(views) + 1
       IN IF Members # << >> /\ pipeline.stages # << >> /\ Lawful(k)
          THEN /\ views' = Append(views, View(k))
               /\ phase' = IF k = Len(Kept(pipeline.stages)) THEN "lowering" ELSE "checking"
          ELSE phase' = "rejected" /\ UNCHANGED views
    /\ UNCHANGED <<pipeline, packet, rtl>>

\* The packet object, wide enough for its members.
PacketWidth == Sum(MemberWidths(Members))

\* lower_pipeline, from the module record on: the packet object with its members,
\* a buf before every stage but the first, an equation of the packet per stage.
Lower ==
    /\ phase = "lowering"
    /\ rtl' = [width |-> PacketWidth, members |-> Members,
               boundaries |-> Len(Kept(pipeline.stages)) - 1,
               equations |-> Len(Kept(pipeline.stages))]
    /\ phase' = "lowered"
    /\ UNCHANGED <<pipeline, packet, views>>

Next == Establish \/ CheckStage \/ Lower

Spec == Init /\ [][Next]_vars

-----------------------------------------------------------------------------
\* No more stages, and no more fields in the yield, than are kept.
WithinLimits == Len(pipeline.stages) <= Limit /\ Len(Only(pipeline.yield, Names)) <= Limit

\* Whatever field a stage of a lowered pipeline reads holds a value by then: a
\* stage before it wrote the field, be it the last or a much earlier one.  The
\* packet the module is told of and the packet it is given have one width, as long
\* as no field is declared or yielded twice.
LoweredAsDeclared ==
    phase = "lowered" /\ WithinLimits =>
        /\ \A k \in DOMAIN pipeline.stages : \A name \in Range(FieldReads(k)) :
              \E s \in 1 .. k - 1 : name \in Range(Writes(s))
        /\ IsInjective(Members) /\ Cardinality(Names) = Len(pipeline.fields)
           => rtl.width = packet
=============================================================================
