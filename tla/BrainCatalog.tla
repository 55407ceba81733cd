---------------------------- MODULE BrainCatalog ----------------------------
(***************************************************************************)
(* The configuration that routes tasks to Brains: the brains table, one    *)
(* cell of the brain_map grid, the model's row in resources, and the       *)
(* deployment's Brain policy, which createController applies before the    *)
(* first request is served.                                                *)
(*                                                                         *)
(* A request is a chain of statements, and with PostgreSQL the statements  *)
(* of others fall between them; brain_map.set writes in one transaction.   *)
(* All the Brains use one model.                                           *)
(***************************************************************************)
EXTENDS Integers, Sequences, FiniteSets, SequencesExt

CONSTANTS
    BrainId,
    PolicyCell,     \* the members the policy maps the cell to, in order
    GridDefault,    \* DEFAULT_BRAIN_MAP of the cell
    InPool,         \* Brains of the cell's level
    Desk,           \* requests that are served at once
    NobodysBrain,
    MaxCatalogEdits,
    MaxBoots        \* bounds: configuration requests, and starts of the controller

MembersOf(list) == {list[i] : i \in DOMAIN list}
NoneTwice(list) == \A i, k \in DOMAIN list : i # k => list[i] # list[k]
Orders(S) == {list \in UNION {[1..n -> S] : n \in 0..Cardinality(S)} : NoneTwice(list)}

ASSUME PolicyAssumption == PolicyCell \in Orders(BrainId) /\ PolicyCell # <<>>
ASSUME GridAssumption == GridDefault \in BrainId /\ InPool \subseteq BrainId
ASSUME CatalogBounds ==
    /\ IsFiniteSet(BrainId) /\ NobodysBrain \notin BrainId
    /\ MaxCatalogEdits \in Nat /\ MaxBoots \in Nat

VARIABLES
    known,          \* rows of brains
    enabled,        \* those that are enabled
    cell,           \* the cell's members by position
    stocked,        \* the model has its row in resources
    marker,         \* brain.policy-applied is in event_log
    boot,           \* where createController is
    applied,        \* members of PolicyCell it has been through
    desk,           \* the request on each desk
    always,         \* Brains that could serve ever since that request began
    ever,           \* and those that could at some time since
    boots, catalogEdits

tableVars == <<known, enabled, cell, stocked, marker>>
bootVars == <<boot, applied, boots>>
catalogVars == <<tableVars, bootVars, desk, always, ever, catalogEdits>>

------------------------------------------------------------------------------
\* list: what it was asked for or has read; out: what it has found of that.
Inquiry == [at : {"free", "updating", "releasing", "deleting", "validating", "storing",
                  "members", "default", "pool", "answered", "blockers", "unstocking"},
            brain : BrainId \cup {NobodysBrain}, list : Orders(BrainId), out : Orders(BrainId),
            live : BOOLEAN]
NoInquiry == [at |-> "free", brain |-> NobodysBrain, list |-> <<>>, out |-> <<>>, live |-> FALSE]

CatalogTypeOK ==
    /\ known \subseteq BrainId /\ enabled \subseteq known
    /\ cell \in Orders(BrainId) /\ stocked \in BOOLEAN /\ marker \in BOOLEAN
    /\ boot \in {"seeding", "rollout", "mapping", "marking", "serving"}
    /\ applied \subseteq MembersOf(PolicyCell)
    /\ desk \in [Desk -> Inquiry]
    /\ always \in [Desk -> SUBSET BrainId] /\ ever \in [Desk -> SUBSET BrainId]
    /\ boots \in 0..MaxBoots /\ catalogEdits \in 0..MaxCatalogEdits

CatalogInit ==
    /\ known = {} /\ enabled = {} /\ cell = <<>> /\ stocked = TRUE /\ marker = FALSE
    /\ boot = "seeding" /\ applied = {}
    /\ desk = [d \in Desk |-> NoInquiry]
    /\ always = [d \in Desk |-> {}] /\ ever = [d \in Desk |-> {}]
    /\ boots = 0 /\ catalogEdits = 0

------------------------------------------------------------------------------
(* createController *)

OnlyStarts == UNCHANGED <<stocked, desk, boots, catalogEdits>>

\* Defect for the checks: the policy is for installations that are new.
OnAFreshTable == known = {}

RolloutDue == ~marker

\* The catalogue is seeded when brains is empty, row by row: a row may be refused,
\* and after a crash in the middle of it the table is not empty.
SeedBrains ==
    /\ boot = "seeding"
    /\ \E sown \in SUBSET BrainId :
          /\ known = {} \/ sown = {}
          /\ known' = known \cup sown /\ enabled' = enabled \cup sown
          /\ boot' = IF RolloutDue THEN "rollout" ELSE "serving"
    /\ UNCHANGED <<cell, marker, applied>> /\ OnlyStarts

\* Every Brain of the policy is created, or given the policy's values.
ApplyBrain(b) ==
    /\ boot = "rollout" /\ b \in MembersOf(PolicyCell) \ applied
    /\ known' = known \cup {b} /\ enabled' = enabled \cup {b}
    /\ applied' = applied \cup {b}
    /\ UNCHANGED <<cell, marker, boot>> /\ OnlyStarts

MapCells ==
    /\ boot = "rollout" /\ applied = MembersOf(PolicyCell)
    /\ cell' = PolicyCell /\ boot' = "marking"
    /\ UNCHANGED <<known, enabled, marker, applied>> /\ OnlyStarts

AppendMarker ==
    /\ boot = "marking"
    /\ marker' = TRUE /\ boot' = "serving"
    /\ UNCHANGED <<known, enabled, cell, applied>> /\ OnlyStarts

RestartAll ==
    /\ boots < MaxBoots /\ boots' = boots + 1
    /\ boot' = "seeding" /\ applied' = {}
    /\ desk' = [d \in Desk |-> NoInquiry]
    /\ UNCHANGED <<tableVars, catalogEdits>>

Startup == SeedBrains \/ (\E b \in BrainId : ApplyBrain(b)) \/ MapCells \/ AppendMarker

------------------------------------------------------------------------------
(* Requests *)

FreeDesk(d) == boot = "serving" /\ desk[d] = NoInquiry
Lay(d, request) == desk' = [desk EXCEPT ![d] = request]
GoOn(d, place) == Lay(d, [desk[d] EXCEPT !.at = place])
Clear(d) == Lay(d, NoInquiry)

Inquires == catalogEdits < MaxCatalogEdits /\ catalogEdits' = catalogEdits + 1
BeginsWith(d, request) == FreeDesk(d) /\ Inquires /\ Lay(d, request) /\ UNCHANGED <<tableVars, bootVars>>
OnlyInquires == UNCHANGED <<bootVars, catalogEdits>>

\* POST brains
CreateBrain(d) ==
    /\ FreeDesk(d) /\ Inquires
    /\ \E b \in BrainId \ known, on \in BOOLEAN :
          known' = known \cup {b} /\ enabled' = IF on THEN enabled \cup {b} ELSE enabled
    /\ UNCHANGED <<cell, stocked, marker, bootVars, desk>>

\* Defect for the checks: a row that is gone is written again.
Upserted(b) == {b}

RowsOf(b) == {b} \cap known

\* PATCH brains: the row is read, and written where its id still is.
UpdateBrain(d) ==
    \/ \E b \in known : BeginsWith(d, [NoInquiry EXCEPT !.at = "updating", !.brain = b])
    \/ /\ desk[d].at = "updating"
       /\ \E on \in SUBSET {desk[d].brain} :
             enabled' = (enabled \ {desk[d].brain}) \cup (IF on = {} THEN {} ELSE RowsOf(desk[d].brain))
       /\ Clear(d)
       /\ UNCHANGED <<known, cell, stocked, marker>> /\ OnlyInquires

\* A cell names a Brain once.
Released(list, b) ==
    IF b \in MembersOf(list) THEN RemoveAt(list, CHOOSE i \in DOMAIN list : list[i] = b) ELSE list

\* DELETE brains: its places in the map are read, cleared if there are any, and
\* then the row goes.
DeleteBrain(d) ==
    LET b == desk[d].brain IN
    \/ \E c \in known :
          BeginsWith(d, [NoInquiry EXCEPT !.at = IF c \in MembersOf(cell) THEN "releasing" ELSE "deleting",
                                    !.brain = c])
    \/ /\ desk[d].at = "releasing" /\ GoOn(d, "deleting")
       /\ cell' = Released(cell, b)
       /\ UNCHANGED <<known, enabled, stocked, marker>> /\ OnlyInquires
    \/ /\ desk[d].at = "deleting" /\ Clear(d)
       /\ known' = known \ {b} /\ enabled' = enabled \ {b}
       /\ UNCHANGED <<cell, stocked, marker>> /\ OnlyInquires

\* PUT brain-map: an empty list clears the cell; of any other each member is looked
\* up in turn, and refused if there is none, and not all may be disabled.
SetCell(d) ==
    LET r == desk[d] IN
    \/ /\ FreeDesk(d) /\ Inquires /\ cell # <<>>
       /\ cell' = <<>>
       /\ UNCHANGED <<known, enabled, stocked, marker, bootVars, desk>>
    \/ \E list \in Orders(BrainId) \ {<<>>} :
          BeginsWith(d, [NoInquiry EXCEPT !.at = "validating", !.list = list])
    \/ /\ r.at = "validating" /\ r.list # <<>>
       /\ IF Head(r.list) \in known
          THEN Lay(d, [r EXCEPT !.list = Tail(@), !.out = Append(@, Head(r.list)),
                                !.live = @ \/ Head(r.list) \in enabled])
          ELSE Clear(d)
       /\ UNCHANGED tableVars /\ OnlyInquires
    \/ /\ r.at = "validating" /\ r.list = <<>> /\ Clear(d)
       /\ cell' = IF r.live THEN r.out ELSE cell
       /\ UNCHANGED <<known, enabled, stocked, marker>> /\ OnlyInquires

------------------------------------------------------------------------------
(* resolve *)

\* Defect for the checks: the first member that can serve ends the search.
FirstIsEnough(r) == IF r.out # <<>> THEN "answered" ELSE IF r.list # <<>> THEN "members" ELSE "default"

\* When the members are through, the grid's default is next, unless one can serve.
Following(r) == IF r.list # <<>> THEN "members" ELSE IF r.out # <<>> THEN "answered" ELSE "default"

ResolveCell(d) ==
    LET r == desk[d] IN
    \/ /\ FreeDesk(d)
       /\ LET asked == [NoInquiry EXCEPT !.list = cell]
          IN Lay(d, [asked EXCEPT !.at = Following(asked)])
       /\ UNCHANGED <<tableVars, catalogEdits, bootVars>>
    \/ /\ r.at = "members"
       /\ LET b == Head(r.list)
              next == [r EXCEPT !.list = Tail(@),
                                !.out = IF b \in enabled THEN Append(@, b) ELSE @]
          IN Lay(d, [next EXCEPT !.at = Following(next)])
       /\ UNCHANGED tableVars /\ OnlyInquires
    \/ /\ r.at = "default"
       /\ IF GridDefault \in enabled
          THEN Lay(d, [r EXCEPT !.at = "answered", !.out = <<GridDefault>>])
          ELSE GoOn(d, "pool")
       /\ UNCHANGED tableVars /\ OnlyInquires
    \/ /\ r.at = "pool"
       /\ \E list \in Orders(BrainId) :
             /\ MembersOf(list) = InPool \cap enabled
             /\ Lay(d, [r EXCEPT !.at = "answered", !.out = list])
       /\ UNCHANGED tableVars /\ OnlyInquires
    \/ /\ r.at = "answered" /\ Clear(d)
       /\ UNCHANGED tableVars /\ OnlyInquires

------------------------------------------------------------------------------
(* DELETE model-map and POST resources *)

\* Defect for the checks: only the enabled Brains are listed.
EnabledBlock == enabled # {}

BrainsBlock == known # {}

\* The Brains are listed, and then the attempts counted, before the row goes.
DeleteModel(d) ==
    \/ BeginsWith(d, [NoInquiry EXCEPT !.at = "blockers"]) /\ stocked
    \/ /\ desk[d].at = "blockers"
       /\ IF BrainsBlock THEN Clear(d) ELSE GoOn(d, "unstocking")
       /\ UNCHANGED tableVars /\ OnlyInquires
    \/ /\ desk[d].at = "unstocking" /\ Clear(d)
       /\ stocked' = FALSE
       /\ UNCHANGED <<known, enabled, cell, marker>> /\ OnlyInquires

StockModel(d) ==
    /\ FreeDesk(d) /\ ~stocked /\ Inquires
    /\ stocked' = TRUE
    /\ UNCHANGED <<known, enabled, cell, marker, bootVars, desk>>

------------------------------------------------------------------------------
ServeDesk(d) ==
    \/ CreateBrain(d) \/ UpdateBrain(d) \/ DeleteBrain(d) \/ SetCell(d)
    \/ ResolveCell(d) \/ DeleteModel(d) \/ StockModel(d)

\* Brains that matter to a deletion of the model, or to a resolution of the cell.
CanServe(r) == IF r.at \in {"blockers", "unstocking"} THEN known ELSE enabled \cap MembersOf(cell)

\* History for the properties.
Witness ==
    /\ always' = [d \in Desk |->
          IF desk'[d] = NoInquiry THEN {}
          ELSE IF desk[d] = NoInquiry THEN CanServe(desk[d])'
          ELSE always[d] \cap CanServe(desk[d])']
    /\ ever' = [d \in Desk |->
          IF desk'[d] = NoInquiry THEN {}
          ELSE IF desk[d] = NoInquiry THEN enabled' ELSE ever[d] \cup enabled']

CatalogNext == (Startup \/ RestartAll \/ \E d \in Desk : ServeDesk(d)) /\ Witness

CatalogSpec == CatalogInit /\ [][CatalogNext]_catalogVars

------------------------------------------------------------------------------
(* Properties *)

\* A resolution reads the cell and then its Brains one by one.  Whatever was
\* edited meanwhile, a member that could serve all along is among its candidates,
\* and nothing it names was disabled all along. (resolve)
ResolvesWhatStands ==
    \A d \in Desk : desk[d].at = "answered" =>
        /\ always[d] \subseteq MembersOf(desk[d].out)
        /\ MembersOf(desk[d].out) \subseteq ever[d]

\* A model's row goes only from under Brains that were not there when its deletion
\* was asked for, or no longer are. (modelDeleteBlockers)
NoBrainLosesItsModel ==
    [][\A d \in Desk : stocked /\ ~stocked' /\ desk[d].at = "unstocking" => always[d] \cap known' = {}]_catalogVars

\* The first request finds the policy whole, whatever crashes came before: every
\* Brain of it there and enabled, and the cell in its order. (createController)
PolicyIsWhole ==
    boot = "serving" /\ catalogEdits = 0 =>
        cell = PolicyCell /\ MembersOf(PolicyCell) \subseteq enabled
==============================================================================
