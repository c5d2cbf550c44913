----------------------------- MODULE NativeBuilder -----------------------------
(***************************************************************************)
(* The Builder classes that make a native DOCA object, configure it and    *)
(* hand it over: MemoryMap::Builder (core/mmap.cpp), RdmaEngine::Builder   *)
(* (rdma_engine.cpp) and BufferInventory::Builder (core/buffer.cpp).  Each *)
(* call of DOCA may fail; the first error is kept, the calls after it are  *)
(* skipped, and Start() or Build() returns it.                             *)
(*                                                                         *)
(* One builder exists at a time, as a temporary of the expression that     *)
(* creates it; the module is a part of RdmaResources.                      *)
(***************************************************************************)
EXTENDS Naturals, Sequences

VARIABLE builder

Natives == {"none", "held", "given", "destroyed"}

(* The setters of each kind, in the order in which they are called.        *)
Chain ==
    [none      |-> << >>,
     mmap      |-> <<"AddDevice", "SetMemoryRange", "SetPermissions">>,
     rdma      |-> <<"SetTransportType", "SetGidIndex", "SetPermissions",
                     "SetMaxNumConnections">>,
     inventory |-> << >>]

Settings(kind) == {Chain[kind][i] : i \in DOMAIN Chain[kind]}
AllSettings    == UNION {Settings(kind) : kind \in DOMAIN Chain}

(* What a builder knows: its pointer, buildErr, the device AddDevice got,  *)
(* and how many setters were called; `applied' are those DOCA accepted.    *)
NoBuilder ==
    [kind |-> "none", native |-> "none", calls |-> 0, applied |-> {}, buildErr |-> FALSE,
     device |-> FALSE, result |-> "none"]

Building(kind) == builder.kind = kind /\ builder.result = "none"
Configured     == builder.calls = Len(Chain[builder.kind])

-----------------------------------------------------------------------------
(* Create(): a creation that fails gives a builder of nothing.             *)
Creates(kind) ==
    /\ builder.kind = "none"
    /\ \E native \in {"none", "held"} :
         builder' = [NoBuilder EXCEPT !.kind = kind, !.native = native]

CreateMap       == Creates("mmap")
CreateRdma      == Creates("rdma")
CreateInventory == Creates("inventory")

(* Mutation: an accepted call clears the error of an earlier one.          *)
LastErrorCounts(setting) ==
    \E accepted \in BOOLEAN :
        builder' = [builder EXCEPT
            !.calls = @ + 1,
            !.buildErr = ~accepted,
            !.applied = IF accepted THEN @ \cup {setting} ELSE @,
            !.device = @ \/ setting = "AddDevice"]

(* A setter; AddDevice stores the device also when DOCA refuses it.        *)
Sets(setting) ==
    IF builder.native # "held" \/ builder.buildErr
      THEN builder' = [builder EXCEPT !.calls = @ + 1]
      ELSE \E accepted \in BOOLEAN :
             builder' = [builder EXCEPT
                 !.calls = @ + 1,
                 !.buildErr = ~accepted,
                 !.applied = IF accepted THEN @ \cup {setting} ELSE @,
                 !.device = @ \/ setting = "AddDevice"]

Configure(kind) ==
    /\ Building(kind)
    /\ ~Configured
    /\ Sets(Chain[kind][builder.calls + 1])

ConfigureMap  == Configure("mmap")
ConfigureRdma == Configure("rdma")

Fails  == builder' = [builder EXCEPT !.result = "error"]
Undone == builder' = [builder EXCEPT !.result = "error", !.native = "destroyed"]
Given  == builder' = [builder EXCEPT !.result = "object", !.native = "given"]

(* Start() and Build(): after an error the native object is destroyed.     *)
StartMap ==
    /\ Building("mmap")
    /\ Configured
    /\ CASE builder.buildErr -> IF builder.native = "held" THEN Undone ELSE Fails
         [] ~builder.buildErr /\ (builder.native # "held" \/ ~builder.device) -> Fails
         [] OTHER -> Given \/ Undone

BuildRdma ==
    /\ Building("rdma")
    /\ Configured
    /\ CASE builder.buildErr -> IF builder.native = "held" THEN Undone ELSE Fails
         [] ~builder.buildErr /\ builder.native # "held" -> Fails
         [] OTHER -> Given

StartInventory ==
    /\ Building("inventory")
    /\ IF builder.native = "held" THEN Given \/ Undone ELSE Fails

(* The temporary goes at the end of its expression, with what it still has.*)
Drop(kind) ==
    /\ builder.kind = kind
    /\ builder.result # "none"
    /\ builder' = NoBuilder

DropMap       == Drop("mmap")
DropRdma      == Drop("rdma")
DropInventory == Drop("inventory")

-----------------------------------------------------------------------------
BuilderType ==
    builder \in [kind : DOMAIN Chain, native : Natives, calls : 0 .. 4,
                 applied : SUBSET AllSettings, buildErr : BOOLEAN, device : BOOLEAN,
                 result : {"none", "object", "error"}]

(* A chain of calls hands over an object with every setting made, or ends  *)
(* with an error and leaves no native object behind, wherever it failed.   *)
AllOrNothing ==
    /\ builder.result = "object" =>
         builder.native = "given" /\ builder.applied = Settings(builder.kind)
    /\ builder.result = "error" => builder.native \in {"none", "destroyed"}
    /\ builder.native = "given" => builder.result = "object"
=============================================================================
