--------------------------- MODULE EvidenceChain ---------------------------
(***************************************************************************)
(* The evidence files that let generated code into a build: build-decomp   *)
(* records the exact rebuild (G1.json), generate-game.sh derives the       *)
(* recompiler's configuration from it, recompiles and audits the result    *)
(* (G2-generation.json), and every compiling script first asks             *)
(* verify-generated-evidence.py whether that audit still describes what is *)
(* on the disk.                                                            *)
(*                                                                         *)
(* One developer runs one script at a time, and build-decomp.sh and        *)
(* generate-game.sh as a whole: a single script of theirs run by hand, say *)
(* the audit over the logs of a killed recompilation, is left out.  A      *)
(* script may be killed between two writes and in the middle of one, the   *)
(* ROM may be rebuilt and the allowlist edited between any two runs, and   *)
(* nothing deletes the output of an earlier generation.  A file's content  *)
(* is the thing it was derived from; a file that carries a time stamp gets *)
(* a stamp no other version in sight has, so that comparing two contents   *)
(* is comparing their digests.                                             *)
(***************************************************************************)
EXTENDS Integers

CONSTANTS
  Builds,          \* the ELFs (with their linker maps) a rebuild may produce
  Exact,           \* those whose ROM has the locked SHA-1
  Files,           \* names of generated CPU sources
  Lookup,          \* lookup.cpp, written for every configuration
  Emitted,         \* Emitted[b]: the sources N64Recomp writes for build b
  Lines,           \* diagnostic lines
  Diagnostics,     \* Diagnostics[b]: those of N64Recomp for build b
  RspDiagnostics,  \* those of RSPRecomp
  Entries,         \* allowlist entries that may ever be written
  Matches,         \* Matches[e]: the lines the pattern of e finds
  Documented,      \* the entries that have a pattern and a rationale
  Stamps,          \* time stamps
  MaxChanges,      \* bound on rebuilds, kills and edits together
  None,            \* no such file
  Torn,            \* a file whose writing was cut short
  Whole            \* a file that depends on the locked ROM only

ASSUME ChainAssumption ==
  /\ Exact \subseteq Builds
  /\ Lookup \in Files
  /\ Emitted \in [Builds -> SUBSET Files]
  /\ \A b \in Builds : Lookup \in Emitted[b] /\ Emitted[b] # {Lookup}
  /\ Diagnostics \in [Builds -> SUBSET Lines]
  /\ RspDiagnostics \subseteq Lines
  /\ Matches \in [Entries -> SUBSET Lines]
  /\ Documented \subseteq Entries
  /\ MaxChanges \in Nat
  /\ None # Torn /\ Whole \notin {None, Torn}
  /\ Builds \cap {None, Torn} = {} /\ Stamps \cap {None, Torn} = {}

VARIABLES
  job,       \* "idle", or the write the running script makes next
  changes,   \* rebuilds, kills and edits so far
  elf,       \* ref/pokemonsnap/build: ELF, map and rebuilt ROM
  allowlist, \* config/generation-warning-allowlist.json
  g1,        \* G1.json
  inventory, \* source-layout.json
  rspInventory, \* rsp-verified.json
  config,    \* snappad-us.toml
  metadata,  \* snappad_game_metadata.h
  dynamic,   \* G2-dynamic-code.json
  rspConfig, \* snappad-audio-rsp.toml
  cpu,       \* snappad_recomp_out: the configuration each source comes from
  n64Log,    \* diagnostics in n64recomp-generate.log
  rsp,       \* rsp/aspMain.cpp
  rspLog,    \* diagnostics in rsprecomp-audio-generate.log
  g2         \* G2-generation.json

inputs  == <<elf, allowlist, g1>>
derived == <<inventory, rspInventory, config, metadata, dynamic, rspConfig>>
output  == <<cpu, n64Log, rsp, rspLog>>
chain   == <<job, changes, inputs, derived, output, g2>>

Idle == "idle"
Stages == {"inventory", "config", "metadata", "dynamic", "rspInventory",
           "rspConfig", "cpu", "rsp", "audit"}

G1File == [stamp : Stamps, elf : Builds]

ChainInit ==
  /\ job = Idle /\ changes = 0
  /\ elf = None /\ allowlist \in SUBSET Entries /\ g1 = None
  /\ inventory = None /\ rspInventory = None
  /\ config = None /\ metadata = None /\ dynamic = None /\ rspConfig = None
  /\ cpu = [f \in Files |-> None] /\ n64Log = {} /\ rsp = None /\ rspLog = {}
  /\ g2 = None

Change == changes < MaxChanges /\ changes' = changes + 1
Present(file) == file # None
Intact(file) == file # None /\ file # Torn

-----------------------------------------------------------------------------
(* What the scripts ask of the files they read. *)

\* Slip: G1.json is believed without comparing the digests it records.
MutG1Current == Intact(g1)

\* G1.json certifies exactly the artifacts that are there.
G1Current == Intact(g1) /\ g1.elf = elf

\* validate_allowlist; an entry without pattern or rationale stops the audit.
AllowlistValid == allowlist \subseteq Documented

\* Slip: the audit keeps the evidence of the previous one.
MutAuditReady == AllowlistValid /\ Intact(dynamic) /\ g2 = None

\* The files audit-generation-logs.py wants to see; the review of the dynamic
\* code must be accepted, which is the only outcome that is ever written.
AuditReady ==
  /\ Present(config) /\ Present(rspConfig) /\ Present(metadata)
  /\ Present(g1) /\ Present(rsp) /\ Intact(dynamic)
  /\ Present(cpu[Lookup]) /\ \E f \in Files \ {Lookup} : Present(cpu[f])
  /\ AllowlistValid

\* The rebuilt ROM has the locked SHA-1; all exact rebuilds have the same ROM.
ExactRebuild == elf \in Exact

\* verify_g1 of audit-dynamic-code.py asks about the normalized ROM only.
G1Certifies == Intact(g1)

InventoryReady == inventory = Whole /\ ExactRebuild
RspConfigReady == G1Certifies /\ ExactRebuild /\ rspInventory = Whole

\* The script that runs next goes on to write.
Ready ==
  /\ job = "record"       => ExactRebuild
  /\ job = "config"       => G1Current
  /\ job = "dynamic"      => G1Certifies
  /\ job = "rspInventory" => InventoryReady
  /\ job = "rspConfig"    => RspConfigReady
  /\ job = "cpu"          => config \in Builds
  /\ job = "rsp"          => rspConfig = Whole
  /\ job = "audit"        => AuditReady

At(stage) == job = stage /\ Ready

\* classify_lines: a diagnostic is interpreted by exactly one entry.
Interpreted(l) ==
  \E e \in allowlist : l \in Matches[e] /\ \A o \in allowlist \ {e} : l \notin Matches[o]

\* digest and source_manifest of the files that decide about a build.
Digests ==
  [g1 |-> g1, config |-> config, rspConfig |-> rspConfig, metadata |-> metadata,
   dynamic |-> dynamic, cpu |-> cpu, rsp |-> rsp]

\* Slip: unresolved diagnostics are listed and overlooked.
MutVerifyPasses == Intact(g2) /\ g2.of = Digests

\* verify-generated-evidence.py, the gate of every script that compiles.
VerifyPasses == Intact(g2) /\ g2.unresolved = {} /\ g2.of = Digests

-----------------------------------------------------------------------------
(* The developer and build-decomp.sh. *)

\* ninja has linked; the checksum and record-g1-evidence.py come next.
Rebuild ==
  /\ job = Idle /\ Change
  /\ elf' \in Builds /\ job' = "record"
  /\ UNCHANGED <<allowlist, g1, derived, output, g2>>

\* Slip: without a time stamp the evidence of equal rebuilds is equal.
MutFreshFor(old, audited) == Stamps

\* generatedAtUtc: a stamp that neither the file nor the audit of it has.
FreshFor(old, audited) == Stamps \ {old, audited}

AuditedG1 == IF Intact(g2) /\ Intact(g2.of.g1) THEN g2.of.g1.stamp ELSE None
AuditedDynamic == IF Intact(g2) THEN g2.of.dynamic ELSE None

RecordG1 ==
  /\ At("record")
  /\ \E s \in FreshFor(IF Intact(g1) THEN g1.stamp ELSE None, AuditedG1) :
       g1' = [stamp |-> s, elf |-> elf]
  /\ job' = Idle
  /\ UNCHANGED <<changes, elf, allowlist, derived, output, g2>>

EditAllowlist ==
  /\ job = Idle /\ Change
  /\ \E e \in Entries : allowlist' = (allowlist \ {e}) \cup ({e} \ allowlist)
  /\ UNCHANGED <<job, elf, g1, derived, output, g2>>

-----------------------------------------------------------------------------
(* generate-game.sh: one action per write, in the order of the script. *)

StartGenerate ==
  /\ job = Idle /\ job' = "inventory"
  /\ UNCHANGED <<changes, inputs, derived, output, g2>>

WriteInventory ==
  /\ At("inventory") /\ job' = "config"
  /\ inventory' = Whole
  /\ UNCHANGED <<changes, inputs, rspInventory, config, metadata, dynamic,
                 rspConfig, output, g2>>

WriteConfig ==
  /\ At("config") /\ job' = "metadata"
  /\ config' = elf
  /\ UNCHANGED <<changes, inputs, inventory, rspInventory, metadata, dynamic,
                 rspConfig, output, g2>>

\* The second write of generate-n64recomp-config.py.
WriteMetadata ==
  /\ At("metadata") /\ job' = "dynamic"
  /\ metadata' = elf
  /\ UNCHANGED <<changes, inputs, inventory, rspInventory, config, dynamic,
                 rspConfig, output, g2>>

\* audit-dynamic-code.py: payload, caller and native hook are as reviewed.
AuditDynamicCode ==
  /\ At("dynamic") /\ job' = "rspInventory"
  /\ dynamic' \in FreshFor(dynamic, AuditedDynamic)
  /\ UNCHANGED <<changes, inputs, inventory, rspInventory, config, metadata,
                 rspConfig, output, g2>>

FinalizeRspInventory ==
  /\ At("rspInventory") /\ job' = "rspConfig"
  /\ rspInventory' = Whole
  /\ UNCHANGED <<changes, inputs, inventory, config, metadata, dynamic,
                 rspConfig, output, g2>>

WriteRspConfig ==
  /\ At("rspConfig") /\ job' = "cpu"
  /\ rspConfig' = Whole
  /\ UNCHANGED <<changes, inputs, inventory, rspInventory, config, metadata,
                 dynamic, output, g2>>

\* Slip: only the sources of this configuration are kept in the listing.
MutRecompile ==
  /\ At("cpu") /\ job' = "rsp"
  /\ cpu' = [f \in Emitted[config] |-> config]
  /\ n64Log' = Diagnostics[config]
  /\ UNCHANGED <<changes, inputs, derived, rsp, rspLog, g2>>

\* N64Recomp writes into a directory that nobody empties; tee keeps its log.
Recompile ==
  /\ At("cpu") /\ job' = "rsp"
  /\ cpu' = [f \in Files |-> IF f \in Emitted[config] THEN config ELSE cpu[f]]
  /\ n64Log' = Diagnostics[config]
  /\ UNCHANGED <<changes, inputs, derived, rsp, rspLog, g2>>

RecompileRsp ==
  /\ At("rsp") /\ job' = "audit"
  /\ rsp' = Whole /\ rspLog' = RspDiagnostics
  /\ UNCHANGED <<changes, inputs, derived, cpu, n64Log, g2>>

\* The evidence is written, accepted or not.
AuditGeneration ==
  /\ At("audit") /\ job' = Idle
  /\ g2' = [of |-> Digests,
            interpreted |-> {l \in n64Log \cup rspLog : Interpreted(l)},
            unresolved |-> {l \in n64Log \cup rspLog : ~Interpreted(l)}]
  /\ UNCHANGED <<changes, inputs, derived, output>>

\* `set -e`: the first script that refuses ends the run.
Refuse ==
  /\ job # Idle /\ ~Ready /\ job' = Idle
  /\ UNCHANGED <<changes, inputs, derived, output, g2>>

-----------------------------------------------------------------------------
(* A script is killed: what it was writing may be cut short. *)

Cut(stage, file) == IF job = stage THEN {file, Torn} ELSE {file}

\* N64Recomp got as far as `done` and was writing `torn`.
CutOutput(done, torn) ==
  [f \in Files |-> IF f \in torn THEN Torn ELSE IF f \in done THEN config ELSE cpu[f]]

Kill ==
  /\ job # Idle /\ Ready /\ Change /\ job' = Idle
  /\ g1' \in Cut("record", g1)
  /\ inventory' \in Cut("inventory", inventory)
  /\ config' \in Cut("config", config)
  /\ metadata' \in Cut("metadata", metadata)
  /\ dynamic' \in Cut("dynamic", dynamic)
  /\ rspInventory' \in Cut("rspInventory", rspInventory)
  /\ rspConfig' \in Cut("rspConfig", rspConfig)
  /\ IF job = "cpu"
     THEN /\ \E done \in SUBSET Emitted[config] :
               \E torn \in {{}} \cup {{f} : f \in Emitted[config] \ done} :
                 cpu' = CutOutput(done, torn)
          /\ n64Log' \in SUBSET Diagnostics[config]
     ELSE UNCHANGED <<cpu, n64Log>>
  /\ rsp' \in Cut("rsp", rsp)
  /\ rspLog' \in IF job = "rsp" THEN SUBSET RspDiagnostics ELSE {rspLog}
  /\ g2' \in Cut("audit", g2)
  /\ UNCHANGED <<elf, allowlist>>

GenerateStep ==
  \/ WriteInventory \/ WriteConfig \/ WriteMetadata \/ AuditDynamicCode
  \/ FinalizeRspInventory \/ WriteRspConfig \/ Recompile \/ RecompileRsp
  \/ AuditGeneration

ChainNext ==
  \/ Rebuild \/ RecordG1 \/ EditAllowlist
  \/ StartGenerate \/ GenerateStep \/ Refuse \/ Kill

ChainSpec == ChainInit /\ [][ChainNext]_chain

-----------------------------------------------------------------------------
(* Properties. *)

DigestRecord ==
  [g1 : G1File \cup {Torn}, config : Builds \cup {Torn}, rspConfig : {Torn, Whole},
   metadata : Builds \cup {Torn}, dynamic : Stamps,
   cpu : [Files -> Builds \cup {None, Torn}], rsp : {Torn, Whole}]
AuditRecord == [of : DigestRecord, interpreted : SUBSET Lines, unresolved : SUBSET Lines]

ChainTypeOK ==
  /\ job \in Stages \cup {Idle, "record"} /\ changes \in 0..MaxChanges
  /\ elf \in Builds \cup {None} /\ allowlist \subseteq Entries
  /\ g1 \in G1File \cup {None, Torn}
  /\ inventory \in {None, Torn, Whole} /\ rspInventory \in {None, Torn, Whole}
  /\ config \in Builds \cup {None, Torn} /\ metadata \in Builds \cup {None, Torn}
  /\ dynamic \in Stamps \cup {None, Torn} /\ rspConfig \in {None, Torn, Whole}
  /\ cpu \in [Files -> Builds \cup {None, Torn}] /\ rsp \in {None, Torn, Whole}
  /\ n64Log \subseteq Lines /\ rspLog \subseteq Lines
  /\ g2 \in AuditRecord \cup {None, Torn}

\* Whatever was rebuilt, killed and repeated before: when the gate opens, the
\* metadata, the configuration and every source it calls for, complete, stem
\* from the rebuild that G1.json certifies (verify-generated-evidence.py never
\* looks at the ELF; the chain of digests has to carry this).  Sources that
\* only an older configuration called for may still lie beside them.
AcceptedIsCurrent ==
  VerifyPasses =>
    /\ Intact(g1) /\ config = g1.elf /\ metadata = g1.elf
    /\ \A f \in Emitted[g1.elf] : cpu[f] = g1.elf
    /\ rspConfig = Whole /\ rsp = Whole

\* When the gate opens, each diagnostic that the recompilers print for the
\* certified rebuild had exactly one documented interpretation when it was
\* audited; no run that was cut short and no truncated log gets by.
AcceptedIsInterpreted ==
  VerifyPasses => Diagnostics[g1.elf] \cup RspDiagnostics \subseteq g2.interpreted

\* An audit that new G1 or dynamic-code evidence has overtaken is not revived
\* by any later rebuild or interrupted run, only replaced by a new audit.
OvertakenAuditIsDead ==
  [][Intact(g2) /\ g2' = g2 =>
       /\ g2.of.g1 # g1 => g2'.of.g1 # g1'
       /\ g2.of.dynamic # dynamic => g2'.of.dynamic # dynamic']_chain

\* Everything the next audit needs to accept is in place.
InputsGood ==
  /\ G1Current /\ AllowlistValid
  /\ \A l \in Diagnostics[g1.elf] \cup RspDiagnostics : Interpreted(l)

\* No torn or left-over file wedges the pipeline: generating again and again
\* from good inputs opens the gate.
GateOpens == <>[]InputsGood => []<>VerifyPasses

-----------------------------------------------------------------------------
(* The inductive invariant behind the first two properties. *)

\* generate-game.sh has passed that write.
PastConfig   == job \in {"metadata", "dynamic", "rspInventory", "rspConfig", "cpu", "rsp", "audit"}
PastMetadata == job \in {"dynamic", "rspInventory", "rspConfig", "cpu", "rsp", "audit"}
PastRspConfig == job \in {"cpu", "rsp", "audit"}
PastRecompile == job \in {"rsp", "audit"}

\* What the running script has written describes the rebuild it checked first.
JobInv ==
  /\ PastConfig => G1Current /\ config = elf
  /\ PastMetadata => metadata = elf
  /\ PastRspConfig => rspConfig = Whole
  /\ PastRecompile => n64Log = Diagnostics[elf] /\ \A f \in Emitted[elf] : cpu[f] = elf
  /\ job = "audit" => rsp = Whole /\ rspLog = RspDiagnostics

\* An audit is about one rebuild, whatever has become of its files.
AuditOf(b) ==
  /\ g2.of.config = b /\ g2.of.metadata = b
  /\ \A f \in Emitted[b] : g2.of.cpu[f] = b
  /\ g2.of.rspConfig = Whole /\ g2.of.rsp = Whole
  /\ Diagnostics[b] \cup RspDiagnostics \subseteq g2.interpreted \cup g2.unresolved

AuditInv == Intact(g2) => Intact(g2.of.g1) /\ AuditOf(g2.of.g1.elf)

IInv == ChainTypeOK /\ JobInv /\ AuditInv

=============================================================================
