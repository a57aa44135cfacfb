------------------------------ MODULE BenchProfile ------------------------------
(***************************************************************************)
(* The bandwidth profile: "ft bench bw" measures a card and writes it      *)
(* (moe/benchbw.py), a server that starts reads it to pick the MoE backend *)
(* and the hybrid fetch fraction (moe/bench_profile.py).                   *)
(*                                                                         *)
(* The file is opened, which empties it, and then written; a bench may die *)
(* in between.  Cards are exchanged; the name and the uuid of a card may   *)
(* be shared or unknown.  A timer may give no number for a half or for the *)
(* overlapped pair.  Bandwidths are whole numbers, fractions percent.      *)
(***************************************************************************)
EXTENDS Integers, FiniteSets, FiniteSetsExt

CONSTANTS
  Cards,        \* the XPUs of the box: [name, uuid, cpu, pcie], uuid 0 when unknown;
                \* every one has a name
  Dtypes,       \* what --dtype is given, "unset" when it is not
  Formats,      \* quant_format of the models served
  ModelShapes,  \* is --model given: a subset of BOOLEAN
  Envs,         \* is FREETOKEN_BENCHBW_PATH set for the servers
  Outs,         \* for each of these, is --out given, to the path in that variable
  Measurements, \* the sets of benchmarks that give numbers, of "cpu", "pcie", "overlap"
  MaxBenches    \* bound on benches

\* What the constants have to satisfy.
BenchProfileAssumption ==
  /\ \A c \in Cards : {c.uuid, c.cpu, c.pcie} \subseteq Nat /\ c.cpu > 0 /\ c.pcie > 0
  /\ ModelShapes \subseteq BOOLEAN /\ Envs \subseteq BOOLEAN
  /\ Outs \in [Envs -> SUBSET BOOLEAN]
  /\ Measurements \subseteq SUBSET {"cpu", "pcie", "overlap"}
  /\ MaxBenches \in Nat

VARIABLES
  env,      \* the environment of this box's servers, one of Envs
  card,     \* the XPU in the box now
  disk,     \* the profile files: each absent, torn, or a profile
  bench,    \* the bench that is running
  last,     \* the last bench that ended
  benches,  \* benches so far
  server    \* what the last server to start has read and picked

vars == <<env, card, disk, bench, last, benches, server>>

Paths == {<<"uuid", c.uuid>> : c \in Cards} \union {<<"legacy", 0>>, <<"env", 0>>}

NoEntry == [cpu |-> 0, pcie |-> 0, cpu_ov |-> 0, pcie_ov |-> 0, recommended |-> "none",
            fraction |-> 0]
NoProfile == [state |-> "absent", xpu |-> "", fmt |-> "", entry |-> NoEntry]
NoBench == [on |-> FALSE, path |-> <<"legacy", 0>>, profile |-> NoProfile, dtype |-> "unset",
            model |-> FALSE, card |-> [name |-> "", uuid |-> 0, cpu |-> 1, pcie |-> 1],
            shapes |-> "default"]

Init ==
  /\ env \in Envs
  /\ card \in Cards
  /\ disk = [p \in Paths |-> NoProfile]
  /\ bench = NoBench
  /\ last = NoBench
  /\ benches = 0
  /\ server = [up |-> FALSE, backend |-> "none", fraction |-> 0, fmt |-> "", card |-> card,
               read |-> NoProfile, last |-> NoBench]

--------------------------------------------------------------------------------
\* default_profile_path.
default_profile_path(uuid) == IF uuid # 0 THEN <<"uuid", uuid>> ELSE <<"legacy", 0>>

\* _bench_pcie_gather, _bench_cpu_moe, _bench_overlap; 0 where there is no
\* number.  Overlapped, both halves move as many bytes and are divided by the
\* same wall time, the slower one's.
Gbs(got, half) == IF half \in got THEN card[half] ELSE 0
Overlap(got) == IF "overlap" \in got THEN Min({card.cpu, card.pcie}) ELSE 0

Threshold == 2

_recommend(pcie, cpu) ==
  IF pcie > 0 /\ cpu > Threshold * pcie THEN "hybrid" ELSE "offload"

\* _fetch_fraction, the writer's.
_fetch_fraction(pcie_ov, cpu_ov, pcie, cpu) ==
  IF pcie_ov > 0 /\ cpu_ov > 0 THEN (100 * pcie_ov) \div (pcie_ov + cpu_ov)
  ELSE IF pcie > 0 /\ cpu > 0 THEN (100 * pcie) \div (pcie + cpu)
  ELSE 0

\* Without a number of either half the format is skipped.
_bench_format(got) ==
  IF got \intersect {"cpu", "pcie"} = {} THEN NoEntry
  ELSE [cpu |-> Gbs(got, "cpu"), pcie |-> Gbs(got, "pcie"),
        cpu_ov |-> Overlap(got), pcie_ov |-> Overlap(got),
        recommended |-> _recommend(Gbs(got, "pcie"), Gbs(got, "cpu")),
        fraction |-> _fetch_fraction(Overlap(got), Overlap(got), Gbs(got, "pcie"), Gbs(got, "cpu"))]

\* main calls _model_shapes with no arguments, so --model changes nothing.
_model_shapes(model) == [shapes |-> "default", dtype |-> "bf16"]

\* main: measure, then open the file for writing.
bench_measures(dtype, model, out, got) ==
  /\ ~bench.on
  /\ benches < MaxBenches
  /\ benches' = benches + 1
  /\ LET path == IF out THEN <<"env", 0>> ELSE default_profile_path(card.uuid)
         fmt == IF dtype = "unset" THEN _model_shapes(model).dtype ELSE dtype IN
       /\ bench' = [on |-> TRUE, path |-> path, dtype |-> dtype, model |-> model, card |-> card,
                    shapes |-> _model_shapes(model).shapes,
                    profile |-> [state |-> "whole", xpu |-> card.name, fmt |-> fmt,
                                 entry |-> _bench_format(got)]]
       /\ disk' = [disk EXCEPT ![path] = [NoProfile EXCEPT !.state = "torn"]]
  /\ UNCHANGED <<env, card, last, server>>

bench_writes ==
  /\ bench.on
  /\ disk' = [disk EXCEPT ![bench.path] = bench.profile]
  /\ last' = bench
  /\ bench' = NoBench
  /\ UNCHANGED <<env, card, benches, server>>

bench_dies ==
  /\ bench.on
  /\ bench' = NoBench
  /\ UNCHANGED <<env, card, disk, last, benches, server>>

\* The box is given another card.
swap(c) ==
  /\ ~bench.on
  /\ card' = c
  /\ UNCHANGED <<env, disk, bench, last, benches, server>>

--------------------------------------------------------------------------------
\* _usable_profile: the path in the environment, else the card's, else the
\* legacy one.  A file that is there but cannot be read ends the search.
found ==
  LET mine == default_profile_path(card.uuid) IN
  IF env THEN disk[<<"env", 0>>]
  ELSE IF disk[mine].state # "absent" THEN disk[mine] ELSE disk[<<"legacy", 0>>]

\* A bug: the name of the card is not compared.
usable_profileSlip == IF found.state = "whole" THEN found ELSE NoProfile

usable_profile ==
  IF found.state = "whole" /\ found.xpu = card.name THEN found ELSE NoProfile

\* _QUANT_TO_BENCH_FORMAT.
bench_format(quant) == IF quant = "mxfp4" THEN "mxfp4_triton" ELSE quant

HasEntry(prof, quant) ==
  prof.state = "whole" /\ prof.fmt = bench_format(quant) /\ prof.entry # NoEntry

load_backend_recommendation(quant) ==
  IF HasEntry(usable_profile, quant) THEN usable_profile.entry.recommended ELSE "offload"

\* load_hybrid_fetch_fraction, the reader's: the standalone pair is divided
\* another way than the writer does.
load_hybrid_fetch_fraction(quant) ==
  LET e == usable_profile.entry IN
  IF ~HasEntry(usable_profile, quant) THEN 0
  ELSE IF e.cpu_ov > 0 /\ e.pcie_ov > 0 THEN (100 * e.pcie_ov) \div (e.pcie_ov + e.cpu_ov)
  ELSE IF e.cpu > 0 /\ e.pcie > 0 THEN Min({100, (100 * e.pcie) \div e.cpu})
  ELSE 0

\* load_model with --moe-backend auto.
serve(quant) ==
  /\ LET backend == load_backend_recommendation(quant) IN
       server' = [up |-> TRUE, fmt |-> quant, card |-> card, read |-> usable_profile, last |-> last,
                  backend |-> backend,
                  fraction |-> IF backend = "hybrid" THEN load_hybrid_fetch_fraction(quant) ELSE 0]
  /\ UNCHANGED <<env, card, disk, bench, last, benches>>

Next ==
  \/ \E dtype \in Dtypes, model \in ModelShapes, out \in Outs[env], got \in Measurements :
       bench_measures(dtype, model, out, got)
  \/ bench_writes \/ bench_dies
  \/ \E c \in Cards : swap(c)
  \/ \E quant \in Formats : serve(quant)

Spec == Init /\ [][Next]_vars

--------------------------------------------------------------------------------
\* The shape of the state; a profile on disk is torn or was measured.
TypeOK ==
  /\ card \in Cards
  /\ \A p \in Paths :
       /\ disk[p].state \in {"absent", "torn", "whole"}
       /\ disk[p].state = "whole" =>
            /\ disk[p].entry.recommended \in {"hybrid", "offload", "none"}
            /\ disk[p].entry.fraction \in 0..100
  /\ server.up => server.backend \in {"hybrid", "offload"}
  /\ server.fraction \in 0..100

\* "the upgrade only ever fires on a box that benched and said so": a server is
\* hybrid only by numbers taken on a card of this name that say so.
HybridIsMeasured ==
  server.up /\ server.backend = "hybrid" =>
    /\ server.read.xpu = server.card.name
    /\ server.read.entry.cpu > Threshold * server.read.entry.pcie
    /\ server.read.fmt = bench_format(server.fmt)

\* Was the last bench taken on the server's own card, and put where the server
\* looks?
LastIsMine ==
  /\ server.last.profile.state = "whole"
  /\ server.last.card = server.card
  /\ server.last.path = IF env THEN <<"env", 0>> ELSE default_profile_path(server.card.uuid)

\* "`ft serve --moe-backend auto` will now consult this profile": the last bench
\* decides what the next server picks, unless a later one died while writing.
\* Its verdict is taken if it measured the very format that the server looks up;
\* every other bench, of another format or without a number, takes away what
\* earlier ones had measured.
BenchIsConsulted ==
  server.up /\ LastIsMine /\ server.read.state = "whole" =>
    server.backend =
      IF HasEntry(server.last.profile, server.fmt)
      THEN server.last.profile.entry.recommended ELSE "offload"

BenchIsFound ==
  server.up /\ LastIsMine /\ server.last.dtype = server.fmt /\ ~bench.on /\ benches = 1 =>
    server.backend = server.last.profile.entry.recommended

\* A model that is served as "mxfp4" is not upgraded by "--dtype mxfp4", the
\* spelling the help of the flag lists: the verdict is filed under another key.
Mxfp4NeedsItsKey ==
  server.up /\ server.fmt = "mxfp4" /\ "mxfp4_triton" \notin Dtypes => server.backend = "offload"

\* "the writer stores the *same* value the reader will derive".
WriterAndReaderAgree ==
  server.up /\ server.backend = "hybrid" => server.fraction = server.read.entry.fraction

\* It does where the overlapped pair was measured.  Where it was not, the reader
\* divides the standalone pair another way, and fetches no less than the writer
\* meant and no more than half.
FractionIsWrittenIfOverlapped ==
  server.up /\ server.backend = "hybrid" =>
    LET e == server.read.entry IN
    IF e.cpu_ov > 0 /\ e.pcie_ov > 0 THEN server.fraction = e.fraction
    ELSE server.fraction \in e.fraction..50

\* The fraction is "balancing the two halves' completion times": a fraction of
\* the bytes over PCIe takes as long as the rest on the CPU, within a percent.
HalvesFinishTogether ==
  server.up /\ server.backend = "hybrid" =>
    LET e == server.read.entry
        difference == server.fraction * e.cpu - (100 - server.fraction) * e.pcie IN
    difference \in (-(e.cpu + e.pcie))..(e.cpu + e.pcie)

\* "--model: bench with that model's real E/I/H + format".
ModelIsBenched == bench.on /\ bench.model => bench.shapes = "model"
================================================================================
