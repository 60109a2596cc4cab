----------------------------- MODULE Placement -----------------------------
(***************************************************************************)
(* Where a model goes on a computer: the fit of an ordinary computer        *)
(* (fit.rs), the placement planner of the reference tiers (planner.rs,      *)
(* profile.rs), the card that is used (hardware.rs) and the model that is   *)
(* offered first (models.rs: recommend, picture_model).                     *)
(*                                                                         *)
(* Sizes are whole numbers; one MiB is MIB of the smallest unit, so that    *)
(* the roundings of the code are kept.  A bandwidth is in MiB a             *)
(* millisecond, a time in microseconds.                                     *)
(***************************************************************************)
EXTENDS Integers, Sequences, FiniteSets, FiniteSetsExt, SequencesExt

CONSTANT MIB
ASSUME MibAssumption == MIB \in Nat \ {0}

None == -1
Lesser(a, b) == IF a < b THEN a ELSE b
Greater(a, b) == IF a > b THEN a ELSE b
SaturatingSub(a, b) == Greater(a - b, 0)
DivCeil(a, b) == (a + b - 1) \div b

GPU_MARGIN_FLOOR_MIB == 384
GPU_COMPUTE_MIB == 256
RAM_RESERVE_FLOOR_MIB == 4096
IN_A_CHAT_MIB == 2458
OTHER_PROGRAMS_MIB == 3072
STILL_FREE_MIB == 3072
PICTURE_FILE_WORK_MIB == 256
PICTURE_READING_MIB == 600
PICTURES_STILL_FREE_MIB == 1536
READING_WORDS_PER_SECOND == 4
GPU_TOKEN_OVERHEAD_US == 5200
SPILLED_MIB == 256

(***************************************************************************)
(* hardware.rs.  A device line of the engine is [words, total, free]: the   *)
(* words of its name in small letters and the MiB it reports (0 for what is *)
(* missing).  A graphics card is [words, total, free, others, integrated,   *)
(* bw]: besides, what other programs hold of it (None when the system does  *)
(* not say) and its bandwidth (0 when the table has no such card).          *)
(***************************************************************************)
VendorOf(words) ==
  LET Has(W) == \E i \in DOMAIN words : words[i] \in W IN
  IF Has({"nvidia", "geforce", "rtx", "gtx", "quadro"}) THEN "nvidia"
  ELSE IF Has({"amd", "radeon"}) THEN "amd"
  ELSE IF Has({"intel", "arc", "iris"}) THEN "intel"
  ELSE "other"

\* the makers' naming: "780m" and "graphics" are AMD's processors, an Intel
\* card carries an Arc model number
IsIntegrated(words, vendor, arcNumbers, mobileApus) ==
  \/ vendor = "amd" /\ \E i \in DOMAIN words : words[i] = "graphics" \/ words[i] \in mobileApus
  \/ vendor = "intel" /\ \A i \in DOMAIN words : words[i] \notin arcNumbers

\* the longest entry whose words stand together in the name; a laptop part
\* matches laptop entries only
Bandwidth(table, words) ==
  LET Laptop(w) == \E i \in DOMAIN w : w[i] = "laptop"
      Stands(w) == \E i \in DOMAIN words : i + Len(w) - 1 <= Len(words) /\ SubSeq(words, i, i + Len(w) - 1) = w
      matching == {i \in DOMAIN table : Laptop(table[i].words) = Laptop(words) /\ Stands(table[i].words)}
      longest == {i \in matching : \A j \in matching : Len(table[j].words) <= Len(table[i].words)} IN
  IF matching = {} THEN 0 ELSE table[Max(longest)].bw

\* parse_devices: the driver's budget is never more than the card has
ParseDevice(line, names) ==
  LET integrated == IsIntegrated(line.words, VendorOf(line.words), names.arc, names.apu) IN
  [words |-> line.words, total |-> line.total, free |-> Lesser(line.free, line.total), others |-> None,
   integrated |-> integrated, bw |-> IF integrated THEN 0 ELSE Bandwidth(names.table, line.words)]

\* held_of: what others hold, when exactly one adapter has the card's name
HeldOf(adapters, words) ==
  LET matching == SelectSeq(adapters, LAMBDA a : a.words = words) IN
  IF Len(matching) = 1 THEN SaturatingSub(matching[1].used, matching[1].ours) ELSE None

\* believable: a measurement no memory does is not planned with
Believable(gbps) == IF gbps \in 1..400 THEN gbps ELSE 8

\* detect: no engine and an engine that fails to answer list nothing; three
\* looks at the memory, the best of them kept
Detect(listing, adapters, looks, system, names) ==
  [gpus |-> IF listing.answered
            THEN [i \in DOMAIN listing.lines |->
                    [ParseDevice(listing.lines[i], names) EXCEPT !.others = HeldOf(adapters, listing.lines[i].words)]]
            ELSE <<>>,
   copy |-> Max({Believable(looks[i]) : i \in DOMAIN looks}),
   ram |-> system.ram, ramFree |-> system.ramFree, diskFree |-> system.diskFree]

\* gpu, as every plan asks for it: a card of its own, the last of those with
\* the most memory; the processor's graphics are planned as the processor
HasCard(hw) == \E i \in DOMAIN hw.gpus : ~ hw.gpus[i].integrated
Card(hw) ==
  LET own == {i \in DOMAIN hw.gpus : ~ hw.gpus[i].integrated}
      most == {i \in own : \A j \in own : hw.gpus[j].total <= hw.gpus[i].total} IN
  hw.gpus[Max(most)]

(***************************************************************************)
(* fit.rs                                                                   *)
(***************************************************************************)
UsableGpuMib(gpu) ==
  LET margin == Greater(GPU_MARGIN_FLOOR_MIB, (gpu.total * 8) \div 100)
      notHeld == SaturatingSub(gpu.total, IF gpu.others = None THEN 0 ELSE gpu.others) IN
  SaturatingSub(Lesser(Lesser(gpu.free, gpu.total), notHeld), margin)

RamReserveMib(hw) == Greater(RAM_RESERVE_FLOOR_MIB, hw.ram \div 4)
UsableRamMib(hw) == SaturatingSub(hw.ram, RamReserveMib(hw))

\* A shape is [weight, active, layers, kv, ramOnly]; kv is for the whole
\* context that is asked for.
LayersTotal(shape) == Greater(shape.layers, 1) + 1
PerLayer(shape) == DivCeil(shape.weight, LayersTotal(shape))
KvPerLayer(shape) == DivCeil(shape.kv, Greater(shape.layers, 1))

LayersFor(shape, hw, cap) ==
  LET usable == UsableGpuMib(Card(hw)) * MIB
      fixed == GPU_COMPUTE_MIB * MIB
      holds == IF usable > fixed
               THEN Lesser((usable - fixed) \div Greater(PerLayer(shape) + KvPerLayer(shape), 1), LayersTotal(shape))
               ELSE 0 IN
  IF ~ HasCard(hw) THEN 0 ELSE IF cap = None THEN holds ELSE Lesser(holds, cap)

\* the roofline: a card the table does not know is promised nothing
MicrosPerToken(shape, hw, onCard) ==
  LET unknown == onCard > 0 /\ Card(hw).bw = 0
      share == IF unknown THEN 0 ELSE onCard
      all == LayersTotal(shape)
      active == shape.active \div MIB
      onTheCard == IF share = 0 THEN 0
                   ELSE (((active * share * 1000) \div (all * Card(hw).bw)) * 10) \div 6
                        + (GPU_TOKEN_OVERHEAD_US * share) \div all
      inMemory == (active * (all - share) * 1000) \div (all * Greater(2 * hw.copy, 1)) IN
  onTheCard + inMemory

\* whole words under ten, fives under fifty, tens above
RoundDown(words) ==
  IF words < 10 THEN words ELSE IF words < 50 THEN (words \div 5) * 5 ELSE (words \div 10) * 10

OfWhatIsShown(low, high, atLeast) ==
  LET least == IF atLeast THEN high ELSE low IN
  IF least > READING_WORDS_PER_SECOND THEN "runs_well"
  ELSE IF high >= READING_WORDS_PER_SECOND THEN "works"
  ELSE "too_slow"

\* the words a second that are shown, from hundredths of them, and the verdict
Shown(placed, words100) ==
  [placed EXCEPT !.low = RoundDown(((words100 * 3) \div 4) \div 100), !.high = RoundDown(words100 \div 100)]
Judged(placed, fits) ==
  [placed EXCEPT !.verdict = IF fits THEN OfWhatIsShown(placed.low, placed.high, placed.atLeast) ELSE "will_not_fit"]
Timed(placed, fits, micros) ==
  IF fits /\ micros > 0
  THEN Judged(Shown([placed EXCEPT !.tokens = 1000000 \div micros], ((100000000 \div micros) * 3) \div 4), fits)
  ELSE Judged(placed, fits)

FitWith(shape, hw, onCard) ==
  LET gpuWeight == PerLayer(shape) * onCard
      gpuKv == KvPerLayer(shape) * Lesser(onCard, shape.layers)
      gpuBytes == IF onCard > 0 THEN gpuWeight + gpuKv + GPU_COMPUTE_MIB * MIB ELSE 0
      ramBytes == SaturatingSub(shape.weight, gpuWeight) + SaturatingSub(shape.kv, gpuKv) + shape.ramOnly IN
  Timed([layers |-> onCard, total |-> LayersTotal(shape), gpu |-> gpuBytes \div MIB, ram |-> ramBytes \div MIB,
         tokens |-> 0, low |-> 0, high |-> 0, atLeast |-> onCard > 0 /\ Card(hw).bw = 0, verdict |-> "too_slow"],
        ramBytes \div MIB <= UsableRamMib(hw), MicrosPerToken(shape, hw, onCard))
Fit(shape, hw, cap) == FitWith(shape, hw, LayersFor(shape, hw, cap))

FitsWithRoom(placed, hw) ==
  /\ placed.verdict # "will_not_fit"
  /\ placed.ram + IN_A_CHAT_MIB + RamReserveMib(hw) + OTHER_PROGRAMS_MIB + STILL_FREE_MIB <= hw.ram

PictureFilePlace(placed, hw, file) ==
  LET fileMib == DivCeil(file, MIB)
      needed == placed.ram + IN_A_CHAT_MIB + PICTURE_READING_MIB + PICTURES_STILL_FREE_MIB IN
  IF /\ HasCard(hw)
     /\ placed.layers = placed.total
     /\ placed.gpu + fileMib + PICTURE_FILE_WORK_MIB <= UsableGpuMib(Card(hw))
  THEN "card"
  ELSE IF needed <= hw.ramFree THEN "processor" ELSE "left_out"

WithPictureFile(placed, place, file) ==
  LET fileMib == DivCeil(file, MIB) IN
  CASE place = "card" -> [placed EXCEPT !.ram = SaturatingSub(@, fileMib), !.gpu = @ + fileMib + PICTURE_FILE_WORK_MIB]
    [] place = "processor" -> placed
    [] place = "left_out" -> [placed EXCEPT !.ram = SaturatingSub(@, fileMib)]

\* a mutant: the overflow rounded down and not one more
LayersToTakeOffShort(placed, shape, sharedMib) ==
  IF sharedMib < SPILLED_MIB \/ placed.layers = 0 THEN 0
  ELSE Lesser((sharedMib * MIB) \div (PerLayer(shape) + KvPerLayer(shape)), placed.layers)
LayersToTakeOff(placed, shape, sharedMib) ==
  LET each == Greater(PerLayer(shape) + KvPerLayer(shape), 1) IN
  IF sharedMib < SPILLED_MIB \/ placed.layers = 0 THEN 0
  ELSE Lesser(DivCeil(sharedMib * MIB, each) + 1, placed.layers)

LayersToTakeOffAfterGivingUp(placed) == Lesser(Greater(placed.layers \div 4, 2), placed.layers)

(***************************************************************************)
(* planner.rs and profile.rs.  A machine is [gpus, ram, cores, avx512, amx, *)
(* unified, pcie] in GB, a map [core, routed, layers, experts, active, kv]  *)
(* with kv a token, a request [context, batch, quantized, reserved].        *)
(***************************************************************************)
TotalVram(m) == FoldSeq(+, 0, m.gpus)
LargestGpu(m) == IF m.gpus = <<>> THEN 0 ELSE Max({m.gpus[i] : i \in DOMAIN m.gpus})
Tier(m) ==
  LET big == Cardinality({i \in DOMAIN m.gpus : m.gpus[i] >= 70}) IN
  IF big >= 4 /\ m.ram >= 480 THEN "S"
  ELSE IF TotalVram(m) >= 96 /\ m.ram >= 120 THEN "W96"
  ELSE IF TotalVram(m) >= 30 /\ m.ram >= 60 /\ m.cores >= 16 THEN "W32"
  ELSE "below"

ExpertBytes(map) ==
  IF map.experts > 0 /\ map.layers > 0 THEN map.routed \div (map.experts * map.layers) ELSE 0
ExpertBytesPerToken(map) == ExpertBytes(map) * map.active * map.layers

\* kv_cache: half the bytes when it is quantized
KvCache(perToken, quantized, context, batch) ==
  (IF quantized THEN perToken \div 2 ELSE perToken) * context * Greater(batch, 1)

MayServe(tier) == tier = "S"
TeamMode(tier) == tier \in {"W32", "W96"}

\* the budgets of a model profile, in tokens
ForTier(tier) ==
  CASE tier \in {"S", "W96"} -> [tools |-> 4000, workingSet |-> 24000, context |-> 3000, focused |-> 1500,
                                 pinned |-> 400, step |-> 6000, ledger |-> 600]
    [] tier = "W32" -> [tools |-> 2500, workingSet |-> 16000, context |-> 2000, focused |-> 1000,
                        pinned |-> 300, step |-> 4000, ledger |-> 400]
    [] tier = "below" -> [tools |-> 1500, workingSet |-> 8000, context |-> 1200, focused |-> 600,
                          pinned |-> 200, step |-> 2500, ledger |-> 300]

CpuExpertBandwidth(m) ==
  ((IF m.cores >= 32 THEN 120 ELSE 75) * (IF m.amx THEN 100 ELSE IF m.avx512 THEN 85 ELSE 55)) \div 100

\* Time a token takes, with everything that is read for it: the core and the
\* cached experts at the card's speed, the others over the slower path, the
\* ones on disk besides.
EstimateThroughput(map, m, hot, nvme, onCpu) ==
  LET each == ExpertBytesPerToken(map)
      hotShare == IF map.routed = 0 THEN each ELSE (each * hot) \div map.routed
      cold == each - hotShare
      path == IF onCpu THEN CpuExpertBandwidth(m) ELSE m.pcie
      disk == IF map.routed = 0 THEN 0 ELSE (cold * nvme) \div map.routed IN
  ((map.core + hotShare) * 1000) \div 1200 + (cold * 1000) \div path + (disk * 1000) \div 5

Plan(map, m, req) ==
  LET usable == (IF Len(m.gpus) > 1 THEN TotalVram(m) ELSE LargestGpu(m)) - req.reserved
      kv == KvCache(map.kv, req.quantized, req.context, req.batch)
      must == map.core + kv
      hot == Lesser(Greater(usable - must, 0), map.routed)
      overflow == SaturatingSub(map.routed, hot)
      forExperts == Greater(m.ram - Greater(m.ram \div 8, 12), 0)
      inRam == Lesser(overflow, forExperts)
      nvme == SaturatingSub(overflow, inRam)
      onCpu == ~ m.unified /\ CpuExpertBandwidth(m) > m.pcie IN
  IF usable <= 0 \/ must > usable
  THEN [verdict |-> "does_not_fit", resident |-> 0, kv |-> kv, hot |-> 0, inRam |-> 0, nvme |-> 0, onCpu |-> FALSE, time |-> 0]
  ELSE [verdict |-> IF overflow = 0 THEN "resident" ELSE IF nvme = 0 THEN "hybrid" ELSE "streaming",
        resident |-> map.core + hot, kv |-> kv, hot |-> hot, inRam |-> inRam, nvme |-> nvme,
        onCpu |-> onCpu, time |-> EstimateThroughput(map, m, hot, nvme, onCpu)]

(***************************************************************************)
(* models.rs: the model offered first.  A catalog is a sequence of          *)
(* [id, params, bytes, tensor, commercial, retired, hidden, exercised,      *)
(* fetchable, here, vision]: exercised maps the tiers it was read through   *)
(* on to the tokens a second it wrote there, vision is the size of its      *)
(* picture file, 0 for none.                                                *)
(***************************************************************************)
\* the built-in list, then an organisation's, then the imports: one entry an
\* id, the later one, in the place of the later one
LoadCatalog(builtIn, extra, imports) ==
  FoldLeft(LAMBDA all, m : Append(SelectSeq(all, LAMBDA x : x.id # m.id), m), <<>>, builtIn \o extra \o imports)

\* import: a dense model of 32 layers, sized by its file, never commercial
Imported(id, bytes, paramsTenths) ==
  [id |-> id, params |-> Greater(paramsTenths, 1), bytes |-> bytes,
   tensor |-> [core |-> bytes, routed |-> 0, layers |-> 32, experts |-> 0, active |-> 0, kv |-> 0],
   commercial |-> FALSE, retired |-> FALSE, hidden |-> FALSE, exercised |-> <<>>,
   fetchable |-> FALSE, here |-> TRUE, vision |-> 0]

\* tensor_map, shape and ask: 4 KB a layer and token where the cache is not said
Shape(m, kvPerUnsaidLayer) ==
  [weight |-> m.tensor.core + m.tensor.routed,
   active |-> m.tensor.core + ExpertBytesPerToken(m.tensor),
   layers |-> m.tensor.layers,
   kv |-> IF m.tensor.kv > 0 THEN m.tensor.kv ELSE m.tensor.layers * kvPerUnsaidLayer,
   ramOnly |-> m.vision]
TierOf(hw) ==
  IF ~ HasCard(hw) THEN "no card"
  ELSE LET total == Card(hw).total IN
       IF total < 7 * 1024 THEN "4 GB" ELSE IF total < 14 * 1024 THEN "8 GB"
       ELSE IF total < 22 * 1024 THEN "16 GB" ELSE "24 GB"

TierRank(tier) ==
  CASE tier = "no card" -> 0 [] tier = "4 GB" -> 1 [] tier = "8 GB" -> 2 [] tier = "16 GB" -> 3 [] tier = "24 GB" -> 4

ExercisedFor(m, tier) == tier \in DOMAIN m.exercised

\* the speed measured on the largest smaller tier; None where there is none
MeasuredBelow(m, tier) ==
  LET below == {t \in DOMAIN m.exercised : TierRank(t) < TierRank(tier) /\ m.exercised[t] > 0} IN
  IF below = {} THEN None
  ELSE m.exercised[CHOOSE t \in below : \A u \in below : TierRank(u) <= TierRank(t)]

DiskHolds(m, hw) == hw.diskFree = None \/ m.bytes \div MIB < hw.diskFree

KV_UNSAID == 32
Placed(m, hw) == Fit(Shape(m, KV_UNSAID), hw, None)
Verdict(m, hw) == Placed(m, hw).verdict

\* entries: what a row of the list says of a model below the reference tiers.
\* A speed measured on a smaller tier stands only where all of the model is on
\* a known card that is estimated to be as fast.
EntryOf(placed, measured, hw) ==
  LET stands == /\ measured # None /\ placed.layers = placed.total /\ ~ placed.atLeast
                /\ placed.tokens >= measured /\ (measured * 3 + 2) \div 4 > READING_WORDS_PER_SECOND IN
  [verdict |-> IF stands THEN "runs_well" ELSE placed.verdict,
   promised |-> IF stands THEN (measured * 3 + 2) \div 4
                ELSE IF placed.verdict = "will_not_fit" THEN 0
                ELSE IF placed.atLeast THEN placed.high ELSE placed.low,
   tight |-> placed.verdict # "will_not_fit" /\ ~ FitsWithRoom(placed, hw)]
Entry(m, hw, cap) == EntryOf(Fit(Shape(m, KV_UNSAID), hw, cap), MeasuredBelow(m, TierOf(hw)), hw)

\* the candidates in the catalog's order, each placed on this computer
Offered(catalog, hw) ==
  LET open == SelectSeq(catalog, LAMBDA m : ~ m.retired /\ m.commercial)
      measured == \E i \in DOMAIN open : ExercisedFor(open[i], TierOf(hw))
      read == SelectSeq(open, LAMBDA m : IF measured THEN ExercisedFor(m, TierOf(hw)) ELSE DOMAIN m.exercised # {})
      reachable == SelectSeq(read, LAMBDA m : (m.fetchable \/ m.here) /\ (m.here \/ DiskHolds(m, hw)))
      roomy == SelectSeq(reachable, LAMBDA m : FitsWithRoom(Placed(m, hw), hw)) IN
  IF roomy = <<>> THEN reachable ELSE roomy

Nobody == [id |-> "nobody"]
\* max_by keeps the last of equals, min_by the first
LastLargest(list) ==
  IF list = <<>> THEN Nobody
  ELSE list[Max({i \in DOMAIN list : \A j \in DOMAIN list : list[j].params <= list[i].params})]
FirstSmallest(list) ==
  IF list = <<>> THEN Nobody
  ELSE list[Min({i \in DOMAIN list : \A j \in DOMAIN list : list[i].bytes <= list[j].bytes})]
OrElse(a, b) == IF a = Nobody THEN b ELSE a

\* the default, the largest that runs well, then the others; the slow ones last
RecommendOf(placed, hw, decided) ==
  LET default == SelectSeq(placed, LAMBDA m : m.id = decided /\ Verdict(m, hw) \in {"runs_well", "works"})
      Largest(verdict, from) == LastLargest(SelectSeq(placed, LAMBDA m : Verdict(m, hw) = verdict /\ m.params >= from))
      slow == FirstSmallest(SelectSeq(placed, LAMBDA m : Verdict(m, hw) = "too_slow")) IN
  IF default # <<>> THEN Head(default)
  ELSE OrElse(Largest("runs_well", 10), OrElse(Largest("works", 10),
       OrElse(Largest("runs_well", 0), OrElse(Largest("works", 0), slow))))
\* a mutant: the choice is made before the disk and the memory are looked at
RecommendUnplaced(catalog, hw, decided) == LastLargest(SelectSeq(catalog, LAMBDA m : m.commercial /\ ~ m.retired))
Recommend(catalog, hw, decided) == RecommendOf(Offered(catalog, hw), hw, decided)

\* the model to suggest for pictures, never larger than the current one
PictureModel(catalog, hw, current) ==
  LET keeps == SelectSeq(catalog, LAMBDA m :
                 /\ m.id # current.id /\ ~ m.retired /\ ~ m.hidden /\ m.commercial
                 /\ m.vision > 0 /\ m.params <= current.params
                 /\ Verdict(m, hw) # "will_not_fit"
                 /\ PictureFilePlace(Placed(m, hw), hw, m.vision) # "left_out") IN
  OrElse(LastLargest(SelectSeq(keeps, LAMBDA m : m.here)),
         LastLargest(SelectSeq(keeps, LAMBDA m : ~ m.here /\ DiskHolds(m, hw))))

(***************************************************************************)
(* What they are held to                                                    *)
(***************************************************************************)

\* A placement asks for what the computer has: on the card no more than is
\* usable beside its margin and what others hold, in memory no more than
\* leaves the reserve; and when some of it was found in shared memory, what is
\* taken off frees at least that much, or all of it comes off
\* (fit.rs fit, layers_to_take_off).
FreedSafely(placed, fewer, sharedMib) ==
  (placed.layers > 0 /\ sharedMib >= SPILLED_MIB) => fewer.layers = 0 \/ placed.gpu - fewer.gpu >= sharedMib
FitSafely(placed, shape, hw, cap, sharedMib) ==
  /\ placed.layers <= LayersTotal(shape) /\ (cap # None => placed.layers <= cap)
  /\ placed.layers > 0 => placed.gpu <= UsableGpuMib(Card(hw))
  /\ placed.verdict # "will_not_fit" => placed.ram + RamReserveMib(hw) <= hw.ram
  /\ FreedSafely(placed, Fit(shape, hw, placed.layers - LayersToTakeOff(placed, shape, sharedMib)), sharedMib)
PlacedSafely(shape, hw, cap, sharedMib) == FitSafely(Fit(shape, hw, cap), shape, hw, cap, sharedMib)

\* The model offered first can be used here: it fits, it is on the computer or
\* can be fetched to a disk that holds it, its licence allows it; with room
\* for other programs where some candidate leaves that; and there is one
\* unless no candidate fits (models.rs recommend).
OfferIsSafe(offered, candidates, hw) ==
  LET fitting == {i \in DOMAIN candidates : Verdict(candidates[i], hw) # "will_not_fit"} IN
  /\ (offered = Nobody) <=> (fitting = {})
  /\ offered # Nobody =>
       /\ Verdict(offered, hw) # "will_not_fit"
       /\ offered.here \/ (offered.fetchable /\ DiskHolds(offered, hw))
       /\ offered.commercial /\ ~ offered.retired
       /\ (\E i \in fitting : FitsWithRoom(Placed(candidates[i], hw), hw)) => FitsWithRoom(Placed(offered, hw), hw)
OfferedSafely(catalog, hw, decided) == OfferIsSafe(Recommend(catalog, hw, decided), Offered(catalog, hw), hw)

\* A plan accounts for every expert once and keeps to the cards
\* (planner.rs plan).
PlanAddsUp(map, m, req) ==
  LET p == Plan(map, m, req)
      cards == IF Len(m.gpus) > 1 THEN TotalVram(m) ELSE LargestGpu(m) IN
  p.verdict # "does_not_fit" =>
    /\ p.hot + p.inRam + p.nvme = map.routed
    /\ p.resident + p.kv + req.reserved <= cards
    /\ p.inRam <= m.ram
    /\ (p.verdict = "resident") <=> (p.hot = map.routed)
=============================================================================
