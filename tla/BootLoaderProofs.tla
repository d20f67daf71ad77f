-------------------------- MODULE BootLoaderProofs --------------------------
(***************************************************************************)
(* Whatever the power does, two of three images survive, an update is      *)
(* taken for done only when it is, the bootloader jumps to whole images    *)
(* and an image vouches only for itself: for any images, lengths, number   *)
(* of failures and of downloads.                                           *)
(*                                                                         *)
(* The properties are about single steps.  What they need is what is in    *)
(* the sections at each stage of an install (Installing), what survives    *)
(* when the power fails in it (Survivors), and what the boot data says of  *)
(* section 1 once it is done (Booted).                                     *)
(***************************************************************************)
EXTENDS BootLoader, TLAPS

SlotsValid == \A s \in Slots : from_section(s)

Install == {"erase", "copy", "head", "seq", "own", "origin"}

(* A slot being loaded has the pages before the one that is next. *)
Loading ==
  pc = "load" =>
    /\ job.to \in Slots /\ job.img \in Images
    /\ at \in 0 .. Len[job.img] + 1
    /\ at > 0 => /\ flash[job.to].head = job.img
                 /\ flash[job.to].flashed = "blank" /\ flash[job.to].booted = "blank"
    /\ \A p \in 1 .. Len[job.img] : p < at => flash[job.to].app[p] = job.img

(* The header of section 1 is erased. *)
NoHeader == /\ flash[Active].head = "blank"
            /\ flash[Active].flashed = "blank" /\ flash[Active].booted = "blank"

(* The image that is installed, and what the boot data say of it. *)
Source ==
  pc \in Install =>
    /\ job.img \in Images
    /\ bd.rollback <=> job.from = Active
    /\ bd.first <=> job.from \in Slots
    /\ bd.own \in Slots
    /\ job.from \in Slots => bd.own = job.from /\ flash[job.from].head = job.img

(* How much of section 1 is erased, and then copied.  A rollback copies    *)
(* the pages it has erased.                                                *)
Copied == IF job.from = Active THEN "blank" ELSE job.img

Installing ==
  /\ pc = "erase" =>
       /\ at \in 0 .. Len[job.img]
       /\ at > 0 => NoHeader
       /\ \A p \in 1 .. Len[job.img] : p < at => flash[Active].app[p] = "blank"
  /\ pc = "copy" =>
       /\ at \in 1 .. Len[job.img]
       /\ NoHeader
       /\ \A p \in 1 .. Len[job.img] :
            flash[Active].app[p] = IF p < at THEN Copied ELSE "blank"
  /\ pc = "head" => NoHeader
  /\ pc \in {"seq", "own", "origin"} =>
       /\ flash[Active].head = job.img
       /\ flash[Active].flashed # "torn" /\ flash[Active].booted = "blank"
  /\ pc \in {"head", "seq", "own", "origin"} =>
       \A p \in 1 .. Len[job.img] : flash[Active].app[p] = Copied

(* What the boot data say once section 1 is as it will be.  After a        *)
(* rollback there is no application that could read them.                  *)
Booted ==
  pc \in {"jump", "run", "mark"} =>
    IF bd.rollback
      THEN flash[Active].app[1] = "blank"
      ELSE /\ from_section(Active)
           /\ bd.first <=> bd.own \in Slots
           /\ bd.own \in Slots => flash[Active].head = flash[bd.own].head

(* Before the slots have been loaded for the first time, section 1 is      *)
(* erased, and a slot not yet valid never had its last page.               *)
FirstLoad ==
  /\ flash[Active] = Erased
  /\ pc \in {"start", "load"}
  /\ \A s \in Slots : from_section(s) \/ flash[s].app[Len[Demo[s]]] # Demo[s]
  /\ pc = "load" =>
       /\ job.img = Demo[job.to]
       /\ at <= Len[job.img] => ~from_section(job.to)

(* From then on, whatever this step does when the power fails, two of the  *)
(* sections it does not touch are valid.                                   *)
Survivors ==
  /\ pc = "start" => TwoImages
  /\ pc = "load" => \A s \in Sections : s # job.to => from_section(s)
  /\ pc \notin {"start", "load"} => SlotsValid

IInv == /\ TypeOK
        /\ Loading /\ Source /\ Installing /\ Booted
        /\ FirstLoad \/ Survivors

-----------------------------------------------------------------------------
(* The constants. *)
LEMMA ImageFacts ==
  /\ "blank" \notin Images /\ "torn" \notin Images
  /\ \A i \in Images : Len[i] \in 1 .. MaxPages /\ Len[i] \in Nat /\ Len[i] >= 1
  /\ \A s \in Slots : Demo[s] \in Images
  /\ MaxPages \in Nat
BY ImagesAssumption, PagesAssumption

LEMMA SectionFacts ==
  /\ Active \in Sections /\ Active \notin Slots /\ Slots \subseteq Sections
  /\ \A s \in Sections : s = Active \/ s \in Slots
  /\ \A s \in Slots : Other(s) \in Slots
BY DEF Sections, Slots, Active, Other

(* What the steps of a load, an erasure and a copy put into a section. *)
LEMMA ErasedType == Erased \in Metadata
BY BoundsAssumption DEF Erased, Metadata, Contents, Tags

LEMMA PageType ==
  ASSUME NEW m \in Metadata, NEW p \in 0 .. MaxPages, NEW c \in Contents
  PROVE  /\ WithPage(m, p, c) \in Metadata
         /\ p = 0 => /\ WithPage(m, p, c).head = c
                     /\ WithPage(m, p, c).flashed = "blank"
                     /\ WithPage(m, p, c).booted = "blank"
                     /\ WithPage(m, p, c).app = m.app
         /\ p # 0 => /\ WithPage(m, p, c).head = m.head
                     /\ WithPage(m, p, c).flashed = m.flashed
                     /\ WithPage(m, p, c).booted = m.booted
                     /\ WithPage(m, p, c).app[p] = c
                     /\ \A q \in 1 .. MaxPages :
                          q # p => WithPage(m, p, c).app[q] = m.app[q]
<1>1. MaxPages \in Nat
  BY ImageFacts
<1>2. CASE p = 0
  BY <1>2, ErasedType DEF WithPage, Erased, Metadata, Tags, Contents
<1>3. CASE p # 0
  <2>1. p \in 1 .. MaxPages
    BY <1>1, <1>3
  <2> QED
    BY <1>3, <2>1 DEF WithPage, Metadata
<1> QED
  BY <1>2, <1>3

LEMMA FadedType ==
  ASSUME NEW m \in Metadata, NEW n \in Faded(m)
  PROVE  /\ n \in Metadata
         /\ n.app = m.app
         /\ n.flashed # m.flashed => n.flashed # "set"
         /\ n.booted # m.booted => n.booted # "set"
<1>1. PICK h \in {m.head, "torn"}, f \in {m.flashed, "torn", "blank"},
           b \in {m.booted, "torn", "blank"} :
        n = [m EXCEPT !.head = h, !.flashed = f, !.booted = b]
  BY DEF Faded
<1>2. /\ h \in Contents /\ f \in Tags /\ b \in Tags
  BY DEF Metadata, Contents, Tags
<1>3. /\ n.head = h /\ n.flashed = f /\ n.booted = b
      /\ n.app = m.app /\ n.seq = m.seq
  BY <1>1 DEF Metadata
<1>4. n \in Metadata
  BY <1>1, <1>2 DEF Metadata
<1> QED
  BY <1>3, <1>4

(* A power failure within a step leaves a section of the same type, with   *)
(* no tag set that was not. *)
LEMMA InterruptedType ==
  ASSUME TypeOK, NEW s \in Sections, NEW m \in Interrupted(s),
         Loading, Source, Installing
  PROVE  /\ m \in Metadata
         /\ m.flashed = "set" => has_flashed(s)
         /\ m.booted = "set" => has_booted(s)
<1>1. flash[s] \in Metadata /\ BlankSeq \in Nat
  BY BoundsAssumption DEF TypeOK
<1>2. ASSUME m \in TornPage(flash[s]), at \in 0 .. MaxPages
      PROVE  /\ m \in Metadata
             /\ m.flashed = "set" => has_flashed(s)
             /\ m.booted = "set" => has_booted(s)
  <2>1. CASE at = 0
    BY <1>1, <1>2, <2>1, FadedType DEF TornPage, has_flashed, has_booted
  <2>2. CASE at # 0
    <3>1. at \in 1 .. MaxPages /\ m = [flash[s] EXCEPT !.app[at] = "torn"]
      BY <1>2, <2>2, ImageFacts DEF TornPage
    <3> QED
      BY <1>1, <3>1 DEF Metadata, Contents, has_flashed, has_booted
  <2> QED
    BY <2>1, <2>2
<1>3. CASE pc = "load" /\ s = job.to /\ at <= Len[job.img]
  <2>1. at \in 0 .. MaxPages
    BY <1>3, ImageFacts DEF Loading, TypeOK
  <2> QED
    BY <1>3, <2>1, <1>2 DEF Interrupted, ReadyToMark, Running
<1>4. CASE pc \in {"erase", "copy"} /\ s = Active
  <2>1. m \in TornPage(flash[s])
    BY <1>4 DEF Interrupted, ReadyToMark, Running
  <2>2. at \in 0 .. Len[job.img] /\ job.img \in Images
    BY <1>4, ImageFacts DEF TypeOK, Installing, Source, Install
  <2>3. at \in 0 .. MaxPages
    BY <2>2, ImageFacts
  <2> QED
    BY <2>1, <2>3, <1>2
<1>5. CASE ~(pc = "load" /\ s = job.to /\ at <= Len[job.img]) /\ ~(pc \in {"erase", "copy"} /\ s = Active)
  <2>1. \/ m = [flash[s] EXCEPT !.head = "torn"]
        \/ m = [flash[s] EXCEPT !.seq = 0]
        \/ m = [flash[s] EXCEPT !.flashed = "torn"]
        \/ m = [flash[s] EXCEPT !.booted = "torn"]
    BY <1>5 DEF Interrupted
  <2>2. 0 \in 0 .. BlankSeq
    BY <1>1
  <2> QED
    BY <1>1, <2>1, <2>2 DEF Metadata, Contents, Tags, has_flashed, has_booted
<1> QED
  BY <1>3, <1>4, <1>5
-----------------------------------------------------------------------------
(* Sections a step does not touch. *)
LEMMA SameSection ==
  ASSUME NEW s, flash'[s] = flash[s]
  PROVE  from_section(s)' <=> from_section(s)
BY DEF from_section, Complete

LEMMA OneSection ==
  ASSUME TypeOK, NEW s \in Sections, NEW m, flash' = [flash EXCEPT ![s] = m]
  PROVE  /\ flash'[s] = m
         /\ \A r \in Sections : r # s => flash'[r] = flash[r]
         /\ \A r \in Sections : r # s => (from_section(r)' <=> from_section(r))
         /\ m \in Metadata => flash' \in [Sections -> Metadata]
BY SameSection DEF TypeOK

LEMMA ValidHead ==
  ASSUME NEW s, from_section(s)
  PROVE  /\ flash[s].head \in Images
         /\ \A p \in 1 .. Len[flash[s].head] : flash[s].app[p] = flash[s].head
BY DEF from_section, Complete

(* An erased section is not valid. *)
LEMMA ErasedInvalid ==
  ASSUME NEW s, flash[s] = Erased
  PROVE  ~from_section(s)
BY ImageFacts, ValidHead DEF Erased

(* Survivors, without the stage. *)
LEMMA ValidPair ==
  /\ SlotsValid => TwoImages
  /\ \A t \in Sections : (\A s \in Sections : s # t => from_section(s)) => TwoImages
  /\ \A t \in Slots : TwoImages /\ ~from_section(t) =>
       \A s \in Sections : s # t => from_section(s)
BY DEF SlotsValid, TwoImages, Sections, Slots, Active

LEMMA SurvivorsTwo == TypeOK /\ Survivors => TwoImages
<1>1. TypeOK => job.to \in Sections
  BY DEF TypeOK, Jobs
<1> QED
  BY <1>1, ValidPair DEF Survivors

(* Both slots are valid when a decision is taken, and so from then on. *)
LEMMA DecidingSurvivors == Deciding => SlotsValid
BY DEF Deciding, SlotsValid

-----------------------------------------------------------------------------
LEMMA InitIInv == Init => IInv
<1> SUFFICES ASSUME Init PROVE IInv
  OBVIOUS
<1> USE DEF Init
<1>1. TypeOK
  BY ErasedType, ImageFacts, BoundsAssumption
     DEF TypeOK, Stages, Jobs, NoJob, Bootdata, NoData, Sections, Slots, Active, Contents
<1>2. Loading /\ Source /\ Installing /\ Booted
  BY DEF Loading, Source, Install, Installing, Booted
<1>3. FirstLoad
  <2>1. ASSUME NEW s \in Slots PROVE flash[s].app[Len[Demo[s]]] # Demo[s]
    <3>1. Len[Demo[s]] \in 1 .. MaxPages /\ Demo[s] # "blank"
      BY ImageFacts
    <3> QED
      BY <3>1, SectionFacts DEF Erased
  <2> QED
    BY <2>1, SectionFacts DEF FirstLoad
<1> QED
  BY <1>1, <1>2, <1>3 DEF IInv

(* The decisions. *)
LEMMA BootSeqType == TypeOK => boot_seq \in 0 .. BlankSeq
<1>1. TypeOK => flash[Active].seq \in 0 .. BlankSeq
  BY SectionFacts DEF TypeOK, Metadata
<1> QED
  BY <1>1, BoundsAssumption DEF boot_seq

LEMMA SlotChoices ==
  /\ writeover \in Slots
  /\ Recoverable # {} => recovery \in Slots
<1>1. writeover \in Slots
  BY DEF writeover, Lower, Slots
<1>2. ASSUME Recoverable # {} PROVE recovery \in Slots
  <2>1. Recoverable \subseteq Slots
    BY DEF Recoverable
  <2>2. (CHOOSE s \in Recoverable : TRUE) \in Recoverable
    BY <1>2
  <2> QED
    BY <2>1, <2>2 DEF recovery, Higher, Slots
<1> QED
  BY <1>1, <1>2

LEMMA InstallIInv ==
  ASSUME IInv, Deciding, NEW s \in Sections, from_section(s), InstallFrom(s),
         UNCHANGED <<flash, failures, downloads>>,
         bd' \in Bootdata, bd'.own \in Slots,
         bd'.rollback <=> s = Active, bd'.first <=> s \in Slots,
         s \in Slots => bd'.own = s
  PROVE  IInv'
<1>1. /\ job'.from = s /\ job'.to = Active /\ job'.img = flash[s].head
      /\ job'.seq = boot_seq /\ pc' = "erase" /\ at' = 0
  BY DEF InstallFrom
<1>2. flash[s].head \in Images /\ flash \in [Sections -> Metadata]
  BY ValidHead DEF IInv, TypeOK
<1>3. job' \in Jobs
  BY <1>2, BootSeqType, SectionFacts DEF InstallFrom, Jobs, has_flashed, Contents, IInv
<1>4. TypeOK'
  BY <1>1, <1>3, ImageFacts DEF IInv, TypeOK, Stages
<1>5. Loading' /\ Booted'
  BY <1>1 DEF Loading, Booted
<1>6. Source'
  BY <1>1, <1>2 DEF Source, Install
<1>7. Installing'
  <2>1. Len[flash[s].head] \in Nat
    BY <1>2, ImageFacts
  <2> QED
    BY <1>1, <2>1 DEF Installing
<1>8. Survivors'
  BY <1>1, DecidingSurvivors, SameSection DEF Survivors, SlotsValid
<1> QED
  BY <1>4, <1>5, <1>6, <1>7, <1>8 DEF IInv

LEMMA DecideInstallIInv ==
  ASSUME IInv, NEW s \in Slots, DecideInstall(s)
  PROVE  IInv'
<1>1. from_section(s) /\ Deciding /\ InstallFrom(s)
  BY DEF DecideInstall, Fresh
<1>2. bd' \in Bootdata /\ bd'.own = s /\ ~bd'.rollback /\ bd'.first
  BY SectionFacts DEF DecideInstall, Bootdata
<1> QED
  BY <1>1, <1>2, SectionFacts, InstallIInv DEF DecideInstall

LEMMA DecideRollbackIInv ==
  ASSUME IInv, DecideRollback
  PROVE  IInv'
<1>1. from_section(Active) /\ Deciding /\ InstallFrom(Active)
  BY DEF DecideRollback
<1>2. recovery \in Slots /\ writeover \in Slots
  BY SlotChoices DEF DecideRollback
<1>3. bd' \in Bootdata /\ bd'.own = recovery /\ bd'.rollback /\ ~bd'.first
  BY <1>2, SectionFacts DEF DecideRollback, Bootdata
<1> QED
  BY <1>1, <1>2, <1>3, SectionFacts, InstallIInv DEF DecideRollback

LEMMA DecideBootIInv ==
  ASSUME IInv, DecideBoot
  PROVE  IInv'
<1>1. pc' = "jump" /\ from_section(Active) /\ Deciding /\ UNCHANGED <<flash, at, job>>
  BY DEF DecideBoot
<1>2. bd' \in Bootdata /\ bd'.own = Active /\ ~bd'.rollback /\ ~bd'.first
  BY SlotChoices, SectionFacts DEF DecideBoot, Bootdata
<1>3. TypeOK'
  BY <1>1, <1>2 DEF DecideBoot, IInv, TypeOK, Stages
<1>4. Loading' /\ Source' /\ Installing'
  BY <1>1 DEF Loading, Source, Install, Installing
<1>5. Booted'
  BY <1>1, <1>2, SectionFacts, SameSection DEF Booted
<1>6. Survivors'
  BY <1>1, DecidingSurvivors, SameSection DEF Survivors, SlotsValid
<1> QED
  BY <1>3, <1>4, <1>5, <1>6 DEF IInv

LEMMA DecideHaltIInv ==
  ASSUME IInv, DecideHalt
  PROVE  IInv'
<1>1. pc' = "halt" /\ Deciding /\ UNCHANGED <<flash, at, job, bd>>
  BY DEF DecideHalt
<1>2. TypeOK'
  BY <1>1 DEF DecideHalt, IInv, TypeOK, Stages
<1>3. Loading' /\ Source' /\ Installing' /\ Booted'
  BY <1>1 DEF Loading, Source, Install, Installing, Booted
<1>4. Survivors'
  BY <1>1, DecidingSurvivors, SameSection DEF Survivors, SlotsValid
<1> QED
  BY <1>2, <1>3, <1>4 DEF IInv

LEMMA JumpIInv ==
  ASSUME IInv, Jump
  PROVE  IInv'
<1>1. pc = "jump" /\ pc' = "run" /\ UNCHANGED <<flash, at, job, bd>>
  BY DEF Jump
<1>2. TypeOK'
  BY <1>1 DEF Jump, IInv, TypeOK, Stages
<1>3. Loading' /\ Source' /\ Installing'
  BY <1>1 DEF Loading, Source, Install, Installing
<1>4. Booted'
  BY <1>1, SameSection DEF IInv, Booted
<1>5. Survivors'
  BY <1>1, SameSection DEF IInv, FirstLoad, Survivors, SlotsValid
<1> QED
  BY <1>2, <1>3, <1>4, <1>5 DEF IInv
-----------------------------------------------------------------------------
(* Loading a slot. *)
LEMMA LoadIntoType ==
  ASSUME TypeOK, NEW s \in Slots, NEW i \in Images, LoadInto(s, i)
  PROVE  /\ job' \in Jobs /\ job'.to = s /\ job'.img = i
         /\ pc' = "load" /\ at' = 0
<1>1. NoJob \in Jobs
  BY BoundsAssumption, SectionFacts DEF NoJob, Jobs, Contents
<1>2. s \in Sections /\ i \in Contents
  BY SectionFacts DEF Contents
<1> QED
  BY <1>1, <1>2 DEF LoadInto, NoJob, Jobs

LEMMA FakeloadIInv ==
  ASSUME IInv, NEW s \in Slots, fakeload_section(s)
  PROVE  IInv'
<1>1. LoadInto(s, Demo[s]) /\ Demo[s] \in Images /\ TypeOK
  BY ImageFacts DEF fakeload_section, IInv
<1>2. /\ job' \in Jobs /\ job'.to = s /\ job'.img = Demo[s]
      /\ pc' = "load" /\ at' = 0
  BY <1>1, LoadIntoType
<1>3. UNCHANGED <<flash, bd, failures, downloads>> /\ pc = "start" /\ ~from_section(s)
  BY DEF fakeload_section
<1>4. TypeOK'
  BY <1>1, <1>2, <1>3, ImageFacts DEF TypeOK, Stages
<1>5. Loading'
  BY <1>1, <1>2, ImageFacts DEF Loading
<1>6. Source' /\ Installing' /\ Booted'
  BY <1>2 DEF Source, Install, Installing, Booted
<1>7. ASSUME FirstLoad PROVE FirstLoad'
  BY <1>2, <1>3, <1>7, SameSection DEF FirstLoad
<1>8. ASSUME Survivors PROVE Survivors'
  <2>1. \A r \in Sections : r # s => from_section(r)
    BY <1>3, <1>8, ValidPair DEF Survivors
  <2> QED
    BY <1>2, <1>3, <2>1, SameSection DEF Survivors
<1> QED
  BY <1>4, <1>5, <1>6, <1>7, <1>8 DEF IInv

LEMMA LoadPageIInv ==
  ASSUME IInv, LoadPage
  PROVE  IInv'
<1>0. PICK s \in Slots : job.to = s
  BY DEF IInv, Loading, LoadPage
<1> DEFINE n == WithPage(flash[s], at, job.img)
<1>1. /\ pc = "load" /\ pc' = "load" /\ at <= Len[job.img] /\ at' = at + 1
      /\ flash' = [flash EXCEPT ![s] = n] /\ UNCHANGED <<job, bd, failures, downloads>>
  BY <1>0 DEF LoadPage
<1>2. /\ s \in Slots /\ s \in Sections /\ job.img \in Images /\ job.img \in Contents
      /\ Len[job.img] \in 1 .. MaxPages
      /\ at \in 0 .. Len[job.img] /\ at \in 0 .. MaxPages
      /\ flash[s] \in Metadata /\ TypeOK
  BY <1>1, ImageFacts, SectionFacts DEF IInv, Loading, TypeOK, Contents
<1>3. /\ n \in Metadata
      /\ at = 0 => /\ n.head = job.img /\ n.flashed = "blank" /\ n.booted = "blank"
                   /\ n.app = flash[s].app
      /\ at # 0 => /\ n.head = flash[s].head /\ n.flashed = flash[s].flashed
                   /\ n.booted = flash[s].booted /\ n.app[at] = job.img
                   /\ \A q \in 1 .. MaxPages : q # at => n.app[q] = flash[s].app[q]
  BY <1>2, PageType
<1> HIDE DEF n
<1>4. /\ flash'[s] = n /\ flash' \in [Sections -> Metadata]
      /\ \A r \in Sections : r # s =>
           flash'[r] = flash[r] /\ (from_section(r)' <=> from_section(r))
  BY <1>1, <1>2, <1>3, OneSection
<1>5. TypeOK'
  <2>1. at + 1 \in 0 .. MaxPages + 1
    BY <1>2, ImageFacts
  <2> QED
    BY <1>1, <1>2, <1>4, <2>1 DEF TypeOK
<1>6. Loading'
  <2>1. at + 1 \in 0 .. Len[job.img] + 1 /\ at + 1 > 0
    BY <1>2, ImageFacts
  <2>2. n.head = job.img /\ n.flashed = "blank" /\ n.booted = "blank"
    BY <1>1, <1>2, <1>3, <1>0 DEF IInv, Loading
  <2>3. ASSUME NEW p \in 1 .. Len[job.img], p < at + 1 PROVE n.app[p] = job.img
    <3>1. p \in 1 .. MaxPages
      BY <1>2, ImageFacts
    <3>2. CASE p = at
      BY <3>2, <1>3, <2>3
    <3>3. CASE p # at
      <4>1. p < at /\ at # 0
        BY <3>3, <2>3, <1>2, <3>1
      <4> QED
        BY <1>1, <1>3, <1>0, <2>3, <3>1, <4>1 DEF IInv, Loading
    <3> QED
      BY <3>2, <3>3
  <2> QED
    BY <1>1, <1>2, <1>4, <1>0, <2>1, <2>2, <2>3 DEF Loading
<1>7. Source' /\ Installing' /\ Booted'
  BY <1>1 DEF Source, Install, Installing, Booted
<1>8. ASSUME FirstLoad PROVE FirstLoad'
  <2>1. job.img = Demo[s] /\ ~from_section(s) /\ flash[s].app[Len[Demo[s]]] # Demo[s]
    BY <1>1, <1>2, <1>8, <1>0 DEF FirstLoad
  <2>2. flash[Active] = Erased /\ s # Active
    BY <1>2, <1>8, SectionFacts DEF FirstLoad
  <2>3. CASE at < Len[job.img]
    <3>1. n.app[Len[job.img]] # job.img /\ n.head = job.img
      <4>1. CASE at = 0
        BY <4>1, <1>3, <2>1
      <4>2. CASE at # 0
        <5>1. Len[job.img] \in 1 .. MaxPages /\ Len[job.img] # at
          BY <1>2, <2>3
        <5>2. flash[s].head = job.img
          BY <1>1, <1>2, <1>0, <4>2 DEF IInv, Loading
        <5> QED
          BY <4>2, <5>1, <5>2, <1>3, <2>1
      <4> QED
        BY <4>1, <4>2
    <3>2. ~from_section(s)'
      BY <3>1, <1>2, <1>4 DEF from_section, Complete
    <3> QED
      BY <1>1, <1>2, <1>4, <1>8, <1>0, <2>1, <2>2, <3>1, <3>2, SectionFacts DEF FirstLoad
  <2>4. CASE at = Len[job.img]
    <3>1. from_section(s)'
      <4>1. at + 1 > 0 /\ \A p \in 1 .. Len[job.img] : p < at + 1
        BY <1>2, <2>4
      <4> QED
        BY <1>1, <1>2, <1>6, <1>0, <4>1 DEF Loading, from_section, Complete
    <3>2. ~(at + 1 <= Len[job.img])
      BY <1>2, <2>4
    <3> QED
      BY <1>1, <1>2, <1>4, <1>8, <1>0, <2>1, <2>2, <3>1, <3>2, SectionFacts DEF FirstLoad
  <2>5. at < Len[job.img] \/ at = Len[job.img]
    BY <1>2
  <2> QED
    BY <2>3, <2>4, <2>5 DEF IInv
<1>9. ASSUME Survivors PROVE Survivors'
  BY <1>0, <1>1, <1>4, <1>9 DEF Survivors
<1> QED
  BY <1>5, <1>6, <1>7, <1>8, <1>9 DEF IInv

LEMMA LoadDoneIInv ==
  ASSUME IInv, LoadDone
  PROVE  IInv'
<1>1. pc = "load" /\ pc' = "start" /\ at' = 0 /\ job' = NoJob /\ UNCHANGED <<flash, bd>>
  BY DEF LoadDone
<1>2. TypeOK'
  BY <1>1, BoundsAssumption, ImageFacts, SectionFacts
     DEF LoadDone, IInv, TypeOK, Stages, Jobs, NoJob, Contents
<1>3. Loading' /\ Source' /\ Installing' /\ Booted'
  BY <1>1 DEF Loading, Source, Install, Installing, Booted
<1>4. ASSUME FirstLoad PROVE FirstLoad'
  BY <1>1, <1>4, SameSection DEF FirstLoad
<1>5. ASSUME Survivors PROVE Survivors'
  <2>1. TwoImages
    BY <1>1, <1>5, SurvivorsTwo DEF IInv
  <2>2. TwoImages'
    BY <1>1, <2>1, SameSection DEF TwoImages
  <2> QED
    BY <1>1, <2>2 DEF Survivors
<1> QED
  BY <1>2, <1>3, <1>4, <1>5 DEF IInv

LEMMA DownloadIInv ==
  ASSUME IInv, NEW i \in Images, Download(i)
  PROVE  IInv'
<1>1. LoadInto(bd.nxt, i) /\ bd.nxt \in Slots /\ TypeOK
  BY DEF Download, IInv, TypeOK, Bootdata
<1>2. /\ job' \in Jobs /\ job'.to = bd.nxt /\ job'.img = i
      /\ pc' = "load" /\ at' = 0
  BY <1>1, LoadIntoType
<1>3. /\ pc = "run" /\ from_section(Active) /\ UNCHANGED <<flash, bd, failures>>
      /\ downloads' \in 0 .. MaxDownloads
  BY BoundsAssumption DEF Download, Running, IInv, TypeOK
<1>4. TypeOK'
  BY <1>1, <1>2, <1>3, ImageFacts DEF TypeOK, Stages
<1>5. Loading'
  BY <1>1, <1>2, ImageFacts DEF Loading
<1>6. Source' /\ Installing' /\ Booted'
  BY <1>2 DEF Source, Install, Installing, Booted
<1>7. SlotsValid
  BY <1>3 DEF IInv, FirstLoad, Survivors
<1>8. Survivors'
  BY <1>2, <1>3, <1>7, SectionFacts, SameSection DEF Survivors, SlotsValid
<1> QED
  BY <1>4, <1>5, <1>6, <1>8 DEF IInv
-----------------------------------------------------------------------------
(* Installing: the slots stay as they are until the last step. *)
LEMMA ActiveStep ==
  ASSUME IInv, pc \in Install, NEW m \in Metadata,
         flash' = [flash EXCEPT ![Active] = m],
         UNCHANGED <<job, bd, failures, downloads>>, pc' \in Install, at' \in 0 .. MaxPages + 1
  PROVE  /\ flash'[Active] = m
         /\ TypeOK' /\ Loading' /\ Source' /\ Booted' /\ Survivors'
<1>1. TypeOK /\ Active \in Sections
  BY SectionFacts DEF IInv
<1>2. /\ flash'[Active] = m /\ flash' \in [Sections -> Metadata]
      /\ \A r \in Slots : flash'[r] = flash[r] /\ (from_section(r)' <=> from_section(r))
  BY <1>1, OneSection, SectionFacts
<1>3. pc' \in Stages /\ pc' \notin {"start", "load", "jump", "run", "mark"}
  BY DEF Install, Stages
<1>5. TypeOK'
  BY <1>1, <1>2, <1>3 DEF TypeOK
<1>6. Loading' /\ Booted'
  BY <1>3 DEF Loading, Booted
<1>7. Source'
  BY <1>2 DEF IInv, Source
<1>8. SlotsValid
  BY DEF IInv, FirstLoad, Survivors, Install
<1>9. Survivors'
  BY <1>2, <1>3, <1>8 DEF Survivors, SlotsValid
<1> QED
  BY <1>2, <1>5, <1>6, <1>7, <1>9

LEMMA InstallFacts ==
  ASSUME IInv, pc \in Install
  PROVE  /\ TypeOK /\ flash[Active] \in Metadata
         /\ job.img \in Images /\ job.img \in Contents
         /\ Len[job.img] \in 1 .. MaxPages /\ MaxPages \in Nat
         /\ job.from \in Sections /\ flash[job.from] \in Metadata
         /\ job.seq \in 0 .. BlankSeq
         /\ SlotsValid
<1>1. TypeOK /\ SlotsValid /\ job.img \in Images
  BY DEF IInv, FirstLoad, Survivors, Install, Source
<1>2. job.from \in Sections /\ job.seq \in 0 .. BlankSeq
  BY <1>1 DEF TypeOK, Jobs
<1> QED
  BY <1>1, <1>2, ImageFacts, SectionFacts DEF TypeOK, Contents

LEMMA EraseIInv ==
  ASSUME IInv, erase_app_section
  PROVE  IInv'
<1> DEFINE m == WithPage(flash[Active], at, "blank")
<1>1. pc = "erase" /\ flash' = [flash EXCEPT ![Active] = m]
      /\ UNCHANGED <<job, bd, failures, downloads>>
      /\ \/ at < Len[job.img] /\ at' = at + 1 /\ pc' = "erase"
         \/ ~(at < Len[job.img]) /\ at' = 1 /\ pc' = "copy"
  BY DEF erase_app_section
<1>2. /\ flash[Active] \in Metadata /\ "blank" \in Contents
      /\ Len[job.img] \in 1 .. MaxPages /\ MaxPages \in Nat
      /\ pc \in Install /\ pc' \in Install
  BY <1>1, InstallFacts DEF Install, Contents
<1>3. at \in 0 .. Len[job.img] /\ at \in 0 .. MaxPages
  BY <1>1, <1>2 DEF IInv, Installing
<1>4. at' \in 0 .. MaxPages + 1
  BY <1>1, <1>2, <1>3
<1>5. /\ m \in Metadata
      /\ at = 0 => /\ m.head = "blank" /\ m.flashed = "blank" /\ m.booted = "blank"
                   /\ m.app = flash[Active].app
      /\ at # 0 => /\ m.head = flash[Active].head /\ m.flashed = flash[Active].flashed
                   /\ m.booted = flash[Active].booted /\ m.app[at] = "blank"
                   /\ \A q \in 1 .. MaxPages : q # at => m.app[q] = flash[Active].app[q]
  BY <1>2, <1>3, PageType
<1> HIDE DEF m
<1>6. flash'[Active] = m /\ TypeOK' /\ Loading' /\ Source' /\ Booted' /\ Survivors'
  BY <1>1, <1>2, <1>4, <1>5, ActiveStep
<1>7. m.head = "blank" /\ m.flashed = "blank" /\ m.booted = "blank"
  BY <1>1, <1>3, <1>5 DEF IInv, Installing, NoHeader
<1>8. ASSUME NEW p \in 1 .. Len[job.img], p < at + 1 PROVE m.app[p] = "blank"
  <2>1. p # 0
    OBVIOUS
  <2>2. CASE p = at
    BY <2>1, <2>2, <1>5, <1>3
  <2>3. CASE p # at
    <3>1. p < at /\ at # 0 /\ p \in 1 .. MaxPages
      BY <2>3, <1>2, <1>3, <1>8
    <3>2. flash[Active].app[p] = "blank"
      BY <3>1, <1>1 DEF IInv, Installing
    <3> QED
      BY <3>1, <3>2, <2>3, <1>5
  <2> QED
    BY <2>2, <2>3
<1>9. Installing'
  <2>1. CASE at < Len[job.img] /\ at' = at + 1 /\ pc' = "erase"
    <3>1. at + 1 \in 0 .. Len[job.img]
      BY <2>1, <1>2, <1>3
    <3> QED
      BY <2>1, <3>1, <1>1, <1>6, <1>7, <1>8 DEF Installing, NoHeader
  <2>2. CASE ~(at < Len[job.img]) /\ at' = 1 /\ pc' = "copy"
    <3>1. 1 \in 1 .. Len[job.img] /\ \A p \in 1 .. Len[job.img] : p < at + 1 /\ ~(p < 1)
      BY <2>2, <1>2, <1>3
    <3> QED
      BY <2>2, <3>1, <1>1, <1>6, <1>7, <1>8 DEF Installing, NoHeader
  <2> QED
    BY <2>1, <2>2, <1>1
<1> QED
  BY <1>6, <1>9 DEF IInv

(* What is copied is the page of the slot, or the page just erased. *)
LEMMA PageCopied ==
  ASSUME IInv, pc = "copy"
  PROVE  flash[job.from].app[at] = Copied
<1>1. pc \in Install /\ at \in 1 .. Len[job.img]
  BY DEF Install, IInv, Installing
<1>2. CASE job.from = Active
  <2>1. ~(at < at)
    BY <1>1, InstallFacts
  <2> QED
    BY <1>1, <1>2, <2>1 DEF IInv, Installing, Copied
<1>3. CASE job.from # Active
  <2>1. job.from \in Slots /\ from_section(job.from) /\ flash[job.from].head = job.img
    BY <1>1, <1>3, InstallFacts, SectionFacts DEF SlotsValid, IInv, Source
  <2> QED
    BY <1>1, <1>3, <2>1, ValidHead DEF Copied
<1> QED
  BY <1>2, <1>3

LEMMA CopyIInv ==
  ASSUME IInv, copy_section_to_app
  PROVE  IInv'
<1> DEFINE m == [flash[Active] EXCEPT !.app[at] = Copied]
<1>1. pc = "copy" /\ flash' = [flash EXCEPT ![Active] = m]
      /\ UNCHANGED <<job, bd, failures, downloads>>
      /\ \/ at < Len[job.img] /\ at' = at + 1 /\ pc' = "copy"
         \/ ~(at < Len[job.img]) /\ at' = 0 /\ pc' = "head"
  <2>1. flash[job.from].app[at] = Copied
    BY PageCopied DEF copy_section_to_app
  <2> QED
    BY <2>1 DEF copy_section_to_app
<1>2. /\ flash[Active] \in Metadata /\ Copied \in Contents
      /\ Len[job.img] \in 1 .. MaxPages /\ MaxPages \in Nat
      /\ pc \in Install /\ pc' \in Install
  BY <1>1, InstallFacts DEF Install, Contents, Copied
<1>3. at \in 1 .. Len[job.img] /\ at \in 1 .. MaxPages
  BY <1>1, <1>2 DEF IInv, Installing
<1>4. at' \in 0 .. MaxPages + 1
  BY <1>1, <1>2, <1>3
<1>5. /\ m \in Metadata
      /\ m.head = flash[Active].head /\ m.flashed = flash[Active].flashed
      /\ m.booted = flash[Active].booted /\ m.app[at] = Copied
      /\ \A q \in 1 .. MaxPages : q # at => m.app[q] = flash[Active].app[q]
  BY <1>2, <1>3 DEF Metadata
<1> HIDE DEF m
<1>6. flash'[Active] = m /\ TypeOK' /\ Loading' /\ Source' /\ Booted' /\ Survivors'
  BY <1>1, <1>2, <1>4, <1>5, ActiveStep
<1>7. m.head = "blank" /\ m.flashed = "blank" /\ m.booted = "blank"
  BY <1>1, <1>5 DEF IInv, Installing, NoHeader
<1>8. ASSUME NEW p \in 1 .. Len[job.img]
      PROVE  m.app[p] = IF p < at + 1 THEN Copied ELSE "blank"
  <2>1. p \in 1 .. MaxPages /\ (p # at => (p < at + 1 <=> p < at)) /\ at < at + 1
    BY <1>2, <1>3
  <2>2. flash[Active].app[p] = IF p < at THEN Copied ELSE "blank"
    BY <1>1 DEF IInv, Installing
  <2> QED
    BY <2>1, <2>2, <1>5
<1>9. Installing'
  <2>0. Copied' = Copied
    BY <1>1 DEF Copied
  <2>1. CASE at < Len[job.img] /\ at' = at + 1 /\ pc' = "copy"
    <3>1. at + 1 \in 1 .. Len[job.img]
      BY <2>1, <1>2, <1>3
    <3> QED
      BY <2>0, <2>1, <3>1, <1>1, <1>6, <1>7, <1>8 DEF Installing, NoHeader
  <2>2. CASE ~(at < Len[job.img]) /\ at' = 0 /\ pc' = "head"
    <3>1. \A p \in 1 .. Len[job.img] : p < at + 1
      BY <2>2, <1>2, <1>3
    <3> QED
      BY <2>0, <2>2, <3>1, <1>1, <1>6, <1>7, <1>8 DEF Installing, NoHeader
  <2> QED
    BY <2>1, <2>2, <1>1
<1> QED
  BY <1>6, <1>9 DEF IInv

(* The words of the header, one after the other. *)
LEMMA HeaderIInv ==
  ASSUME IInv, WriteHead \/ WriteSeq \/ WriteOwnFlashed
  PROVE  IInv'
<1>1. /\ pc \in {"head", "seq", "own"} /\ pc' \in {"seq", "own", "origin"}
      /\ UNCHANGED <<at, job, bd, failures, downloads>>
  BY DEF WriteHead, WriteSeq, WriteOwnFlashed
<1>2. pc \in Install /\ pc' \in Install
  BY <1>1 DEF Install
<1>3. /\ flash[Active] \in Metadata /\ job.img \in Contents /\ job.seq \in 0 .. BlankSeq
      /\ at' \in 0 .. MaxPages + 1
  BY <1>1, <1>2, InstallFacts DEF TypeOK
<1>4. PICK m \in Metadata :
        /\ flash' = [flash EXCEPT ![Active] = m]
        /\ m.head = job.img /\ m.flashed # "torn" /\ m.booted = "blank"
        /\ m.app = flash[Active].app
  <2>1. CASE WriteHead
    <3>1. /\ flash[Active].flashed = "blank" /\ flash[Active].booted = "blank"
          /\ flash' = [flash EXCEPT ![Active] = [flash[Active] EXCEPT !.head = job.img]]
      BY <2>1 DEF WriteHead, IInv, Installing, NoHeader
    <3>2. [flash[Active] EXCEPT !.head = job.img] \in Metadata
      BY <1>3 DEF Metadata
    <3> QED
      BY <3>1, <3>2, <1>3 DEF Metadata
  <2>2. CASE WriteSeq
    <3>1. /\ flash[Active].head = job.img
          /\ flash[Active].flashed # "torn" /\ flash[Active].booted = "blank"
          /\ flash' = [flash EXCEPT ![Active] = [flash[Active] EXCEPT !.seq = job.seq]]
      BY <2>2 DEF WriteSeq, IInv, Installing
    <3>2. [flash[Active] EXCEPT !.seq = job.seq] \in Metadata
      BY <1>3 DEF Metadata
    <3> QED
      BY <3>1, <3>2, <1>3 DEF Metadata
  <2>3. CASE WriteOwnFlashed
    <3>1. /\ flash[Active].head = job.img /\ flash[Active].booted = "blank"
          /\ flash' = [flash EXCEPT ![Active] = [flash[Active] EXCEPT !.flashed = "set"]]
      BY <2>3 DEF WriteOwnFlashed, IInv, Installing
    <3>2. [flash[Active] EXCEPT !.flashed = "set"] \in Metadata
      BY <1>3 DEF Metadata, Tags
    <3> QED
      BY <3>1, <3>2, <1>3 DEF Metadata
  <2> QED
    BY <2>1, <2>2, <2>3
<1>5. flash'[Active] = m /\ TypeOK' /\ Loading' /\ Source' /\ Booted' /\ Survivors'
  BY <1>1, <1>2, <1>3, <1>4, ActiveStep
<1>6. \A p \in 1 .. Len[job.img] : flash[Active].app[p] = Copied
  BY <1>1 DEF IInv, Installing
<1>7. Copied' = Copied
  BY <1>1 DEF Copied
<1>8. Installing'
  BY <1>1, <1>4, <1>5, <1>6, <1>7 DEF Installing
<1> QED
  BY <1>5, <1>8 DEF IInv

(* The slot is marked: what the boot data say of section 1 is now so. *)
LEMMA Installed ==
  ASSUME IInv, pc = "origin"
  PROVE  IF bd.rollback
           THEN flash[Active].app[1] = "blank"
           ELSE /\ job.from \in Slots /\ bd.own = job.from /\ bd.first
                /\ flash[job.from].head = job.img /\ flash[Active].head = job.img
                /\ from_section(Active)
<1>1. pc \in Install
  BY DEF Install
<1>2. \A p \in 1 .. Len[job.img] : flash[Active].app[p] = Copied
  BY DEF IInv, Installing
<1>3. CASE bd.rollback
  <2>1. Copied = "blank"
    BY <1>1, <1>3 DEF IInv, Source, Copied
  <2>2. 1 \in 1 .. Len[job.img]
    BY <1>1, InstallFacts
  <2> QED
    BY <1>2, <1>3, <2>1, <2>2
<1>4. CASE ~bd.rollback
  <2>1. job.from # Active /\ job.from \in Slots
    BY <1>1, <1>4, InstallFacts, SectionFacts DEF IInv, Source
  <2>2. bd.own = job.from /\ bd.first /\ flash[job.from].head = job.img
    BY <1>1, <2>1 DEF IInv, Source
  <2>3. /\ flash[Active].head = job.img
        /\ flash[Active].flashed # "torn" /\ flash[Active].booted # "torn"
    BY DEF IInv, Installing
  <2>4. from_section(Active)
    BY <1>1, <1>2, <2>1, <2>3, InstallFacts DEF Copied, from_section, Complete
  <2> QED
    BY <1>4, <2>1, <2>2, <2>3, <2>4
<1> QED
  BY <1>3, <1>4

(* A tag that is set in a section changes nothing else. *)
LEMMA TagSet ==
  ASSUME NEW m \in Metadata, NEW n,
         n = [m EXCEPT !.flashed = "set"] \/ n = [m EXCEPT !.booted = "set"]
  PROVE  n \in Metadata /\ n.head = m.head /\ n.app = m.app
BY DEF Metadata, Tags

LEMMA TagSetValid ==
  ASSUME TypeOK, NEW s \in Sections, from_section(s), flash'[s] =
         [flash[s] EXCEPT !.flashed = "set"] \/ flash'[s] = [flash[s] EXCEPT !.booted = "set"]
  PROVE  from_section(s)'
<1>1. flash[s] \in Metadata
  BY DEF TypeOK
<1> QED
  BY <1>1 DEF from_section, Complete, Metadata

LEMMA OriginIInv ==
  ASSUME IInv, WriteOriginFlashed
  PROVE  IInv'
<1>1. /\ pc = "origin" /\ pc' = "jump" /\ UNCHANGED <<at, bd, failures, downloads>>
      /\ job' = NoJob
  BY DEF WriteOriginFlashed
<1>2. /\ TypeOK /\ SlotsValid /\ job.from \in Sections /\ flash[job.from] \in Metadata
  BY <1>1, InstallFacts DEF Install
<1> DEFINE n == [flash[job.from] EXCEPT !.flashed = "set"]
<1>3. n \in Metadata /\ n.head = flash[job.from].head /\ n.app = flash[job.from].app
  BY <1>2, TagSet
<1>4. flash' = flash \/ flash' = [flash EXCEPT ![job.from] = n]
  <2>1. [flash EXCEPT ![job.from].flashed = "set"] = [flash EXCEPT ![job.from] = n]
    BY <1>2 DEF TypeOK
  <2> QED
    BY <2>1 DEF WriteOriginFlashed
<1>5. /\ flash' \in [Sections -> Metadata]
      /\ \A r \in Sections : /\ flash'[r].head = flash[r].head /\ flash'[r].app = flash[r].app
                             /\ from_section(r) => from_section(r)'
  <2>1. CASE flash' = flash
    BY <1>2, <2>1, SameSection DEF TypeOK
  <2>2. CASE flash' = [flash EXCEPT ![job.from] = n]
    <3>1. /\ flash'[job.from] = n /\ flash' \in [Sections -> Metadata]
          /\ \A r \in Sections : r # job.from =>
               flash'[r] = flash[r] /\ (from_section(r)' <=> from_section(r))
      BY <1>2, <1>3, <2>2, OneSection
    <3>2. from_section(job.from) => \A s \in Sections : s = job.from => from_section(s)'
      BY <1>2, <3>1, TagSetValid
    <3> QED
      BY <1>3, <3>1, <3>2
  <2> QED
    BY <1>4, <2>1, <2>2
<1>6. TypeOK'
  <2>1. NoJob \in Jobs
    BY BoundsAssumption, SectionFacts DEF NoJob, Jobs, Contents
  <2> QED
    BY <1>1, <1>2, <1>5, <2>1 DEF TypeOK, Stages
<1>7. Loading' /\ Source' /\ Installing'
  BY <1>1 DEF Loading, Source, Install, Installing
<1>8. Booted'
  <2>1. bd.own \in Slots /\ bd.own \in Sections
    BY <1>1, SectionFacts DEF IInv, Source, Install
  <2> QED
    BY <1>1, <1>5, <2>1, Installed, SectionFacts DEF Booted
<1>9. Survivors'
  BY <1>1, <1>2, <1>5, SectionFacts DEF Survivors, SlotsValid
<1> QED
  BY <1>6, <1>7, <1>8, <1>9 DEF IInv
-----------------------------------------------------------------------------
(* The application.  One that finds section 1 valid was not rolled back    *)
(* to, and section 1 is what the boot data say.                            *)
LEMMA NotRolledBack ==
  ASSUME IInv, pc \in {"jump", "run", "mark"}, from_section(Active)
  PROVE  /\ ~bd.rollback
         /\ bd.own \in Slots => flash[Active].head = flash[bd.own].head
<1>1. 1 \in 1 .. Len[flash[Active].head] /\ flash[Active].head # "blank"
  BY ValidHead, ImageFacts
<1>2. flash[Active].app[1] # "blank"
  BY <1>1, ValidHead
<1> QED
  BY <1>2 DEF IInv, Booted

LEMMA BootedTag ==
  ASSUME IInv, NEW s \in Sections, pc \in {"run", "mark"}, pc' \in {"run", "mark"},
         flash' = [flash EXCEPT ![s].booted = "set"],
         UNCHANGED <<at, job, bd, failures, downloads>>
  PROVE  IInv'
<1> DEFINE n == [flash[s] EXCEPT !.booted = "set"]
<1>1. TypeOK /\ flash[s] \in Metadata /\ SlotsValid
  BY DEF IInv, TypeOK, FirstLoad, Survivors
<1>2. n \in Metadata /\ n.head = flash[s].head /\ n.app = flash[s].app
  BY <1>1, TagSet
<1>3. flash' = [flash EXCEPT ![s] = n]
  BY <1>1 DEF TypeOK
<1>4. /\ flash'[s] = n /\ flash' \in [Sections -> Metadata]
      /\ \A r \in Sections : r # s =>
           flash'[r] = flash[r] /\ (from_section(r)' <=> from_section(r))
  BY <1>1, <1>2, <1>3, OneSection
<1>5. ASSUME NEW r \in Sections
      PROVE  /\ flash'[r].head = flash[r].head /\ flash'[r].app = flash[r].app
             /\ from_section(r) => from_section(r)'
  <2>1. CASE r = s
    <3>1. flash'[r] = [flash[r] EXCEPT !.booted = "set"]
      BY <2>1, <1>4
    <3> QED
      BY <2>1, <3>1, <1>1, <1>2, <1>4, TagSetValid
  <2>2. CASE r # s
    BY <2>2, <1>4
  <2> QED
    BY <2>1, <2>2
<1>6. TypeOK'
  BY <1>1, <1>4 DEF TypeOK, Stages
<1>7. Loading' /\ Source' /\ Installing'
  BY DEF Loading, Source, Install, Installing
<1>8. Booted'
  <2>1. bd.own \in Slots => bd.own \in Sections
    BY SectionFacts
  <2> QED
    BY <1>5, <2>1, SectionFacts DEF IInv, Booted
<1>9. Survivors'
  BY <1>1, <1>5, SectionFacts DEF Survivors, SlotsValid
<1> QED
  BY <1>6, <1>7, <1>8, <1>9 DEF IInv

LEMMA MarkIInv ==
  ASSUME IInv, MarkStorage \/ MarkActive
  PROVE  IInv'
<1>1. CASE MarkStorage
  <2>1. bd.own \in Sections /\ from_section(bd.own) /\ pc = "run"
    BY <1>1 DEF MarkStorage, ReadyToMark, Running, IInv, TypeOK, Bootdata
  <2> QED
    BY <1>1, <2>1, BootedTag DEF MarkStorage
<1>2. CASE MarkActive
  BY <1>2, SectionFacts, BootedTag DEF MarkActive
<1> QED
  BY <1>1, <1>2

-----------------------------------------------------------------------------
(* Starting again. *)
LEMMA RestartIInv ==
  ASSUME TypeOK, Restart, flash' \in [Sections -> Metadata],
         failures' \in 0 .. MaxFailures, downloads' \in 0 .. MaxDownloads,
         (FirstLoad \/ Survivors)'
  PROVE  IInv'
<1>1. pc' = "start" /\ at' = 0 /\ job' = NoJob /\ bd' = NoData
  BY DEF Restart
<1>2. NoJob \in Jobs /\ NoData \in Bootdata
  BY BoundsAssumption, SectionFacts DEF NoJob, Jobs, Contents, NoData, Bootdata, Slots
<1>3. TypeOK'
  BY <1>1, <1>2, ImageFacts DEF TypeOK, Stages
<1>4. Loading' /\ Source' /\ Installing' /\ Booted'
  BY <1>1 DEF Loading, Source, Install, Installing, Booted
<1> QED
  BY <1>3, <1>4 DEF IInv

LEMMA RestartSame ==
  ASSUME IInv, Restart, flash' = flash
  PROVE  (FirstLoad \/ Survivors)'
<1>1. pc' = "start"
  BY DEF Restart
<1>2. ASSUME FirstLoad PROVE FirstLoad'
  BY <1>1, <1>2, SameSection DEF FirstLoad
<1>3. ASSUME Survivors PROVE Survivors'
  BY <1>1, <1>3, SurvivorsTwo, SameSection DEF Survivors, TwoImages, IInv
<1> QED
  BY <1>2, <1>3 DEF IInv

LEMMA ResetIInv ==
  ASSUME IInv, Reset
  PROVE  IInv'
BY RestartIInv, RestartSame DEF Reset, IInv, TypeOK

(* Where the power can tear a section. *)
LEMMA TornStage ==
  ASSUME NEW s \in Sections, Interrupted(s) # {}
  PROVE  \/ pc = "load" /\ s = job.to /\ at <= Len[job.img]
         \/ pc \in Install /\ s = Active
         \/ pc = "origin" /\ s = job.from
         \/ pc = "mark" /\ s = Active
         \/ ReadyToMark /\ s = bd.own
BY DEF Interrupted, Install

(* A step that may tear a section leaves two others valid. *)
LEMMA TornOne ==
  ASSUME IInv, Survivors, NEW s \in Sections, Interrupted(s) # {}
  PROVE  \A r \in Sections : r # s => from_section(r)
<1>1. CASE pc = "load" /\ s = job.to
  BY <1>1 DEF Survivors
<1>2. CASE pc \notin {"start", "load"} /\ s = Active
  BY <1>2, SectionFacts DEF Survivors, SlotsValid
<1>3. CASE pc = "origin" /\ s = job.from /\ s # Active
  <2>1. ~bd.rollback
    BY <1>3 DEF IInv, Source, Install
  <2> QED
    BY <1>3, <2>1, Installed, SectionFacts DEF Survivors, SlotsValid
<1>4. CASE ReadyToMark
  BY <1>4, SectionFacts DEF ReadyToMark, Running, Survivors, SlotsValid
<1> QED
  BY <1>1, <1>2, <1>3, <1>4, TornStage DEF Install

(* A torn page is not the last page of an image. *)
LEMMA TornFirst ==
  ASSUME IInv, FirstLoad, NEW s \in Sections, NEW m \in Interrupted(s)
  PROVE  /\ s \in Slots /\ pc = "load"
         /\ m.app[Len[Demo[s]]] # Demo[s]
<1>1. pc = "load" /\ s = job.to /\ at <= Len[job.img]
  BY TornStage DEF FirstLoad, Install, ReadyToMark, Running
<1>2. /\ s \in Slots /\ job.img = Demo[s] /\ ~from_section(s)
      /\ at \in 0 .. Len[job.img] + 1 /\ job.img \in Images
      /\ flash[s] \in Metadata
  BY <1>1 DEF FirstLoad, IInv, Loading, TypeOK
<1>3. flash[s].app[Len[Demo[s]]] # Demo[s]
  BY <1>2 DEF FirstLoad
<1>4. m \in TornPage(flash[s])
  BY <1>1 DEF Interrupted, ReadyToMark, Running
<1>5. m.app[Len[Demo[s]]] # Demo[s]
  <2>1. CASE at = 0
    BY <1>2, <1>3, <1>4, <2>1, FadedType DEF TornPage
  <2>2. CASE at # 0
    <3>1. at \in 1 .. MaxPages /\ Len[Demo[s]] \in 1 .. MaxPages /\ Demo[s] # "torn"
      BY <1>1, <1>2, <2>2, ImageFacts
    <3>2. m = [flash[s] EXCEPT !.app[at] = "torn"]
      BY <1>4, <2>2 DEF TornPage
    <3>3. m.app = [flash[s].app EXCEPT ![at] = "torn"]
      BY <1>2, <3>2 DEF Metadata
    <3> QED
      BY <1>2, <1>3, <3>1, <3>3 DEF Metadata
  <2> QED
    BY <2>1, <2>2
<1> QED
  BY <1>1, <1>2, <1>5

LEMMA PowerFailsIInv ==
  ASSUME IInv, PowerFails
  PROVE  IInv'
<1>1. /\ Restart /\ TypeOK
      /\ failures' \in 0 .. MaxFailures /\ downloads' \in 0 .. MaxDownloads
  BY BoundsAssumption DEF PowerFails, IInv, TypeOK
<1>2. CASE UNCHANGED flash
  BY <1>1, <1>2, RestartIInv, RestartSame DEF TypeOK
<1>3. ASSUME NEW s \in Sections, NEW m \in Interrupted(s), flash' = [flash EXCEPT ![s] = m]
      PROVE  IInv'
  <2>1. m \in Metadata
    BY InterruptedType DEF IInv
  <2>2. /\ flash'[s] = m /\ flash' \in [Sections -> Metadata]
        /\ \A r \in Sections : r # s =>
             flash'[r] = flash[r] /\ (from_section(r)' <=> from_section(r))
    BY <1>1, <1>3, <2>1, OneSection
  <2>3. pc' = "start"
    BY <1>1 DEF Restart
  <2>4. ASSUME FirstLoad PROVE FirstLoad'
    <3>1. s \in Slots /\ m.app[Len[Demo[s]]] # Demo[s]
      BY <2>4, TornFirst
    <3> QED
      BY <2>2, <2>3, <2>4, <3>1, SectionFacts DEF FirstLoad
  <2>5. ASSUME Survivors PROVE Survivors'
    <3>1. \A r \in Sections : r # s => from_section(r)'
      BY <2>2, <2>5, TornOne
    <3>2. TwoImages'
      BY <3>1 DEF TwoImages, Sections, Slots, Active
    <3> QED
      BY <2>3, <3>2 DEF Survivors
  <2> QED
    BY <1>1, <2>2, <2>4, <2>5, RestartIInv DEF IInv
<1> QED
  BY <1>2, <1>3 DEF PowerFails

LEMMA StepIInv == IInv /\ [Next]_vars => IInv'
<1> SUFFICES ASSUME IInv, [Next]_vars PROVE IInv'
  OBVIOUS
<1>1. CASE \E s \in Slots : DecideInstall(s) \/ fakeload_section(s)
  BY <1>1, DecideInstallIInv, FakeloadIInv
<1>2. CASE DecideBoot \/ DecideRollback \/ DecideHalt
  BY <1>2, DecideBootIInv, DecideRollbackIInv, DecideHaltIInv
<1>3. CASE LoadPage \/ LoadDone
  BY <1>3, LoadPageIInv, LoadDoneIInv
<1>4. CASE erase_app_section \/ copy_section_to_app
  BY <1>4, EraseIInv, CopyIInv
<1>5. CASE WriteHead \/ WriteSeq \/ WriteOwnFlashed \/ WriteOriginFlashed
  BY <1>5, HeaderIInv, OriginIInv
<1>6. CASE Jump
  BY <1>6, JumpIInv
<1>7. CASE MarkStorage \/ MarkActive
  BY <1>7, MarkIInv
<1>8. CASE \E i \in Images : Download(i)
  BY <1>8, DownloadIInv
<1>9. CASE Reset \/ PowerFails
  BY <1>9, ResetIInv, PowerFailsIInv
<1>10. CASE UNCHANGED vars
  <2>1. /\ flash' = flash /\ pc' = pc /\ at' = at /\ job' = job /\ bd' = bd
        /\ failures' = failures /\ downloads' = downloads
    BY <1>10 DEF vars
  <2>2. TypeOK' /\ Loading' /\ Source' /\ Installing'
    BY <2>1 DEF IInv, TypeOK, Loading, Source, Installing, NoHeader, Copied
  <2>3. Booted' /\ (FirstLoad \/ Survivors)'
    BY <2>1, SameSection DEF IInv, Booted, FirstLoad, Survivors, SlotsValid, TwoImages
  <2> QED
    BY <2>2, <2>3 DEF IInv
<1> QED
  BY <1>1, <1>2, <1>3, <1>4, <1>5, <1>6, <1>7, <1>8, <1>9, <1>10
     DEF Next, Bootloader, Application, Decide

(* The boot data and the sections agree at every stage, and two sections   *)
(* survive whatever the power does in a step.                              *)
THEOREM Invariance == Spec => []IInv
BY InitIInv, StepIInv, PTL DEF Spec

(* The sections, the boot data and the job stay of their types, and a load *)
(* or an install gets at most to the page after the last of a section      *)
(* (half_boot.rs:127-261).                                                 *)
THEOREM TypeCorrect == Spec => []TypeOK
BY Invariance, PTL DEF IInv

(* Unless it rolls back, the bootloader jumps to a valid image, the one    *)
(* the boot data name.                                                     *)
THEOREM JumpsOnlyToImages == Spec => []JumpsToImage
<1>1. IInv => JumpsToImage
  BY DEF IInv, Booted, JumpsToImage
<1> QED
  BY <1>1, Invariance, PTL

-----------------------------------------------------------------------------
(* Which steps give a slot a tag. *)
LEMMA SlotSteps ==
  ASSUME IInv, Next, NEW s \in Slots
  PROVE  \/ flash'[s] = flash[s]
         \/ flash'[s].flashed # "set" /\ flash'[s].booted # "set"
         \/ PowerFails /\ \E m \in Interrupted(s) : flash'[s] = m
         \/ LoadPage /\ /\ flash'[s].flashed = flash[s].flashed
                        /\ flash'[s].booted = flash[s].booted
         \/ WriteOriginFlashed /\ s = job.from /\ flash'[s].booted = flash[s].booted
                               /\ flash'[s].head = flash[s].head
         \/ MarkStorage /\ s = bd.own /\ flash'[s].flashed = flash[s].flashed
<1>0. TypeOK /\ s \in Sections /\ s # Active /\ flash[s] \in Metadata
  BY SectionFacts DEF IInv, TypeOK
<1>1. CASE UNCHANGED flash
  BY <1>1
<1>2. CASE LoadPage
  <2>1. /\ pc = "load" /\ at <= Len[job.img]
        /\ flash' = [flash EXCEPT ![job.to] = WithPage(flash[job.to], at, job.img)]
    BY <1>2 DEF LoadPage
  <2>2. at \in 0 .. MaxPages /\ job.img \in Contents
    BY <2>1, ImageFacts DEF IInv, Loading, Contents
  <2>3. CASE s = job.to
    <3>1. flash'[s] = WithPage(flash[s], at, job.img)
      BY <2>1, <2>3, <1>0 DEF TypeOK
    <3> QED
      BY <1>0, <1>2, <2>2, <3>1, PageType
  <2>4. CASE s # job.to
    BY <2>1, <2>4, <1>0 DEF TypeOK
  <2> QED
    BY <2>3, <2>4
<1>3. CASE erase_app_section \/ copy_section_to_app \/ WriteHead \/ WriteSeq
           \/ WriteOwnFlashed \/ MarkActive
  BY <1>0, <1>3 DEF erase_app_section, copy_section_to_app, WriteHead, WriteSeq,
                    WriteOwnFlashed, MarkActive, TypeOK
<1>4. CASE WriteOriginFlashed
  <2>1. CASE s = job.from
    BY <1>0, <1>4, <2>1 DEF WriteOriginFlashed, TypeOK, Metadata
  <2>2. CASE s # job.from
    BY <1>0, <1>4, <2>2 DEF WriteOriginFlashed, TypeOK
  <2> QED
    BY <2>1, <2>2
<1>5. CASE MarkStorage
  <2>1. CASE s = bd.own
    BY <1>0, <1>5, <2>1 DEF MarkStorage, TypeOK, Metadata
  <2>2. CASE s # bd.own
    BY <1>0, <1>5, <2>2 DEF MarkStorage, TypeOK
  <2> QED
    BY <2>1, <2>2
<1>6. CASE PowerFails
  <2>1. ASSUME NEW t \in Sections, NEW m \in Interrupted(t), flash' = [flash EXCEPT ![t] = m]
        PROVE  flash'[s] = flash[s] \/ \E n \in Interrupted(s) : flash'[s] = n
    BY <1>0, <2>1 DEF TypeOK
  <2> QED
    BY <1>6, <2>1 DEF PowerFails
<1>7. CASE \/ \E r \in Slots : DecideInstall(r) \/ fakeload_section(r)
           \/ DecideBoot \/ DecideRollback \/ DecideHalt \/ LoadDone \/ Jump
           \/ \E i \in Images : Download(i)
           \/ Reset
  <2>1. UNCHANGED flash
    BY <1>7 DEF DecideInstall, fakeload_section, DecideBoot, DecideRollback, DecideHalt,
                LoadDone, Jump, Download, Reset
  <2> QED
    BY <2>1
<1> QED
  BY <1>1, <1>2, <1>3, <1>4, <1>5, <1>6, <1>7 DEF Next, Bootloader, Application, Decide

(* A slot gets its FLASHED tag only when section 1 holds its image whole.  *)
THEOREM FlashedOnlyInstalled == Spec => FlashedIsInstalled
<1>1. ASSUME IInv, Next, NEW s \in Slots, ~has_flashed(s), has_flashed(s)'
      PROVE  from_section(Active)' /\ flash'[Active].head = flash'[s].head
  <2>1. WriteOriginFlashed /\ s = job.from /\ flash'[s].head = flash[s].head
    BY <1>1, SlotSteps, SectionFacts, InterruptedType DEF has_flashed, IInv
  <2>2. pc = "origin" /\ job.from # Active
    BY <2>1, SectionFacts DEF WriteOriginFlashed
  <2>3. flash'[Active] = flash[Active]
    BY <1>1, <2>1, <2>2, SectionFacts DEF WriteOriginFlashed, IInv, TypeOK
  <2>4. ~bd.rollback
    BY <1>1, <2>2 DEF IInv, Source, Install
  <2>5. from_section(Active) /\ flash[Active].head = flash[s].head
    BY <1>1, <2>1, <2>2, <2>4, Installed
  <2> QED
    BY <2>1, <2>3, <2>5, SameSection
<1>2. IInv /\ [Next]_vars
        => [\A s \in Slots : ~has_flashed(s) /\ has_flashed(s)'
              => from_section(Active)' /\ flash'[Active].head = flash'[s].head]_vars
  BY <1>1
<1> QED
  BY <1>2, Invariance, PTL DEF Spec, FlashedIsInstalled

(* A slot is marked as booted only by its own image, running.              *)
THEOREM MarksOnlyWhatRan == Spec => MarksWhatRan
<1>1. ASSUME IInv, Next, NEW s \in Slots, ~has_booted(s), has_booted(s)'
      PROVE  \E i \in Images : Running(i) /\ flash[s].head = i
  <2>1. MarkStorage /\ s = bd.own
    BY <1>1, SlotSteps, SectionFacts, InterruptedType DEF has_booted, IInv
  <2>2. pc = "run" /\ from_section(Active)
    BY <2>1 DEF MarkStorage, ReadyToMark, Running
  <2>3. flash[Active].head = flash[s].head
    BY <1>1, <2>1, <2>2, NotRolledBack
  <2>4. flash[s].head \in Images /\ Running(flash[s].head)
    BY <2>2, <2>3, ValidHead DEF Running
  <2> QED
    BY <2>4
<1>2. IInv /\ [Next]_vars
        => [\A s \in Slots : ~has_booted(s) /\ has_booted(s)'
              => \E i \in Images : Running(i) /\ flash[s].head = i]_vars
  BY <1>1
<1> QED
  BY <1>2, Invariance, PTL DEF Spec, MarksWhatRan

(* A section that a load may still change, or the power tear, is not one   *)
(* of two valid ones that are all there are.                               *)
LEMMA OthersValid ==
  ASSUME IInv, TwoImages, NEW s \in Sections,
         \/ pc = "load" /\ s = job.to /\ at <= Len[job.img]
         \/ Interrupted(s) # {}
  PROVE  \A r \in Sections : r # s => from_section(r)
<1>1. CASE Survivors
  BY <1>1, TornOne DEF Survivors
<1>2. CASE FirstLoad
  <2>1. SlotsValid
    BY <1>2, ErasedInvalid DEF FirstLoad, TwoImages, SlotsValid, Sections, Slots, Active
  <2>2. pc = "load" /\ s = job.to /\ at <= Len[job.img]
    BY <1>2, TornStage DEF FirstLoad, Install, ReadyToMark, Running
  <2>3. job.to \in Slots /\ ~from_section(job.to)
    BY <1>2, <2>2 DEF FirstLoad, IInv, Loading
  <2> QED
    BY <2>1, <2>3 DEF SlotsValid
<1> QED
  BY <1>1, <1>2 DEF IInv

LEMMA OneLost ==
  ASSUME TypeOK, NEW s \in Sections, NEW m, flash' = [flash EXCEPT ![s] = m],
         \A r \in Sections : r # s => from_section(r)
  PROVE  TwoImages'
<1>1. \A r \in Sections : r # s => from_section(r)'
  BY OneSection
<1> QED
  BY <1>1 DEF TwoImages, Sections, Slots, Active

(* No failure of the power costs more than one of the three images.        *)
THEOREM TwoImagesStayLeft == Spec => TwoImagesLeft
<1>1. ASSUME IInv, IInv', Next, TwoImages
      PROVE  TwoImages'
  <2>1. CASE UNCHANGED flash
    BY <1>1, <2>1, SameSection DEF TwoImages
  <2>2. CASE pc' \notin {"start", "load"}
    <3>1. \A s \in Slots : from_section(s)'
      BY <1>1, <2>2 DEF IInv, FirstLoad, Survivors, SlotsValid
    <3> QED
      BY <3>1 DEF TwoImages, Sections, Slots, Active
  <2>3. CASE LoadPage
    <3>1. /\ pc = "load" /\ at <= Len[job.img] /\ job.to \in Sections
          /\ flash' = [flash EXCEPT ![job.to] = WithPage(flash[job.to], at, job.img)]
      BY <1>1, <2>3 DEF LoadPage, IInv, TypeOK, Jobs
    <3> QED
      BY <1>1, <3>1, OthersValid, OneLost DEF IInv
  <2>4. CASE PowerFails
    <3>1. ASSUME NEW s \in Sections, NEW m \in Interrupted(s), flash' = [flash EXCEPT ![s] = m]
          PROVE  TwoImages'
      BY <1>1, <3>1, OthersValid, OneLost DEF IInv
    <3> QED
      BY <2>1, <2>4, <3>1 DEF PowerFails
  <2>5. \/ UNCHANGED flash \/ pc' \notin {"start", "load"} \/ LoadPage \/ PowerFails
    <3>1. CASE \/ \E r \in Slots : DecideInstall(r) \/ fakeload_section(r)
               \/ DecideBoot \/ DecideRollback \/ DecideHalt \/ LoadDone \/ Jump
               \/ \E i \in Images : Download(i)
               \/ Reset
      <4>1. UNCHANGED flash
        BY <3>1 DEF DecideInstall, fakeload_section, DecideBoot, DecideRollback,
                    DecideHalt, LoadDone, Jump, Download, Reset
      <4> QED
        BY <4>1
    <3>2. CASE erase_app_section \/ copy_section_to_app \/ WriteHead \/ WriteSeq
               \/ WriteOwnFlashed \/ WriteOriginFlashed \/ MarkStorage \/ MarkActive
      BY <3>2 DEF erase_app_section, copy_section_to_app, WriteHead, WriteSeq,
                  WriteOwnFlashed, WriteOriginFlashed, MarkStorage, MarkActive
    <3> QED
      BY <1>1, <3>1, <3>2 DEF Next, Bootloader, Application, Decide
  <2> QED
    BY <2>1, <2>2, <2>3, <2>4, <2>5
<1>2. IInv /\ IInv' /\ [Next]_vars => [TwoImages => TwoImages']_vars
  BY <1>1
<1> QED
  BY <1>2, Invariance, PTL DEF Spec, TwoImagesLeft
=============================================================================
