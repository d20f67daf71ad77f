----------------------------- MODULE BootLoader -----------------------------
(***************************************************************************)
(* The bootloader (anachro-boot/src/bin/half_boot.rs, bootload.rs), the    *)
(* boot data it leaves in RAM (bootdata.rs) and the application it starts. *)
(*                                                                         *)
(* Section 1 is the active image, sections 2 and 3 (the A and B slots)     *)
(* store images.  A section is a metadata page and application pages.  An  *)
(* image is a value: its uuid, tag and length are the "head" of the        *)
(* metadata, and each of its pages is that image.  The head is written as  *)
(* several words, but a section with part of one fails validation just as  *)
(* one with a torn head does, so it is one field and one step.             *)
(*                                                                         *)
(* Everything happens on one processor.  What makes it hard is that the    *)
(* power may fail within any step, which leaves the page or the word being *)
(* erased or written torn: see PowerFails.  A reset of a running           *)
(* application is not counted as one, and may happen at any time.          *)
(***************************************************************************)
EXTENDS Naturals, FiniteSets

CONSTANTS Images,      \* images there are
          Len,         \* the application pages of each
          Demo,        \* the images linked into the bootloader, by slot
          Marking,     \* images whose application marks itself as booted
          MaxPages,    \* application pages of a section, 63 in the code
          BlankSeq,    \* boot sequence number of erased flash, 2^32 - 1
          MaxFailures, \* bound: power failures within a step
          MaxDownloads \* bound: images an application downloads

Active   == 1
Slots    == {2, 3}
Sections == {Active} \cup Slots

ASSUME ImagesAssumption ==
  /\ {"blank", "torn"} \cap Images = {}
  /\ Marking \subseteq Images
  /\ Demo \in [Slots -> Images]
ASSUME PagesAssumption == MaxPages \in Nat /\ Len \in [Images -> 1 .. MaxPages]
ASSUME BoundsAssumption == /\ {BlankSeq, MaxFailures, MaxDownloads} \subseteq Nat
                           /\ BlankSeq >= 2

VARIABLES flash,     \* the three sections
          pc,        \* what the processor is doing
          at,        \* the page it is at: 0 is the metadata page
          job,       \* the image being loaded or installed (RAM)
          bd,        \* Bootdata (RAM)
          failures, downloads

vars == <<flash, pc, at, job, bd, failures, downloads>>

Tags     == {"blank", "set", "torn"}
Contents == Images \cup {"blank", "torn"}
Metadata == [head : Contents, seq : 0 .. BlankSeq, flashed : Tags, booted : Tags,
             app : [1 .. MaxPages -> Contents]]

Jobs == [from : Sections, to : Sections, img : Contents, seq : 0 .. BlankSeq, marked : BOOLEAN]

Bootdata == [own : Sections, nxt : Slots, first : BOOLEAN, rollback : BOOLEAN]

(* load: a slot is written, by the bootloader or the application.          *)
(* erase, copy, head, seq, own, origin: an image is installed.             *)
(* mark: the application has marked its slot as booted, not yet section 1. *)
Stages == {"start", "load", "erase", "copy", "head", "seq", "own", "origin",
           "jump", "run", "mark", "halt"}

TypeOK == /\ flash \in [Sections -> Metadata]
          /\ pc \in Stages
          /\ at \in 0 .. MaxPages + 1
          /\ job \in Jobs
          /\ bd \in Bootdata
          /\ failures \in 0 .. MaxFailures
          /\ downloads \in 0 .. MaxDownloads

(***************************************************************************)
(* Sections                                                                *)
(***************************************************************************)
Erased == [head |-> "blank", seq |-> BlankSeq, flashed |-> "blank", booted |-> "blank",
           app |-> [p \in 1 .. MaxPages |-> "blank"]]

Complete(m) == m.head \in Images /\ \A p \in 1 .. Len[m.head] : m.app[p] = m.head

(* Metadata::from_section gives Some. *)
from_section(s) == /\ flash[s].flashed # "torn"
                   /\ flash[s].booted # "torn"
                   /\ Complete(flash[s])

has_flashed(s) == flash[s].flashed = "set"
has_booted(s)  == flash[s].booted = "set"

(* A section whose metadata page, or application page p, was erased and    *)
(* then written with those of image i; or with just that page erased.      *)
WithPage(m, p, c) == IF p = 0 THEN [Erased EXCEPT !.head = c, !.app = m.app]
                              ELSE [m EXCEPT !.app[p] = c]

(***************************************************************************)
(* make_decision                                                           *)
(***************************************************************************)
(* m.boot_seq_number.wrapping_add(1), 2 when there is no active image. *)
boot_seq == IF ~from_section(Active) THEN 2
            ELSE IF flash[Active].seq = BlankSeq THEN 0
            ELSE flash[Active].seq + 1

Fresh == {s \in Slots : from_section(s) /\ ~has_flashed(s)}

Higher == IF flash[2].seq > flash[3].seq THEN 2 ELSE 3
Lower  == IF flash[2].seq > flash[3].seq THEN 3 ELSE 2

writeover == IF \A s \in Slots : from_section(s) THEN Lower
             ELSE IF from_section(2) THEN 3 ELSE 2

(* The slots with an image that has been active and marked itself. *)
Recoverable == {s \in Slots : from_section(s) /\ has_flashed(s) /\ has_booted(s)}
recovery    == IF Recoverable = Slots THEN Higher ELSE CHOOSE s \in Recoverable : TRUE

Other(s) == IF s = 2 THEN 3 ELSE 2

(* main cannot go on to make_decision before both slots are valid. *)
Deciding == pc = "start" /\ \A s \in Slots : from_section(s)

NoJob == [from |-> Active, to |-> Active, img |-> "blank", seq |-> 0, marked |-> FALSE]
NoData == [own |-> Active, nxt |-> 2, first |-> FALSE, rollback |-> FALSE]

(* The caller holds the Metadata read at the start, not the flash. *)
InstallFrom(s) ==
  /\ pc' = "erase"
  /\ at' = 0
  /\ job' = [from |-> s, to |-> Active, img |-> flash[s].head, seq |-> boot_seq,
             marked |-> has_flashed(s)]

(* Mutant: the boot data names the other slot. *)
DecideInstallSwapped(s) ==
  /\ Deciding /\ s \in Fresh /\ \A r \in Fresh : s <= r
  /\ InstallFrom(s)
  /\ bd' = [own |-> Other(s), nxt |-> s, first |-> TRUE, rollback |-> FALSE]
  /\ UNCHANGED <<flash, failures, downloads>>

(* CopyThenFirstBoot: slot A before slot B. *)
DecideInstall(s) ==
  /\ Deciding
  /\ s \in Fresh
  /\ \A r \in Fresh : s <= r
  /\ InstallFrom(s)
  /\ bd' = [own |-> s, nxt |-> Other(s), first |-> TRUE, rollback |-> FALSE]
  /\ UNCHANGED <<flash, failures, downloads>>

DecideBoot ==
  /\ Deciding
  /\ Fresh = {}
  /\ from_section(Active)
  /\ has_booted(Active)
  /\ pc' = "jump"
  /\ bd' = [own |-> Active, nxt |-> writeover, first |-> FALSE, rollback |-> FALSE]
  /\ UNCHANGED <<flash, at, job, failures, downloads>>

(* The source of this install is the active section itself, meta.clone(),  *)
(* and not the section called recovery.                                    *)
DecideRollback ==
  /\ Deciding
  /\ Fresh = {}
  /\ from_section(Active)
  /\ ~has_booted(Active)
  /\ Recoverable # {}
  /\ InstallFrom(Active)
  /\ bd' = [own |-> recovery, nxt |-> writeover, first |-> FALSE, rollback |-> TRUE]
  /\ UNCHANGED <<flash, failures, downloads>>

DecideHalt ==
  /\ Deciding
  /\ Fresh = {}
  /\ \/ ~from_section(Active)
     \/ ~has_booted(Active) /\ Recoverable = {}
  /\ pc' = "halt"
  /\ UNCHANGED <<flash, at, job, bd, failures, downloads>>

(***************************************************************************)
(* Loading a slot, page by page, the metadata page first.                  *)
(***************************************************************************)
LoadInto(s, i) == /\ pc' = "load"
                  /\ at' = 0
                  /\ job' = [NoJob EXCEPT !.to = s, !.img = i]

(* main loads a linked-in image into a slot it finds invalid. *)
fakeload_section(s) ==
  /\ pc = "start"
  /\ ~from_section(s)
  /\ \A r \in Slots : r < s => from_section(r)
  /\ LoadInto(s, Demo[s])
  /\ UNCHANGED <<flash, bd, failures, downloads>>

(* Mutant: one page too many. *)
LoadPageTooFar ==
  /\ pc = "load" /\ at <= Len[job.img] + 1
  /\ flash' = [flash EXCEPT ![job.to] = WithPage(@, at, job.img)]
  /\ at' = at + 1
  /\ UNCHANGED <<pc, job, bd, failures, downloads>>

LoadPage ==
  /\ pc = "load"
  /\ at <= Len[job.img]
  /\ flash' = [flash EXCEPT ![job.to] = WithPage(@, at, job.img)]
  /\ at' = at + 1
  /\ UNCHANGED <<pc, job, bd, failures, downloads>>

(* Back to main, which reads the section again; an application resets. *)
LoadDone ==
  /\ pc = "load"
  /\ at = Len[job.img] + 1
  /\ pc' = "start"
  /\ at' = 0
  /\ job' = NoJob
  /\ UNCHANGED <<flash, bd, failures, downloads>>

(***************************************************************************)
(* Installing: erase_app_section, copy_section_to_app, write_to_section.   *)
(***************************************************************************)
erase_app_section ==
  /\ pc = "erase"
  /\ flash' = [flash EXCEPT ![Active] = WithPage(@, at, "blank")]
  /\ IF at < Len[job.img] THEN at' = at + 1 /\ UNCHANGED pc
                          ELSE at' = 1 /\ pc' = "copy"
  /\ UNCHANGED <<job, bd, failures, downloads>>

(* Mutants: the last page is left out; the slot is marked as flashed while *)
(* its pages are copied; it is marked before the header is written.        *)
CopyOneLess ==
  /\ pc = "copy"
  /\ flash' = [flash EXCEPT ![Active].app[at] = flash[job.from].app[at]]
  /\ IF at + 1 < Len[job.img] THEN at' = at + 1 /\ UNCHANGED pc
                              ELSE at' = 0 /\ pc' = "head"
  /\ UNCHANGED <<job, bd, failures, downloads>>

CopyMarksOrigin ==
  /\ pc = "copy"
  /\ flash' = [flash EXCEPT ![Active].app[at] = flash[job.from].app[at],
                            ![job.from].flashed = "set"]
  /\ IF at < Len[job.img] THEN at' = at + 1 /\ UNCHANGED pc
                          ELSE at' = 0 /\ pc' = "head"
  /\ UNCHANGED <<job, bd, failures, downloads>>

CopyThenOrigin ==
  /\ pc = "copy"
  /\ flash' = [flash EXCEPT ![Active].app[at] = flash[job.from].app[at]]
  /\ IF at < Len[job.img] THEN at' = at + 1 /\ UNCHANGED pc
                          ELSE at' = 0 /\ pc' = "origin"
  /\ UNCHANGED <<job, bd, failures, downloads>>

(* The page is read when it is copied: that of an erased section is blank. *)
copy_section_to_app ==
  /\ pc = "copy"
  /\ flash' = [flash EXCEPT ![Active].app[at] = flash[job.from].app[at]]
  /\ IF at < Len[job.img] THEN at' = at + 1 /\ UNCHANGED pc
                          ELSE at' = 0 /\ pc' = "head"
  /\ UNCHANGED <<job, bd, failures, downloads>>

WriteHead ==
  /\ pc = "head"
  /\ pc' = "seq"
  /\ flash' = [flash EXCEPT ![Active].head = job.img]
  /\ UNCHANGED <<at, job, bd, failures, downloads>>

WriteSeq ==
  /\ pc = "seq"
  /\ pc' = "own"
  /\ flash' = [flash EXCEPT ![Active].seq = job.seq]
  /\ UNCHANGED <<at, job, bd, failures, downloads>>

WriteOwnFlashed ==
  /\ pc = "own"
  /\ pc' = "origin"
  /\ flash' = [flash EXCEPT ![Active].flashed = "set"]
  /\ UNCHANGED <<at, job, bd, failures, downloads>>

(* The write of BOOTED_TAG_NOT_BOOTED that follows changes no erased bit. *)
WriteOriginFlashed ==
  /\ pc = "origin"
  /\ pc' = "jump"
  /\ flash' = IF job.marked THEN flash ELSE [flash EXCEPT ![job.from].flashed = "set"]
  /\ job' = NoJob
  /\ UNCHANGED <<at, bd, failures, downloads>>

(* After a second, the boot data is in RAM and the processor jumps to the  *)
(* application of section 1, whatever is there.                            *)
Jump ==
  /\ pc = "jump"
  /\ pc' = "run"
  /\ UNCHANGED <<flash, at, job, bd, failures, downloads>>

(***************************************************************************)
(* The application.  One that is not complete crashes and does nothing.    *)
(***************************************************************************)
Running(i) == pc = "run" /\ \A p \in 1 .. Len[i] : flash[Active].app[p] = i

(* It finds both sections in the boot data, and they are valid. *)
ReadyToMark == /\ \E i \in Marking : Running(i)
               /\ from_section(bd.own)
               /\ from_section(Active)

(* sto_meta.mark_booted, and then app_meta.mark_booted. *)
MarkStorage ==
  /\ ReadyToMark
  /\ pc' = "mark"
  /\ flash' = [flash EXCEPT ![bd.own].booted = "set"]
  /\ UNCHANGED <<at, job, bd, failures, downloads>>

MarkActive ==
  /\ pc = "mark"
  /\ pc' = "run"
  /\ flash' = [flash EXCEPT ![Active].booted = "set"]
  /\ UNCHANGED <<at, job, bd, failures, downloads>>

(* What a marked application does with nxt_metadata and nxt_image. *)
Download(i) ==
  /\ downloads < MaxDownloads
  /\ \E j \in Marking : Running(j)
  /\ from_section(Active)
  /\ has_booted(Active)
  /\ downloads' = downloads + 1
  /\ LoadInto(bd.nxt, i)
  /\ UNCHANGED <<flash, bd, failures>>

Restart ==
  /\ pc' = "start"
  /\ at' = 0
  /\ job' = NoJob
  /\ bd' = NoData

Reset == /\ pc \in {"run", "halt"}
         /\ Restart
         /\ UNCHANGED <<flash, failures, downloads>>

(***************************************************************************)
(* Power failures.  A metadata page partly erased may still read as it     *)
(* did, in all of its words or only in some.                               *)
(***************************************************************************)
Faded(m) == {[m EXCEPT !.head = h, !.flashed = f, !.booted = b] :
               h \in {m.head, "torn"},
               f \in {m.flashed, "torn", "blank"}, b \in {m.booted, "torn", "blank"}}

TornPage(m) == IF at = 0 THEN Faded(m) ELSE {[m EXCEPT !.app[at] = "torn"]}

(* What section s may hold after the power failed in this step. *)
Interrupted(s) ==
  CASE pc = "load" /\ s = job.to /\ at <= Len[job.img] -> TornPage(flash[s])
    [] pc \in {"erase", "copy"} /\ s = Active          -> TornPage(flash[s])
    [] pc = "head" /\ s = Active                       -> {[flash[s] EXCEPT !.head = "torn"]}
    [] pc = "seq" /\ s = Active                        -> {[flash[s] EXCEPT !.seq = 0]}
    [] pc = "own" /\ s = Active                        -> {[flash[s] EXCEPT !.flashed = "torn"]}
    [] pc = "origin" /\ s = job.from /\ ~job.marked    -> {[flash[s] EXCEPT !.flashed = "torn"]}
    [] pc = "mark" /\ s = Active /\ ~has_booted(s)     -> {[flash[s] EXCEPT !.booted = "torn"]}
    [] ReadyToMark /\ s = bd.own /\ ~has_booted(s)      -> {[flash[s] EXCEPT !.booted = "torn"]}
    [] OTHER                                           -> {}

PowerFails ==
  /\ failures < MaxFailures
  /\ failures' = failures + 1
  /\ \/ UNCHANGED flash
     \/ \E s \in Sections : \E m \in Interrupted(s) : flash' = [flash EXCEPT ![s] = m]
  /\ Restart
  /\ UNCHANGED downloads

(***************************************************************************)
Init == /\ flash = [s \in Sections |-> Erased]
        /\ pc = "start"
        /\ at = 0
        /\ job = NoJob
        /\ bd = NoData
        /\ failures = 0
        /\ downloads = 0

Decide == \/ \E s \in Slots : DecideInstall(s) \/ fakeload_section(s)
          \/ DecideBoot \/ DecideRollback \/ DecideHalt

Bootloader == \/ Decide
              \/ LoadPage \/ LoadDone
              \/ erase_app_section \/ copy_section_to_app
              \/ WriteHead \/ WriteSeq \/ WriteOwnFlashed \/ WriteOriginFlashed
              \/ Jump

Application == \/ MarkStorage \/ MarkActive
               \/ \E i \in Images : Download(i)

Next == Bootloader \/ Application \/ Reset \/ PowerFails

(* The bootloader never waits for anything but the flash and the clock. *)
Fairness == WF_vars(Bootloader)

Spec == Init /\ [][Next]_vars /\ Fairness

(***************************************************************************)
(* Properties                                                              *)
(***************************************************************************)
(* A slot gets its FLASHED tag, and so is not installed again, only when   *)
(* section 1 holds all of its image: whatever the power does, an update    *)
(* is never taken for done half-way.                                       *)
FlashedIsInstalled ==
  [][\A s \in Slots : ~has_flashed(s) /\ has_flashed(s)'
       => from_section(Active)' /\ flash'[Active].head = flash'[s].head]_vars

(* A slot is marked as booted only by its own image, running: boot data of *)
(* an earlier start never vouches for another image.                       *)
MarksWhatRan ==
  [][\A s \in Slots : ~has_booted(s) /\ has_booted(s)'
       => \E i \in Images : Running(i) /\ flash[s].head = i]_vars

(* Of the three sections two hold a valid image, from when the slots have  *)
(* first been loaded: no failure of the power, in a download, an install   *)
(* or a tag, costs more than one.                                          *)
TwoImages == \E s, r \in Sections : s # r /\ from_section(s) /\ from_section(r)
TwoImagesLeft == [][TwoImages => TwoImages']_vars

(* Unless it rolls back, the bootloader jumps to a valid image, and on a   *)
(* first boot to that of the slot the boot data calls the application's.   *)
JumpsToImage ==
  pc = "jump" /\ ~bd.rollback
    => /\ from_section(Active)
       /\ bd.first => flash[Active].head = flash[bd.own].head

(* An install once begun ends with the image in section 1, however often   *)
(* the power fails: every start finds the slot fresh and begins again.     *)
InstallCompletes ==
  \A s \in Slots, i \in Images :
    pc = "erase" /\ job.from = s /\ job.img = i
      ~> from_section(Active) /\ flash[Active].head = i

(* Claims of the notes on the bootloader                                   *)
(* (notes/2021-10-10-bootloader-thoughts.md).                              *)
(* Lines 18-20: an image that did not reach "good" is replaced by the      *)
(* older one.                                                              *)
RollsBack == pc = "jump" /\ bd.rollback
               => from_section(Active) /\ flash[Active].head = flash[bd.own].head
=============================================================================
