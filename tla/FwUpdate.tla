------------------------------- MODULE FwUpdate -------------------------------
(***************************************************************************)
(* Firmware update over HTTP (the OTA example, lwip_httpssrv_ota.c), on    *)
(* top of the partition table.  Two slots hold firmware images; the table  *)
(* gives each a generation level and Boot2 starts the higher one, or the   *)
(* other when that image has a wrong CRC (boot_flags.c).  An update goes   *)
(* to the slot that does not run, is started once with the level TestFlag, *)
(* which main() resets at once, and becomes permanent when the user        *)
(* accepts it; any restart before that is a rollback.                      *)
(*                                                                         *)
(* Requests come from sessions that run at the same time.  Layout writes   *)
(* do not overlap (two sessions that write the layout at the same moment   *)
(* are not modelled).                                                      *)
(*                                                                         *)
(* The server takes an upload at any time, also while an image is tested,  *)
(* while another upload is under way or between the request to reboot and  *)
(* the reset: care remembers what the users have done with that.           *)
(***************************************************************************)
EXTENDS PartTable, FiniteSets

CONSTANTS
    Sessions, \* tasks of the HTTP server
    MaxLevel  \* bound on the generation level of an image

ASSUME MaxLevelAssumption == MaxLevel \in Nat \ {0}

VARIABLES
    image,    \* what the flash of each slot holds
    accepted, \* history: the image in this slot was accepted by a user
    run,      \* the slot that executes
    first,    \* index of part_entry[0]
    status,   \* ota_status
    at,       \* "off", "main" until the server is started, "serving"
    request,  \* request[s]: how far the request of session s is
    care      \* history: how users have treated the slot they upload to

fvars == <<image, accepted, run, first, status, at, request, care>>
vars == <<pvars, fvars>>

Slots == {0, 1}
TestFlag == MaxLevel + 1  \* OTA_TEST_MODE_FLAG, above every level
Levels == 0..TestFlag
Layouts == [Slots -> Levels]

second == 1 - first

(* blank, written by one upload, complete, or anything else *)
Contents == {"blank", "half", "good", "junk"}

(* "kept": the slot is as it was started with, or as the last upload left  *)
(* it that was reported good.  "pending": it has been changed since.       *)
(* "lost": an image was marked for a test while its slot was pending or an *)
(* upload under way, or an upload began in a run that had begun to write a *)
(* layout (it tests an image, has accepted it, or waits for its reset).    *)
Become(c) == IF care = "lost" THEN care ELSE c

Uploading(s) == request[s] \in {"erased", "half"}
NoLayoutYet == step = "idle" /\ ram.gen = copy[active].gen

Level0(t, s) == [t EXCEPT ![s] = 0]

(* part_get_active_partition: the first entry wins a tie *)
Highest(t) == IF t[0] >= t[1] THEN 0 ELSE 1

(* Boot2: the highest slot, or the other one when its image is bad *)
Choice(t) == IF image[Highest(t)] = "good" THEN Highest(t) ELSE 1 - Highest(t)

(* The layout tool gives every slot level 1; one image is installed. *)
Init ==
    /\ copy = [c \in Ids |-> [written |-> IF c = 0 THEN 3 ELSE 0, gen |-> 0,
                              table |-> [s \in Slots |-> 1]]]
    /\ active = 0
    /\ ram = [gen |-> 0, table |-> [s \in Slots |-> 1]]
    /\ step = "down"
    /\ image = [s \in Slots |-> IF s = 0 THEN "good" ELSE "blank"]
    /\ accepted = [s \in Slots |-> s = 0]
    /\ run = 0 /\ first = 0 /\ status = "none" /\ at = "off"
    /\ request = [s \in Sessions |-> "none"] /\ care = "kept"

-----------------------------------------------------------------------------
(* Power failure, or the reset that reboot_timer_callback makes *)
Reset ==
    /\ Fail
    /\ at' = "off"
    /\ request' = [s \in Sessions |-> "none"] /\ care' = Become("kept")
    /\ UNCHANGED <<image, accepted, run, first, status>>

(* Boot2, then main() up to the test for test mode *)
Boot ==
    /\ Start
    /\ run' = Choice(ram'.table) /\ image[run'] = "good"
    /\ first' = Highest(ram'.table)
    /\ status' = "none" /\ at' = "main"
    /\ UNCHANGED <<image, accepted, request, care>>

(* Mutant: the flag is left on flash *)
MutEnterTest ==
    /\ at = "main" /\ step = "idle" /\ ram.table[first] = TestFlag
    /\ ram' = [ram EXCEPT !.table = Level0(@, first)]
    /\ status' = "testing"
    /\ UNCHANGED <<copy, active, step, image, accepted, run, first, at, request, care>>

(* main(): in test mode the level is reset, so that the next start goes    *)
(* back to the other image                                                 *)
EnterTest ==
    /\ at = "main" /\ step = "idle" /\ ram.table[first] = TestFlag
    /\ Erase(Level0(ram.table, first))
    /\ status' = "testing"
    /\ UNCHANGED <<image, accepted, run, first, at, request, care>>

Serve ==
    /\ at = "main" /\ step = "idle" /\ ram.table[first] # TestFlag
    /\ at' = "serving"
    /\ UNCHANGED <<pvars, image, accepted, run, first, status, request, care>>

(* The flash accesses of a layout write that some request or main() began *)
LayoutStep == WriteStep /\ UNCHANGED fvars

-----------------------------------------------------------------------------
(* Mutant: the image that runs is erased *)
MutUploadErase(s) ==
    /\ at = "serving" /\ request[s] = "none"
    /\ image' = [image EXCEPT ![first] = "blank"]
    /\ accepted' = [accepted EXCEPT ![first] = FALSE]
    /\ request' = [request EXCEPT ![s] = "erased"]
    /\ care' = Become(IF NoLayoutYet THEN "pending" ELSE "lost")
    /\ UNCHANGED <<pvars, run, first, status, at>>

(* cgi_ota_upload: the slot of part_entry[1] is erased, whatever else goes *)
(* on                                                                      *)
UploadErase(s) ==
    /\ at = "serving" /\ request[s] = "none"
    /\ image' = [image EXCEPT ![second] = "blank"]
    /\ accepted' = [accepted EXCEPT ![second] = FALSE]
    /\ request' = [request EXCEPT ![s] = "erased"]
    /\ care' = Become(IF NoLayoutYet THEN "pending" ELSE "lost")
    /\ UNCHANGED <<pvars, run, first, status, at>>

(* store_update_image, the first chunks: onto flash that may be used *)
UploadStore(s) ==
    /\ request[s] = "erased"
    /\ image' = [image EXCEPT ![second] = IF @ = "blank" THEN "half" ELSE "junk"]
    /\ request' = [request EXCEPT ![s] = "half"] /\ care' = Become("pending")
    /\ UNCHANGED <<pvars, accepted, run, first, status, at>>

(* Mutant: the image is not validated *)
MutUploadEnd(s) ==
    /\ request[s] = "half"
    /\ \E file \in {"good", "junk"} :
        LET stored == IF image[second] = "half" THEN file ELSE "junk" IN
        /\ image' = [image EXCEPT ![second] = stored]
        /\ status' = "uploaded"
        /\ care' = Become("kept")
    /\ request' = [request EXCEPT ![s] = "none"]
    /\ UNCHANGED <<pvars, accepted, run, first, at>>

(* The last chunks and validate_update_image: the file may be a bad one *)
UploadEnd(s) ==
    /\ request[s] = "half"
    /\ \E file \in {"good", "junk"} :
        LET stored == IF image[second] = "half" THEN file ELSE "junk" IN
        /\ image' = [image EXCEPT ![second] = stored]
        /\ status' = IF stored = "good" THEN "uploaded" ELSE status
        /\ care' = Become(IF stored = "good" THEN "kept" ELSE "pending")
    /\ request' = [request EXCEPT ![s] = "none"]
    /\ UNCHANGED <<pvars, accepted, run, first, at>>

(* The connection is lost: the status is not touched *)
UploadFail(s) ==
    /\ Uploading(s)
    /\ request' = [request EXCEPT ![s] = "none"]
    /\ UNCHANGED <<pvars, image, accepted, run, first, status, at, care>>

(* cgi_ota_reboot: mark the new image for a test.  The reset follows as a  *)
(* Reset of its own, five seconds later.                                   *)
AskReboot(s) ==
    /\ at = "serving" /\ request[s] = "none" /\ status = "uploaded"
    /\ Erase([ram.table EXCEPT ![second] = TestFlag])
    /\ care' = IF care = "kept" /\ \A s2 \in Sessions : ~Uploading(s2) THEN "kept" ELSE "lost"
    /\ UNCHANGED <<image, accepted, run, first, status, at, request>>

(* cgi_ota_accept; MaxLevel bounds the levels.  The status changes when    *)
(* part_write_layout has returned.                                         *)
Accept(s) ==
    /\ at = "serving" /\ request[s] = "none" /\ status = "testing"
    /\ ram.table[second] < MaxLevel
    /\ Erase([ram.table EXCEPT ![first] = ram.table[second] + 1])
    /\ accepted' = [accepted EXCEPT ![run] = TRUE]
    /\ request' = [request EXCEPT ![s] = "accepting"]
    /\ UNCHANGED <<image, run, first, status, at, care>>

Accepted(s) ==
    /\ request[s] = "accepting" /\ step = "idle"
    /\ status' = "none"
    /\ request' = [request EXCEPT ![s] = "none"]
    /\ UNCHANGED <<pvars, image, accepted, run, first, at, care>>

Request(s) ==
    \/ UploadErase(s) \/ UploadStore(s) \/ UploadEnd(s) \/ UploadFail(s)
    \/ AskReboot(s) \/ Accept(s) \/ Accepted(s)

Next ==
    \/ Reset \/ Boot \/ EnterTest \/ Serve \/ LayoutStep
    \/ \E s \in Sessions : Request(s)

Spec == Init /\ [][Next]_vars

-----------------------------------------------------------------------------
(* Nobody marks an image for a test unless the last upload to its slot was *)
(* reported good and none is under way, and nobody uploads in a run that   *)
(* has written a layout.  The code asks for neither; what happens without  *)
(* is not promised: Boot2 then starts an image while part_entry[0] is the  *)
(* other slot, the next upload erases the image that runs, and an upload   *)
(* during a test erases the image to return to.                            *)
Careful == care # "lost"

(* A restart at this moment finds a table and an image it can start,       *)
(* whatever the power does to layout writes and however many uploads fail, *)
(* are repeated or meet in the slot, as long as users are Careful.         *)
AlwaysBoots ==
    Careful => \E c \in Ids : Newer(c) /\ image[Choice(copy[c].table)] = "good"

(* The page says "Running in test mode, click Accept update to make it     *)
(* permanent or Reboot for rollback": while an image is tested, and until  *)
(* the user accepts it, a restart comes up with one that was accepted, as  *)
(* long as users are Careful.                                              *)
Rollback ==
    Careful /\ at = "serving" /\ status = "testing" =>
        \A c \in Ids : Newer(c) => accepted[Choice(copy[c].table)]

(* As long as users are Careful, uploads never touch the image that        *)
(* executes: part_entry[0] stands for the active partition, as main()      *)
(* says, although Boot2 starts the other one when the image of the highest *)
(* slot is bad.                                                            *)
RunningIsActive == Careful /\ at = "serving" => run = first

(* The inductive invariant behind the three.  What holds of any users:     *)
FTypeOK ==
    /\ image \in [Slots -> Contents] /\ accepted \in [Slots -> BOOLEAN]
    /\ run \in Slots /\ first \in Slots
    /\ status \in {"none", "testing", "uploaded"} /\ at \in {"off", "main", "serving"}
    /\ request \in [Sessions -> {"none", "erased", "half", "accepting"}]
    /\ care \in {"kept", "pending", "lost"}

Base == copy[active].table
Written == Valid(copy[Passive]) /\ Fresh
RunInv ==
    /\ at = "off" <=> step = "down"
    /\ at # "off" => first = Highest(Base)
    /\ at # "serving" => \A s \in Sessions : request[s] = "none"

(* Of careful ones: every table Boot2 may find is safe, that is, the image *)
(* it makes Boot2 choose is whole and accepted, or is to be tested and the *)
(* other one is accepted;                                                  *)
Safe(t) ==
    LET h == Highest(t) IN
    /\ image[h] = "good" /\ t[h] >= 1
    /\ IF t[h] = TestFlag
       THEN t[1 - h] \in 1..MaxLevel /\ image[1 - h] = "good" /\ accepted[1 - h]
       ELSE accepted[h]
SafeInv ==
    /\ Safe(Base)
    /\ Written => Safe(copy[Passive].table)
    /\ step \notin {"idle", "down"} => Safe(ram.table)
    /\ at # "off" => run = first

(* uploads are under way only in runs that have written no layout and test *)
(* nothing, and what was uploaded and kept is whole;                       *)
Clean == step = "idle" /\ ram.table = Base /\ ~Written
UploadInv ==
    /\ \A s \in Sessions : Uploading(s) => status # "testing" /\ Clean /\ Base[first] # TestFlag
    /\ at = "serving" /\ status = "uploaded" =>
          /\ Base[first] # TestFlag /\ ram.table[first] = Base[first]
          /\ step = "idle" => Clean \/ Written
          /\ care = "kept" => image[second] = "good"

(* and a run that tests an image has first reset its level. *)
TestInv ==
    /\ at = "main" => status = "testing" \/ (status = "none" /\ Clean)
    /\ at = "serving" /\ status = "none" =>
          (Clean /\ Base[first] # TestFlag) \/ (Written /\ step = "idle")
    /\ at # "off" /\ status = "testing" =>
          /\ Base[first] = TestFlag
          /\ ram.table[second] = Base[second] /\ ram.table[first] # TestFlag
          /\ IF step = "idle" THEN Written /\ copy[Passive].table = ram.table
             ELSE at = "serving" => accepted[first]

IInv == PartInv /\ FTypeOK /\ RunInv /\ (Careful => SafeInv /\ UploadInv /\ TestInv)
=============================================================================
