--------------------------- MODULE DfuBootloader ---------------------------
(***************************************************************************)
(* The DFU bootloader: DFUClass answers the host's requests in the USB     *)
(* interrupt, DfuBootloaderBackend::Process() erases and programs what     *)
(* they leave in the main loop, and a seal behind the image says that it   *)
(* is whole, so that it may be run.  The power may fail and flash may      *)
(* fail.                                                                   *)
(*                                                                         *)
(* A request is a step, and so is a flash operation of Process(), with the *)
(* stores around it.  A byte is <<image, place>>, the CRC of an image is   *)
(* the image, the seal is one cell.  A write that fails may leave garbage, *)
(* and flash that is programmed twice is garbage.                          *)
(***************************************************************************)
EXTENDS Naturals, Sequences, SequencesExt, FiniteSetsExt

CONSTANTS
    Limit, EraseSize, SealOffset,  \* image_size_limit_, MinEraseSize(), seal_offset_
    Chunks,                        \* sizes of the host's transfers
    Blank, Garbled,                \* flash that is erased, and that was programmed twice
    MaxImages, MaxFaults           \* bounds: downloads begun; flash errors and power losses

DfuAssumption ==
    /\ EraseSize \in Nat \ {0} /\ Limit \in Nat /\ SealOffset \in 1..(Limit - 1)
    /\ Limit % EraseSize = 0 /\ Chunks \subseteq 1..SealOffset /\ MaxImages \in Nat
    /\ MaxFaults \in Nat

VARIABLES
    flash,
    dfuState, started,    \* state_, download_started_
    download, pending,    \* download_, and write_ with write_buffer_
    manifest, upload, image,
    erased,               \* erased_blocks_
    process,              \* where Process() is, and what it works with
    host,                 \* the image the host sends, and what it has read
    whole,                \* images the host has sent to their end
    launched,             \* the app runs
    dfuFaults,
    overtaken             \* a request fell into one of the windows of Process() below

backend == <<download, pending, manifest, upload, image, erased>>
class == <<dfuState, started>>
outside == <<host, whole, dfuFaults>>
dfuVars == <<flash, class, backend, process, outside, launched, overtaken>>

Cells == 0..(Limit - 1)
BlocksOf(offset, n) == (offset \div EraseSize)..((offset + n - 1) \div EraseSize)
Content(n) == [k \in 1..n |-> flash[k - 1]]
Image(i, n) == [k \in 1..n |-> <<i, k>>]
Seal(content) == [size |-> Len(content), crc32 |-> content]

NoDownload == [session_started |-> FALSE, received |-> 0, expected |-> 0, ok |-> TRUE]
NoWrite == [pending |-> FALSE, offset |-> 0, data |-> <<>>, block |-> 0]
NoManifest == [pending |-> FALSE, ok |-> TRUE]
NoUpload == [session_started |-> FALSE, offset |-> 0, expected |-> 0, size |-> 0]
NoImage == [ready |-> FALSE, size |-> 0, launch |-> FALSE]
Resting == [pc |-> "idle", todo |-> {}, seal |-> Seal(<<>>)]
NoTransfer == [image |-> 0, sent |-> 0, block |-> 0, got |-> <<>>]

\* What the device starts from: flash with an image of n bytes, or none.
Power(n) ==
    /\ flash = [c \in Cells |-> IF n > 0 /\ c = SealOffset THEN Seal(Image(0, n))
                                ELSE IF c < n THEN <<0, c + 1>> ELSE Blank]
    /\ whole = IF n > 0 THEN {Image(0, n)} ELSE {}

Init ==
    /\ \E n \in {0, SealOffset} : Power(n)
    /\ dfuState = "IDLE" /\ started = FALSE
    /\ download = NoDownload /\ pending = NoWrite /\ manifest = NoManifest /\ upload = NoUpload
    /\ image = NoImage /\ erased = {} /\ process = Resting
    /\ host = NoTransfer /\ launched = FALSE /\ dfuFaults = 0 /\ overtaken = FALSE

\* The windows: a transfer is dropped while Process() computes the CRC; a request
\* starts something while Process() still works on a dropped transfer; and
\* RequestRunApp() is called with work pending.
Overtakes(p) == overtaken' = (overtaken \/ p)
Working == process.pc # "idle"
Sealing == process.pc = "crc"

----------------------------------------------------------------------------
(* The backend, called from the interrupt.                                    *)

ResetTransferState ==
    download' = NoDownload /\ pending' = NoWrite /\ manifest' = NoManifest /\ upload' = NoUpload

DfuAbort == ResetTransferState /\ image' = NoImage /\ UNCHANGED erased

ProbeMagic ==  \* mutant: the seal is believed, whatever the image is
    flash[SealOffset] \notin {Blank, Garbled} /\ flash[SealOffset].size \in 1..SealOffset

ProbeStoredImage ==
    LET seal == flash[SealOffset] IN
      /\ seal \notin {Blank, Garbled} /\ seal.size \in 1..SealOffset
      /\ Content(seal.size) = seal.crc32

HasPendingWork == pending.pending \/ manifest.pending

TryRequestRunApp ==
    \/ image.ready /\ image' = [image EXCEPT !.launch = TRUE]
    \/ /\ ~image.ready /\ ProbeStoredImage
       /\ image' = [ready |-> TRUE, size |-> flash[SealOffset].size, launch |-> TRUE]
    \/ ~image.ready /\ ~ProbeStoredImage /\ image' = [image EXCEPT !.size = 0]

\* A download is begun: by the first block, or by another first block.
Begins(b) ==
    b = 0 /\ (~download.session_started \/ download.received # 0 \/ download.expected # 0)

StartDownloadSession ==
    /\ manifest' = NoManifest /\ upload' = NoUpload /\ image' = NoImage /\ erased' = {}

Accepts(b) ==
    ~HasPendingWork /\ (Begins(b) \/ (download.session_started /\ b = download.expected))

\* The block goes into the buffer; Process() will program it.
DfuDownload(b, data) ==
    LET offset == IF Begins(b) THEN 0 ELSE download.received
    IN  /\ IF Begins(b) THEN StartDownloadSession ELSE UNCHANGED <<manifest, upload, image, erased>>
        /\ IF offset + Len(data) > SealOffset
           THEN /\ dfuState' = "ERROR" /\ UNCHANGED started
                /\ download' = IF Begins(b) THEN [NoDownload EXCEPT !.session_started = TRUE]
                               ELSE download
                /\ pending' = IF Begins(b) THEN NoWrite ELSE pending
           ELSE /\ dfuState' = "DNLOAD_SYNC" /\ started' = TRUE
                /\ download' = IF Begins(b) THEN [NoDownload EXCEPT !.session_started = TRUE]
                               ELSE [download EXCEPT !.ok = TRUE]
                /\ pending' = [pending |-> TRUE, offset |-> offset, data |-> data, block |-> b]

----------------------------------------------------------------------------
(* The class.  It holds an error until CLRSTATUS, and stalls what it does not *)
(* expect.                                                                    *)

ProtocolStall == dfuState' = "ERROR" /\ UNCHANGED <<started, backend>>

\* The host sends its image from block 0 on, and from block 0 again whenever
\* it likes, and one byte more than there is room for at the most.
Dnload(n, b) ==
    /\ b \in {0, host.block} /\ (b = 0 => host.image < MaxImages)
    /\ LET i == IF b = 0 THEN host.image + 1 ELSE host.image
           sent == IF b = 0 THEN 0 ELSE host.sent
           data == [k \in 1..n |-> <<i, sent + k>>]
       IN  /\ sent + n <= SealOffset + 1
           /\ IF dfuState \notin {"IDLE", "DNLOAD_IDLE"} \/ ~Accepts(b)
              THEN ProtocolStall /\ UNCHANGED <<host, overtaken>>
              ELSE /\ DfuDownload(b, data)
                   /\ host' = [host EXCEPT !.image = i, !.sent = sent + n, !.block = b + 1]
                   /\ Overtakes(Working)
    /\ UNCHANGED <<flash, process, whole, launched, dfuFaults>>

DnloadEnd ==
    /\ IF dfuState \in {"IDLE", "DNLOAD_IDLE"} /\ started
       THEN /\ dfuState' = "MANIFEST_SYNC" /\ UNCHANGED <<started, backend>>
            /\ whole' = whole \cup {Image(host.image, host.sent)}
       ELSE ProtocolStall /\ UNCHANGED whole
    /\ UNCHANGED <<flash, process, host, launched, dfuFaults, overtaken>>

\* The answer moves the state on.
RefreshDownloadStatus ==
    /\ dfuState \in {"DNLOAD_SYNC", "DNBUSY"}
    /\ dfuState' = IF ~download.ok THEN "ERROR"
                   ELSE IF pending.pending THEN "DNBUSY" ELSE "DNLOAD_IDLE"
    /\ UNCHANGED <<started, backend>>

DfuManifest ==
    /\ dfuState = "MANIFEST_SYNC"
    /\ IF ~download.session_started \/ download.received = 0 \/ pending.pending
       THEN dfuState' = "ERROR" /\ UNCHANGED manifest
       ELSE dfuState' = "MANIFEST" /\ manifest' = [pending |-> TRUE, ok |-> TRUE]
    /\ UNCHANGED <<started, download, pending, upload, image, erased>>

RefreshManifestStatus ==
    /\ dfuState = "MANIFEST"
    /\ IF ~manifest.ok THEN dfuState' = "ERROR" /\ UNCHANGED started
       ELSE IF manifest.pending THEN UNCHANGED class
       ELSE dfuState' = "MANIFEST_WAIT_RESET" /\ started' = FALSE
    /\ UNCHANGED backend

GetStatus ==
    /\ RefreshDownloadStatus \/ DfuManifest \/ RefreshManifestStatus
    /\ UNCHANGED <<flash, process, outside, launched, overtaken>>

\* The status stage of a GETSTATUS, with autorun_ on.
DfuCommitManifestWaitReset ==
    /\ dfuState = "MANIFEST_WAIT_RESET" /\ image.ready
    /\ image' = [image EXCEPT !.launch = TRUE]
    /\ UNCHANGED <<flash, class, download, pending, manifest, upload, erased, process, outside,
                   launched, overtaken>>

ClearStatus ==
    /\ IF dfuState = "ERROR"
       THEN /\ ResetTransferState /\ image' = [image EXCEPT !.launch = FALSE]
            /\ dfuState' = "IDLE" /\ UNCHANGED <<started, erased>> /\ Overtakes(Sealing)
       ELSE ProtocolStall /\ UNCHANGED overtaken
    /\ UNCHANGED <<flash, process, outside, launched>>

Abortable == {"IDLE", "DNLOAD_SYNC", "DNLOAD_IDLE", "UPLOAD_IDLE", "MANIFEST_SYNC"}

Abort ==
    /\ IF dfuState \in Abortable
       THEN DfuAbort /\ dfuState' = "IDLE" /\ UNCHANGED started /\ Overtakes(Sealing)
       ELSE ProtocolStall /\ UNCHANGED overtaken
    /\ UNCHANGED <<flash, process, outside, launched>>

\* SET_INTERFACE answers BUSY in the other states.
SetAltSetting ==
    /\ dfuState \in Abortable \cup {"ERROR"}
    /\ DfuAbort /\ dfuState' = "IDLE" /\ UNCHANGED started /\ Overtakes(Sealing)
    /\ UNCHANGED <<flash, process, outside, launched>>

\* A bus reset: UnbindEndpoints(), and BindEndpoints() when the host is back.
BusReset ==
    /\ DfuAbort /\ dfuState' = "IDLE" /\ started' = FALSE /\ Overtakes(Sealing)
    /\ UNCHANGED <<flash, process, outside, launched>>

\* DETACH belongs to the runtime DFU.
Detach ==
    /\ ProtocolStall
    /\ UNCHANGED <<flash, process, outside, launched, overtaken>>

RunsApp ==
    /\ TryRequestRunApp
    /\ UNCHANGED <<flash, class, download, pending, manifest, upload, erased, process, outside,
                   launched>>

\* The vendor request RUN_APP.
OnVendorRequest == ~HasPendingWork /\ RunsApp /\ Overtakes(Working)

----------------------------------------------------------------------------
(* Reading the image back.                                                    *)

SizeToUpload ==
    IF image.ready THEN image.size ELSE IF ProbeStoredImage THEN flash[SealOffset].size ELSE 0

Uploading(b) ==
    IF b = 0 THEN [session_started |-> TRUE, offset |-> 0, expected |-> 1, size |-> SizeToUpload]
    ELSE upload

DfuUpload(n, b) ==
    LET u == Uploading(b)
        read == SubSeq(Content(SealOffset), u.offset + 1, Min({u.offset + n, u.size}))
    IN  /\ upload' = [u EXCEPT !.offset = @ + Len(read),
                               !.expected = IF u.offset >= u.size THEN @ ELSE b + 1]
        /\ dfuState' = IF Len(read) < n THEN "IDLE" ELSE "UPLOAD_IDLE"
        /\ host' = [host EXCEPT !.got = (IF b = 0 THEN <<>> ELSE @) \o read]

Upload(n, b) ==
    /\ b \in {0, upload.expected}
    /\ IF dfuState \in {"IDLE", "UPLOAD_IDLE"} /\ (b = 0 \/ upload.session_started)
          /\ (b = 0 => SizeToUpload > 0)
       THEN DfuUpload(n, b) /\ Overtakes(Working)
       ELSE /\ upload' = (IF dfuState \in {"IDLE", "UPLOAD_IDLE"} THEN Uploading(b) ELSE upload)
            /\ dfuState' = "ERROR" /\ UNCHANGED <<host, overtaken>>
    /\ UNCHANGED <<flash, started, download, pending, manifest, image, erased, process, whole,
                   launched, dfuFaults>>

----------------------------------------------------------------------------
(* Process(), in the main loop.                                               *)

At(p) == process.pc = p
Rest == process' = Resting
Goto(p) == process' = [process EXCEPT !.pc = p]
InMainLoop == UNCHANGED <<class, upload, host, whole, launched, overtaken>>

\* A flash operation fails; a write may have got some way.
Fault == dfuFaults < MaxFaults /\ dfuFaults' = dfuFaults + 1
WriteFails ==
    download' = [download EXCEPT !.ok = FALSE] /\ pending' = [pending EXCEPT !.pending = FALSE]
ManifestFails == manifest' = [pending |-> FALSE, ok |-> FALSE]

ProcessPendingWrite ==
    /\ At("idle") /\ pending.pending
    /\ process' = [Resting EXCEPT !.pc = "erase",
                                  !.todo = BlocksOf(pending.offset, Len(pending.data))]
    /\ UNCHANGED <<flash, download, pending, manifest, image, erased, dfuFaults>> /\ InMainLoop

\* EnsureBlocksErased(), one block.
EraseAll(b) == TRUE  \* mutant: the map of erased blocks is not looked at
ToErase(b) == b \notin erased

EnsureErased ==
    /\ process.todo # {}
    /\ LET b == Min(process.todo) IN
         /\ flash' = IF ToErase(b)
                     THEN [c \in Cells |-> IF c \div EraseSize = b THEN Blank ELSE flash[c]]
                     ELSE flash
         /\ erased' = erased \cup {b}
         /\ process' = [process EXCEPT !.todo = @ \ {b}]
    /\ UNCHANGED <<download, pending, manifest, image, dfuFaults>> /\ InMainLoop

EraseFails ==
    /\ process.todo # {} /\ ~(process.todo \subseteq erased) /\ Fault /\ Rest
    /\ IF At("erase") THEN WriteFails /\ UNCHANGED manifest
       ELSE ManifestFails /\ UNCHANGED <<download, pending>>
    /\ UNCHANGED <<flash, image, erased>> /\ InMainLoop

Torn(offset, data) ==
    [c \in Cells |-> IF c \in offset..(offset + Len(data) - 1) THEN Garbled ELSE flash[c]]

Programmed(offset, data) ==
    [c \in Cells |-> IF c < offset \/ c >= offset + Len(data) THEN flash[c]
                     ELSE IF flash[c] = Blank THEN data[c - offset + 1] ELSE Garbled]

Program ==
    /\ At("erase") /\ process.todo = {}
    /\ \/ /\ flash' = Programmed(pending.offset, pending.data)
          /\ Goto("record") /\ UNCHANGED <<download, pending, dfuFaults>>
       \/ /\ Fault /\ WriteFails /\ Rest
          /\ flash' \in {flash, Torn(pending.offset, pending.data)}
    /\ UNCHANGED <<manifest, image, erased>> /\ InMainLoop

Record ==
    /\ At("record") /\ Goto("written")
    /\ download' = [download EXCEPT !.received = pending.offset + Len(pending.data),
                                    !.expected = pending.block + 1, !.ok = TRUE]
    /\ UNCHANGED <<flash, pending, manifest, image, erased, dfuFaults>> /\ InMainLoop

Written ==
    /\ At("written") /\ Rest /\ pending' = [pending EXCEPT !.pending = FALSE]
    /\ UNCHANGED <<flash, download, manifest, image, erased, dfuFaults>> /\ InMainLoop

\* seal.size holds the size while the CRC is computed.
ProcessPendingManifest ==
    /\ At("idle") /\ ~pending.pending /\ manifest.pending
    /\ IF download.received = 0 THEN ManifestFails /\ UNCHANGED process
       ELSE /\ process' = [Resting EXCEPT !.pc = "crc", !.seal.size = download.received]
            /\ UNCHANGED manifest
    /\ UNCHANGED <<flash, download, pending, image, erased, dfuFaults>> /\ InMainLoop

ComputeImageCrc32 ==
    /\ At("crc")
    /\ \/ /\ process' = [pc |-> "unseal", todo |-> BlocksOf(SealOffset, 1),
                         seal |-> [size |-> download.received,
                                   crc32 |-> Content(process.seal.size)]]
          /\ UNCHANGED <<manifest, dfuFaults>>
       \/ Fault /\ ManifestFails /\ Rest
    /\ UNCHANGED <<flash, download, pending, image, erased>> /\ InMainLoop

WriteSeal ==
    /\ At("unseal") /\ process.todo = {}
    /\ \/ /\ flash' = Programmed(SealOffset, <<process.seal>>)
          /\ Goto("seal") /\ UNCHANGED <<manifest, dfuFaults>>
       \/ /\ Fault /\ ManifestFails /\ Rest
          /\ flash' \in {flash, Torn(SealOffset, <<process.seal>>)}
    /\ UNCHANGED <<download, pending, image, erased>> /\ InMainLoop

ImageReady ==
    /\ At("seal") /\ Goto("ready")
    /\ image' = [ready |-> TRUE, size |-> download.received, launch |-> FALSE]
    /\ UNCHANGED <<flash, download, pending, manifest, erased, dfuFaults>> /\ InMainLoop

CloseSession ==
    /\ At("ready") /\ Rest
    /\ download' = [NoDownload EXCEPT !.ok = download.ok] /\ manifest' = NoManifest
    /\ upload' = NoUpload
    /\ UNCHANGED <<flash, class, pending, image, erased, outside, launched, overtaken>>

Process ==
    \/ ProcessPendingWrite \/ EnsureErased \/ EraseFails \/ Program \/ Record \/ Written
    \/ ProcessPendingManifest \/ ComputeImageCrc32 \/ WriteSeal \/ ImageReady \/ CloseSession

\* The board asks for the app, in the main loop too.
RequestRunApp == At("idle") /\ RunsApp /\ Overtakes(HasPendingWork)

TryConsumeAppLaunch ==
    /\ At("idle") /\ image.launch /\ image.ready
    /\ image' = [image EXCEPT !.launch = FALSE] /\ launched' = TRUE
    /\ UNCHANGED <<flash, class, download, pending, manifest, upload, erased, process, outside,
                   overtaken>>

----------------------------------------------------------------------------
PowerLoss ==
    /\ Fault /\ UNCHANGED <<flash, whole, overtaken, launched>>
    /\ dfuState' = "IDLE" /\ started' = FALSE /\ erased' = {}
    /\ ResetTransferState /\ image' = NoImage /\ Rest
    /\ host' = [NoTransfer EXCEPT !.image = host.image]

Request ==
    \/ \E n \in Chunks : \E b \in 0..Limit : Dnload(n, b) \/ Upload(n, b)
    \/ DnloadEnd \/ GetStatus \/ DfuCommitManifestWaitReset \/ ClearStatus \/ Abort
    \/ SetAltSetting \/ BusReset \/ Detach \/ OnVendorRequest

\* What comes after the app is started, or after Process() is overtaken, is not
\* followed.
Next ==
    /\ ~launched /\ ~overtaken
    /\ Request \/ Process \/ RequestRunApp \/ TryConsumeAppLaunch \/ PowerLoss

Sealed(contents) == ProbeStoredImage /\ Content(flash[SealOffset].size) \in contents

\* Whatever the power, the flash and the host did, the flash is accepted only
\* with an image that a host has sent to its end; the app that is started is
\* such an image; MANIFEST_WAIT_RESET tells the host that its own image is
\* sealed; and what it reads back is such an image, from its beginning on.
\* The windows above are excepted.
ImagesWhole ==
    ~overtaken =>
       /\ ProbeStoredImage => Sealed(whole)
       /\ launched => Sealed(whole)
       /\ dfuState = "MANIFEST_WAIT_RESET" => Sealed({Image(host.image, host.sent)})
       /\ dfuState = "UPLOAD_IDLE" =>
             Content(upload.size) \in whole /\ IsPrefix(host.got, Content(upload.size))

Spec == Init /\ [][Next]_dfuVars
=============================================================================
