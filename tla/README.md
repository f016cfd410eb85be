# SafeWall: models and proofs

SafeWall is a transparent file encryption system for Windows: a file system filter
driver encrypts documents, a server service keeps users and policies, and a client
service keeps a user logged on. This directory holds TLA+ models of the parts that
decide whether documents survive and whether users and policies are what everybody
thinks they are, TLC configurations that check them, and proofs checked by TLAPS.

Contents: 1 the system, 2 modules, 3 runs, 4 bounds, 5 fairness, 6 proofs,
7 disagreements with the repository's own words, 8 what is not modelled, 9 plan.

## 1. The system

| Part | State | Operations | What is hard |
|---|---|---|---|
| File encryption (`SafeWall/SwTransformFile.cpp`, `MyFileSystemRoutine.cpp`) | the files of a volume; per request two handles, an offset, a status | `SafeWallEncryptFile`, `SafeWallDecryptFile`, `SafeWallReplaceFile`, called from the control codes of the shell extension | several requests on one path, no lock, calls that fail half way, loss of power |
| Cipher and header (`SafeWall/SwTransformCode.cpp`) | none: keys of the installation, a key per file in its header | `encode1`, `decode1`, `InlineLeftCircleSwid`, `InlineRightCircleSwid`, `Enhead`, `Dehead`, `CheckSafeWallFlags` | index arithmetic of keys that turn, buffer by buffer |
| Volume attachment (`SafeWall/FileSytemAttachToDevice.cpp`, `FileSystemDeviceControl.cpp`, `IsShadowCopyVolume.cpp`, `CompletionRoutine.cpp`) | the driver's device objects and what they are attached to; `gFastMutexAttachLock` | `FileSystemChangeNotification`, `EnumerateFileSystemVolumes`, `FileSystemControlMountVolume`, `AttachToMountedDevice` | mounts that run while volumes are enumerated; undoing after a failure |
| Driver entry and control (`DriverEntry.cpp`, `DriverControlDispatchRoutine.cpp`) | the driver object | `DriverEntry`, `DriverUnload`, control codes | statuses that are dropped; unloading with requests under way |
| Transparent reads and writes (`Driver*DispatchRoutine.cpp`) | per file: flags found by its FCB | create, read, write, query, set, directory, cleanup, close | dormant: not registered (DriverEntry.cpp:72-83) |
| List of opened files (`SwFileList.cpp`), cache clearing (`FileSystemCacheClear.cpp`), process list, user access | lists in the driver | insert, delete, search | no caller at this commit, or commented out |
| Server service: policy (`swssvc/policy.cpp`, `On*Command.cpp`) | three JSON values, each with a file and a critical section | `ReadPolicy`, `SavePolicy`, password and setting commands | changes and saves of several threads; kills in a save |
| Server service: connections (`swssvc/sservice.cpp`, `worker.cpp`, `UserList.cpp`) | a handle per connection, the list of users | accept, receive, `worker`, send, lose, log on, log off | one outstanding I/O per connection; memory that is freed while linked |
| Client service (`swcsvc`) | the globals `server`, `userid`, `password` | `OnLogon`, `OnCancelLogon`, `OnChangePassword`, `OnGetAccess`, `KeepActivityThread` | two threads on one socket, replies that do not say what they answer, connections that are lost or go deaf |
| Framing (`include/mysock.c`, `RecvProc`, `SendProc`) | a buffer, an offset and a length; `gSection` | `mySend`, `myRecv`, `SendProc`, `RecvProc` | messages that arrive in pieces; two senders; the end of a stream in the middle of one |
| Configuration files (`include/inirw.c`) | the text of the file and a copy of it in memory | `iniGetString`, `iniSetString` | a file written by hand that must keep its form; offsets of keys, values and remarks |
| Windows (`SwClient`, `SwServer`, `ManagerUI`), shell extensions | dialogs | one request at a time | little |

How they interact: the shell extension sends `IOCTL_ENCRYPT`/`IOCTL_DECRYPT` with a
path to the driver's control device; the driver works on files through IRPs of its own.
The tray client hands a request to the client service through shared memory and a
service control; the client service talks JSON over TCP, port 1808, to the server
service, whose threads share policies and the list of users under critical sections. Both
services put their messages on the connection through the framing; the tray client and the
client service find server and user in an ini file.

### What makes each part correct

* *File encryption.* Some name always leads to a whole copy of the document; the
  path never leads to a partial one; a document is not encrypted twice; success means
  done; every request returns.
* *Cipher.* Decrypting gives back the document; the result does not depend on how the
  file is cut into buffers; keys do not repeat as early as a period would let them.
* *Attachment.* One device per volume, no device lost or deleted while attached, every
  mounted volume filtered once the file system has been enumerated, no shadow copy
  touched, the mutex given back.
* *Policy.* The file follows the memory; what was answered with success is not lost; of
  two concurrent password changes from the same old password one wins.
* *Connections.* Who is logged on and connected is on the list, once; a handle that is
  freed is not on it; nobody follows links into freed memory; a refused connection is closed.
* *Client service.* Client and server agree on who is logged on and with which password;
  a reply goes to the thread whose request it answers; a control returns; a user whose
  connection was lost is logged on again or told that he is not.
* *Framing.* Messages arrive whole, once and in order, whatever the pieces; none is
  written past the memory allocated for it; the server goes on reading as long as it
  answers, and notices the end of a connection.
* *Configuration files.* A setting reads as what it was set to, no other reads
  differently than before, and what somebody wrote beside the settings stays.

## 2. Modules

Names follow the source. One action stands for what a thread does between two calls at
which others can get in between; `PROJECT.json` maps each definition to its lines.

| Module | Models |
|---|---|
| `FileTransform` | the three routines of `SwTransformFile.cpp`, one action per call on the file system: `Open`, `CheckHead`, `CreateTemp`, `SetHead`, `ReadChunk`, `WriteChunk`, `CloseSource`, `DeleteSource`, `RenameNew`, `CloseNew`, `GiveUp`; and `Crash`. Variables `src`, `new`, `tmp`, `pos`, `status` are the locals `srcFile`, `newFile`, `newFilePath`, `srcOffset` and the status. A file is its number of headers, its number of encodings and the buffers written to it. |
| `Document` | the abstract promise: a document at a path and whole copies beside it, of which the last is never given up. `FileTransform` is shown to implement it (`KeepsDocument`). |
| `TransformCode` | the cipher as functions on sequences of bytes, a byte being a set of bits. |
| `FileCode` | writing and reading a whole encrypted file with it: header, pages, end. |
| `VolumeAttach` | mount requests and the notification, one action per step outside the mutex and per step that can fail inside; volumes are dismounted at any time. |
| `PolicyFile` | one of the three policy files: change, open (which empties the file), write, restart. |
| `AddressList` | the linked list that `UserList.cpp` (and `SwFileList.cpp`) keep: the links of each node and of the header (`flink`, `blink`), which memory is allocated (`live`), the critical section (`inside`) and, for a search, the node it has come to (`at`). A search takes one step per node; memory is given out, zeroed, and freed between the steps. |
| `Sessions` | the connections of the server service: what each waits for (a receive, a reply, a reply after which nothing more can be received, nothing) or what its thread is about to do, its role, and the list. |
| `ClientService` | the two threads of the client service, one step per statement that can block, with the sockets, the messages under way and what the server makes of them. `pc` is where a thread is, `on` the socket it receives on. |
| `Channel` | the abstract connection: messages are received whole, in the order in which they were sent. |
| `Framing` | one connection in one direction: senders that put lengths and pieces into a stream, a reader that puts messages together and, when it is the server, asks for the next one only behind its answer (`After`, `Answer`); `Answered` says which messages it answers. It implements `Channel` (`KeepsChannel`). |
| `IniFile` | a file as a sequence of tokens, its reader (`GetLine`, `iniGetString`) and its writer (`iniSetString`, up to `fopen` and from there to `fclose`). |

The file system, the I/O manager, Winsock and the heap are external: they are modelled as
far as the code relies on them. A deleted file keeps its name until its last handle is
closed; a mount request goes to the top of the stack of the control device; a receive on
a socket that is shut down fails at once and completes nowhere; freed memory is given out
again. `MC*` modules give constants their values; `*_proofs` modules hold the proofs: one for
each of `FileTransform`, `FileCode` (with `TransformCode`), `VolumeAttach`, `PolicyFile`,
`Sessions`, `ClientService`, `Framing` and `IniFile`.

Choices worth knowing:

* The status of a call is read out of an IRP that its completion routine has freed
  (`MyFileSystemRoutine.cpp:97`). In `FileTransform` that is the faults `"lost"` (a failed
  write passes for a good one) and `"read"` (a good read passes for a failed one).
* What a call has written is durable when it returns. The driver does not flush; a volume
  that loses written data at a power failure is outside the model.
* `Faults` says what may go wrong. Each property is checked with the largest set of faults
  under which the code can keep it. Where a property holds until something fails, a history
  variable (`failed`) says whether it has, so that one run checks both sides of the failure.
* `Sessions` goes on when a handle is freed while it is linked, and when its address is
  given out again with zeroed links; it ends where the service reads or writes the links of
  memory that is not allocated (`broken`), since what happens then is undefined. The history
  variable `stale` says whose memory was freed while it was linked: the properties of the
  run hold until then, and section 7 says what happens after. `ClientService` ends where both threads are
  inside a routine that uses the globals at the same time (`overlapped`), `Framing` where a
  length arrives in pieces, is not the one that was to be sent, or is used although none
  arrived (`broken`): from there on the code bounds nothing. Section 7 says what lies behind these ends.
* `ClientService` takes for granted what `Framing` shows, that a message is whole, and that
  the server's saves succeed, which is the matter of `PolicyFile`. Whether the policy a user
  asks for is set is chosen anew at each request (`OnClientLoadAccess`). The keeper's test
  of the globals and its `mySend` or `OnLogon` begin as one step: a control that gets in
  between them is inside a routine at the same time, which is where the module ends.
* In `Framing` the sender's `Close` is an orderly one. After a reset, a receive asked for
  may fail at once and complete nowhere; that is in `Sessions` (`Resets`). So is the want
  of memory for a message (`Ignore`).
* In `FileTransform` a failed write may pass for a good one and a good read for a failed one.
  The reverse of the latter, a failed read that passes for a good one
  (`MyFileSystemRoutine.cpp:520` reads the status where the others do), is left out: the
  copy would hold whatever was in the buffer.
* In `IniFile` a word is one token and each character `GetLine` has a case for is one; the
  positions of keys, values and remarks are computed as the code does. `Tidy` says which
  texts the file may hold at first; section 7 says what happens to others.
* The cipher's widths are constants: a byte of `ByteBits` bits, a word of `WordBytes` bytes,
  four words to a key, `KeyBytes` blocks to a period, `Page` bytes to a buffer.

## 3. Runs

`tlc -config X.cfg M`; `PROJECT.json` lists the module of each. Runs that end in a
violation show a disagreement of section 7.

| Run | Asks | Result |
|---|---|---|
| `FileTransform_safe` | Two requests on one path, every fault but a failed read and a misreported write: is a whole copy of the document always under some name (`PayloadSafe`), is the path never partial (`HomeIsWhole`), is the source given up only for a whole copy (`ReplacedByWhole`), does a `.wall` file belong to one worker (`OwnTemp`), do the steps refine `Document` (`KeepsDocument`), is `IInv` invariant? | holds |
| `FileTransform_refused` | Calls are refused, none is lost: is nothing encrypted twice (`EncryptedOnce`), is every orphaned copy whole (`OrphanIsWhole`), is every request answered (`RequestsReturn`)? | holds |
| `FileTransform_read_error` | One failed read: `PayloadSafe`? | violated |
| `FileTransform_two_requests` | No fault, two requests: does the path lead to a file when both are done (`PathSurvives`)? | violated |
| `FileCode_pages` | Does decryption give the document back (`RoundTrip`), whatever the buffers (`PageIndependent`), with keys that do not repeat early (`NoKeyTwice`) and turn as they should (`TurnsAgree`)? | holds |
| `VolumeAttach_faulty` | Every fault: one device per volume (`AtMostOne`), none leaked or deleted while attached (`EveryDeviceOwned`), every volume filtered (`Filtered`) and no shadow copy (`ShadowsUntouched`) as far as no call failed on it, mounts and the notification return and give the mutex back (`MountsReturn`), `AttachInv`? | holds |
| `PolicyFile_faulty` | Every fault and restarts: one winner of two password changes (`OneWinner`), every request answered (`Answered`); until a call fails or the service is killed, does the file follow the memory (`Settled`) and is no success lost (`SuccessIsSaved`)? `SaveInv`? | holds |
| `Sessions_users` | Until a handle is freed while it is linked: is who is logged on and connected on the list (`OnlineListed`), does every link lead back, so that nobody is linked twice (`LinksAgree`), is no memory used that is not allocated (`FreedUnused`), does every search end and its thread leave the section (`SearchEnds`)? | holds |
| `Sessions_delete` | Is a freed handle never on the list (`NothingStale`)? | violated |
| `ClientService_beats` | Connections lost and refused at any step, heartbeats between controls: do both sides agree on the user (`SameUser`) and his password (`PasswordKnown`), do replies go to who asked (`AnswersMatch`), does the server go on listening until it comes to a heartbeat or refuses a policy (`Listening`), does a control return unless its request came behind either (`ControlReturns`), is a lost user logged on again or told (`LoggedOnAgain`)? | holds |
| `Framing_pieces` | Two threads or the server send, and the stream cuts at will: a channel of whole messages (`KeepsChannel`), within the memory allocated (`WithinBuffer`), all delivered up to the first that the server does not answer (`EveryMessageArrives`); does a server that receives see the end, wherever in a message it comes (`EndIsSeen`)? | holds |
| `IniFile_sets` | Any two settings written into any tidy file: does each read as it was set and no other change (`KeepsSettings`), do remarks, malformed and empty lines stay (`KeepsForm`)? | holds |

Every property of a passing run has a mutant in `PROJECT.json`: a plausible wrong form of
an operation (a mutex not released, an end of file that does not end the loop, an offset that counts the
header) under which the property fails.

## 4. Bounds

* `FileTransform`: two workers, a path, two `.wall` names, three files, a document of two
  buffers, two layers of encryption. Two workers meet at every pair of steps; three would
  only queue behind the same name. Three files are enough for both copies and the source.
  Two buffers have a first, a last and a middle; the third layer, an encryption
  of an encryption, can only come from a header that was not seen.
* `FileCode`: bytes of 2 bits, words of one byte, so keys of 8 bits: 256 keys, all of which
  are tried. A buffer of two blocks, a period of eight blocks: documents of 0 to 72 bytes
  end before, at and after a byte, a block, a buffer and a period. `NoKeyTwice` looks at
  the whole range of `KeyBytes * KeyBytes` blocks.
* `VolumeAttach`: two mount requests and the notification, an ordinary volume and a shadow
  copy, three devices (one on the control device, two in competition for a volume), two
  attempts instead of eight. A request without a device left is one that cannot create
  it. All fault kinds at once.
* `PolicyFile`: two threads with one request each, two fields, three values. The proof
  does without these bounds.
* `Sessions`: three addresses below the one of the list's header, all three roles, any
  number of connections at the same addresses, also after a freed one was left linked. Three
  users are the fewest for a list with a middle; the proofs do without the bound, and
  for a header at any address.
* `ClientService`: one user with two passwords, two sockets (the one in use and the next;
  what nobody refers to any more is used again), two losses or refusals (one to be logged
  on again after, one in the middle of that), one unread message when a heartbeat is due.
  Two users with one loss, and two unread messages, have been tried too and show nothing new.
* `Framing`: messages of length 0, 2 and 3 with a buffer of 2 bytes and a length of 2: an
  empty message, one that fills a buffer and that the server does not answer (as a
  heartbeat), one that goes over it and that it answers; two messages to a sender,
  so that one can get between the parts of another. The proofs do without these bounds.
* `IniFile`: files of up to three lines out of nine shapes (a section with and without
  blanks and a remark, settings with and without blanks, one in quotes that holds the
  sign of a remark, one without a value, a remark that looks like a setting, a malformed
  line, an empty one), two sections with two names, two settings written one after the
  other. The texts are tidy: every line is ended, no remark is empty or ends in a blank,
  no quoted value ends in a blank, and a value that is set is one word; section 7 says
  what happens otherwise.
* `MaxLayers`, `Retries`, `N`, `MaxDrops`, `MaxQueue`, `MaxTodo`, `MaxSets`, and the single
  request of a thread are the only bounds in guards or initial states.

## 5. Fairness

* `FileTransform`: weak fairness of each worker's next step: a thread that is inside the
  driver is scheduled again, and the calls it makes to the file system below return.
  No request has to be made.
* `VolumeAttach`: the same for the steps inside the driver, and strong fairness for taking
  the fast mutex, whose waiters are woken in turn. Mount requests, dismounts and the
  coming and going of file systems are free to happen or not.
* `PolicyFile`: weak fairness for who is in the critical section, strong for who waits for
  it. `Answered` says "done or lost": a kill takes the requests under way with it.
* `ClientService`: weak fairness of each thread's next step and of the server on each
  socket: threads go on, heartbeats come around (the timer of `KeepActivityThread`), and
  the server reads what is sent. Nobody has to ask for anything, and no connection breaks.
* `Framing`: weak fairness of each sender and of the reader: what was sent arrives, and a
  reply that is due is sent. Nobody has to close. `EnterCriticalSection` needs no strong fairness here, since each sender has
  a bounded number of messages.
* `Sessions`: weak fairness of the threads in the section or at its door, taken together:
  whoever can go on there does. `SearchEnds` needs no more, since it is about the one
  inside. Nobody has to connect, log on or go.

Liveness is checked without symmetry.

## 6. Proofs

For all values of the constants that satisfy the module's named assumption:

* `FileTransform_proofs` assumes `ReliableTransfer` (no fault `"read"`, no fault `"lost"`):
  `Invariance`, from which `PayloadIsSafe`, `HomeStaysWhole` and `ReplacedOnlyByWhole`
  follow. `PayloadSafe` is not inductive: between the delete of the source and the rename
  of the copy all rests on the `.wall` file, so `IInv` says what handles a worker has at
  each step (`HandlesOK`), how far its copy is (`CopyOK`), that names and files are not
  shared (`DistinctTemps`, `OneNamePerFile`), that only the file at the path is doomed and
  is held (`DoomedAtHome`), and that either the path leads to a file that is not
  doomed or a whole `.wall` file exists that nobody may still remove (`CopyKept`). One
  lemma per action; each conjunct an action can disturb has its own step.
  `DocumentIsKept`, that `FileTransform` implements `Document`, is proved from the same
  invariant: each action is shown to be a copy made (`Copied`), given up (`GivenUp`),
  returned to the path (`Returned`), forgotten while another is left (`Forgotten`), or
  nothing to a reader of the names (`Alone`); crashes and files that are removed with their
  last handle are the cases that need `IInv`. `OrphansAreWhole` assumes `TransferCompletes`
  besides (no failed write, no crash) and adds `WholeOrOwned`: a file under a `.wall` name is
  whole or still some worker's to finish.
  Whatever fails and whenever power is lost, the module proves `Ownership` and `OneOwner`.
  A `.wall` name is made by one create that fails when it exists, so `OwnInv` follows whose handle and whose name each worker has from step to step; `OwnTemp` alone
  does not say what a worker that is about to create still holds. `NeverEncryptedTwice`
  (`EncryptedOnce`) holds as long as headers can be read (no fault `"head"`), with lost
  writes and crashes: `HeadInv` adds to `OwnInv` that a worker past the check of the header
  still has a source with the number of headers it saw there (`HeadKnown`).
* `VolumeAttach_proofs`, whatever fails: `Invariance` (`AttachInv`) and `OneDevicePerVolume`. `LockInv` is
  the strengthening: who is past the check holds the mutex and has found nothing
  attached, and nobody else attaches meanwhile. `DevicesOwned` adds to it that a device is
  attached or in one request's hands and never both (`OwnedInv`), `NoneMissed` and
  `ShadowsLeftAlone` what each request has found out so far and which calls have failed
  (`FilterInv`).
* `PolicyFile_proofs`, whatever fails: `Invariance` (`SaveInv`), and, until a call fails or
  the service is killed, `FileFollowsMemory` and `NoSuccessLost`.
  Besides the properties the invariant has `SectionInv` (who writes holds the section) and
  `Stored` (what a request stored is in memory until a later request for that field).
  `OneChangeWins` has an invariant of its own, `WinInv`: once one of the changes is made the
  old password is neither in memory nor, when it was answered with success, in the file,
  through failed saves and restarts alike, unless a request has set it again.
* `Sessions_proofs`, for any set of addresses: `Invariance`, that `ListInv` is an
  invariant, from which `OnlineUsersListed`, `NoneListedTwice` and `FreedMemoryUnused`
  follow. What is on the list is what the links lead to (`Listed`, the nodes in every set
  that is closed under them), so each step on the list needs its effect on that set:
  a node linked between two neighbours joins it, a node unlinked leaves it, and links of
  nodes outside do not matter. For that the links must agree both ways (`RingOK`); that a
  node about to be linked is not on the list already is that a handle logs on once
  (`MembersOK`), and that no handle is freed under a search, that a search is at a node
  of the list and whoever frees a handle has been through the section (`PhaseOK`). All of it
  holds only until `stale` is not empty; `ListInv` says nothing of the list after that.
* `Framing_proofs`, for any messages, number of threads, size of a buffer and of a length:
  `FitsInBuffer`, which needs only that what is stored is shorter than the message
  (`SizeInv`), and `ChannelIsKept`, that `Framing` implements `Channel`. For this the stream
  has to be seen as frames one behind the other: `InStep` says that there is an assignment
  of messages to the bytes in the stream under which frames follow one another
  (`Frames`), the first byte is the one the reader needs and the last the one sent last
  (`Ends`). It is kept by taking bytes in front (`SuffixIsFrames`) and by adding some
  behind (`GrownIsFrames`); that one sender at a time does so is the section's merit
  (`OneSends`).
* `FileCode_proofs`: of the cipher `DecodeEncode`, that decoding undoes encoding for every
  buffer, offset, key and width, even at offsets inside a block; `TurnRightLeft`,
  `DeheadEnhead`. Of the whole file, under `WidthAssumption` (a key period is as many blocks as
  a SWID has bits, a buffer is whole SWIDs: `SafeWall.h:71`, 84): `DocumentComesBack`
  (`RoundTrip`), whose invariant `CopyInv` says that what the writer has put behind the
  header is, buffer by buffer, what the reader will decode to the part of the document
  copied so far, since both loops cut the file at the same offsets. `BuffersDoNotShow`
  (`PageIndependent`), `KeysDoNotRepeat` (`NoKeyTwice`) and `TurnsAreTurns` (`TurnsAgree`) are
  about the keys: the loop of `encode1` turns the private key once per block and the
  public key once per period begun, so how often a key was turned depends on the offset
  of the block in the file alone (`PrivateTurned`, `PublicTurned`); fewer turns than a circle never give the same key again,
  if it has no period of its own (`TurnsDiffer`), so no two of `KeyBytes * KeyBytes` blocks
  meet the same pair.
  These need induction over numbers of turns. The library's theorem for it takes an
  operator as a parameter; `SetInduction` states it of a set of numbers instead and is
  proved from the well-foundedness of `<`.
* `ClientService_proofs`, for any servers, users, passwords, bounds and breaks of
  connections, until both threads are in a routine that shares globals (`overlapped`):
  `AgreementKept`, from which `SameUserHolds`, `PasswordKnownHolds`, `AnswersMatchHolds`,
  `ListeningHolds` follow. Two threads and a server share sockets whose states none of them
  sees whole, so no property is inductive by itself. `Agreement` says who may
  have which socket (`SocketsOK`) and whose connection it is (`ConnectionsOK`), that a request
  under way is the only one and its sender waits for the reply (`RequestsAwaited`), that so
  is a reply (`RepliesAwaited`), that only who logs off says so (`CancelsClose`), and that the
  password in memory is the user's except between the answer to a change and its arrival
  (`PasswordRight`).

* `IniFile_proofs`, for any names, values, number of writes and tidy texts
  (`IniFileAssumption`: a name or value is a word with no meaning to `GetLine`, and every
  text the file may hold at first is `Tidy`): `SettingsKept` (`KeepsSettings`), and `StaysTidy`, that
  what is written is tidy again, without which the second write could break what the first
  has set. A text is tidy when its last line is ended and every remark behind a
  value holds an ordinary character, does not end in a blank, and has only blanks
  counted in front of its sign. The invariant `IniInv` is about the text that will
  be there next (`Latest`: what is left to `fclose`, or the file), since the file itself is empty
  while it is written. The proof looks at a text by places. What a line says depends
  on its own characters only (`LineMoved`), so a text in which one piece of a line was
  replaced (`Spliced`) has the lines it had, moved, but for the new one; the new line
  reads as the setting that was written, with what is kept behind it (`NewLine`). A map
  from the old places to the new that keeps their order and what they mean for a setting
  (`Maps`) takes the first line that gives the setting in the first such section to the
  first again (`SameGet`). That `Lines` is what its recursive function says, and finds every
  line, is `SetInduction` over the places from the end (`LinesFrom`, `AllLines`).

Only model-checked: the liveness properties (`RequestsReturn`, `MountsReturn`, `Answered`,
`ControlReturns`, `LoggedOnAgain`, `SearchEnds`, `EveryMessageArrives`, `EndIsSeen`), which are out of the
prover's reach, and `KeepsForm` of `IniFile`. It compares what `SelectSeq` and `FlattenSeq`
make of the remarks of two texts; `SelectSeq` is a recursive function whose value the library
has no facts about, so that the order of remarks needs an induction of its own.

## 7. Disagreements with the repository's own words

With a run that shows the shortest way there (`findings` in `PROJECT.json` quotes the lines):

1. A failed read ends the copy loop like the end of the file; the partial copy replaces the
   document (`SwTransformFile.cpp:147`, 200, 331, 360; `FileTransform_read_error`).
2. Two requests on one path can leave it without a file: the name of a deleted file that
   is still held blocks the rename (`SwTransformFile.cpp:206`; `FileTransform_two_requests`).
   The copy survives as `.wall`.
3. `DeleteUserListNode` looks at the first node only, in effect (`UserList.cpp:63`): other
   handles are freed while they are linked (`Sessions_delete`).

Met while modelling and readable off the models, without a run of their own. In the driver:

* a header that cannot be read passes for none, and an encrypted document is encrypted again
  (`SwTransformFile.cpp:627`; `Unflagged` with the fault `"head"`);
* a write that fails during an encryption leaves the `.wall` file behind
  (`SwTransformFile.cpp:176`; `GiveUp(w, op[w] = "decrypt")`);
* `InlineIsEqualSWID` compares its first argument with itself (`SwTransformCode.cpp:100`,
  against the comment in line 46), so any file's group passes for the company's
  (`SwTransformFile.cpp:547`);
* a mount request that had passed the control device before the driver attached to it, and
  completes after the enumeration, is missed (`FileSytemAttachToDevice.cpp:347`;
  `MountedBelow`), while line 163 says that none is;
* `SelectFileListNode` (`SwFileList.cpp`) has the search that stops too early of finding 3.

In the server service:

* a kill in the middle of `SavePolicy` leaves an empty file (`policy.cpp:44`, against line 5;
  `Restart` with `disk` torn);
* a setting whose save failed is answered with success (`OnServerCommand.cpp:157`;
  `Answer`), and one whose write fails at `fclose` too (`policy.cpp:49-60`);
* a password whose save failed stays in memory: the user is told that the change failed
  and has to use the new password to change it again (`OnClientCommand.cpp:103`; `Answer`);
* `InserUserListNode` links a handle after the greater node it stopped at (`UserList.cpp:117`):
  the list is not in order (`LinkFound`);
* after finding 3 `Sessions` shows what becomes of the list, against `UserList.cpp:101-102`,
  which says that no insertion happens twice. All of these come about without freed memory
  being used, by an address that is given out again, zeroed (`Allocate`), while it is linked:
  a user behind it is cut off from the list while he is online; 1, 3 and 2 log on, 2 is lost
  and comes back, and is linked behind itself, so that a search that passes it never ends;
  an administrator gets the address of an IC and is on the list of users. And a client that
  gets such an address has its links at `NULL`, through which the service faults when it
  takes the client off the list again;
* `worker` sends `SAFEWALL_SERVER_GET_PROCESS_ACCESS` and `..._SET_PROCESS_ACCESS` to
  `OnServerSetFileAccessInfo` (`worker.cpp:89-98`): to ask for the isolation of processes, or
  to set it, sets the suffix of files, and `OnServerGetProcessAccessInfo` and
  `OnServerSetProcessAccessInfo` are never called;
* a refused connection is shut down for reading only, and nothing closes it any more
  (`OnServerCommand.cpp:78`; `Sent` on a socket that is not open).

Between client and server:

* a heartbeat is a message of four zero bytes (`ServiceControlHandler.cpp:34`), which
  `worker` finds no handler for and drops without asking for the next one, while
  `sservice.cpp:132` expects a heartbeat of length 0: after the first heartbeat the server
  does not listen to that connection any more. That is why `Listening` and `ControlReturns`
  say "until a heartbeat", and `EveryMessageArrives` "up to the first that is not answered";
* a user who is logged on and asks for a policy that is not set is told "failed", and his
  connection is shut down for reading (`OnClientCommand.cpp:147-151`, 163-168): he stays logged
  on, and his next change of the password waits in `myRecv` for ever
  (`ServiceControlHandler.cpp:202`; `silenced` in `ClientService`);
* the client reads `reply["access"]["EffectiveTime"]` (`ServiceControlHandler.cpp:251`), where
  the server has put `access` under `context`: the policy has no effect there;
* a control and the heartbeat thread can both be in `OnLogon`, or one in it while the other
  logs off: each takes the reply of the other, one may wait for ever, and a user may be logged
  on again after logging off (`overlapped` in `ClientService`);
* a length that arrives in pieces is used when its first bytes are there
  (`sservice.cpp:138`), and the length of a reply is sent from a variable of a routine that
  has returned by then (`sservice.cpp:179`; `broken` in `Framing`);
* at the end of a stream `recv` returns 0 and `myRecv` asks again without end
  (`mysock.c:126`; `EndOfStream` of a reply), where a server that receives sees the end
  (`EndIsSeen`). When it was to receive a length it goes on with one that was never set; if
  that is 0, it returns an empty message that nobody sent (`mysock.c:115-140`);
* a message that fills its last buffer has no room for the zero put behind it
  (the macro at `mysock.h:14`, the zero at `mysock.c:137`); `WithinBuffer` says that no other message is
  without it, and that in the server (`sevdef.h:36`, `sservice.cpp:160`) none is.

In ini files (`inirw.c`; the texts that `IniFile` leaves out):

* a remark that is empty or ends in a blank cuts off the end of the value: the blanks before
  and inside the remark are counted together (line 212);
* a last line without an end is joined to the setting inserted behind it (line 494);
* a value with `;`, `#` or a quote in it is written as it is and read back cut;
* a setting written with an empty value gains a blank before its remark each time;
* the file is emptied before it is written: who reads it meanwhile sees defaults, and a
  process that ends there leaves it empty;
* two line feeds count as one line end, so an empty line is not always a line of its own;
* when more blanks are counted than the text before the remark has characters, the length
  of the content becomes negative and is handed to a copy (`inirw.c:219-224`), while a
  line of more than `SIZE_LINE` is an error (line 220): `Parts` has an empty line for the first,
  and the second is left out;
* a quote opened by `'` is not told from one opened by `"` where both occur in a line
  (`inirw.c:181-188`): `InQuotes` merges them, and the texts of the run have one kind only.

## 8. What is not modelled

`PROJECT.json` lists every part with its reason. Most of the repository's lines are not
SafeWall's own: DuiLib, its copies of image and archive libraries, Microsoft's FAT headers and
`json` are vendored, and about one line in five belongs to the driver, the services and
their windows. Of these:

* the dispatch routines for transparent reads and writes are not registered at this commit
  (`DriverEntry.cpp:72-83`); the list of opened files, the clearing of the cache and the
  process list have no caller or are commented out. A model of them would be one of what
  might have been meant;
* windows and dialogs keep no state beyond what is on the screen and make one synchronous
  request at a time; the shared memory between the tray client and the client service is an
  argument of a control in `ClientService`;
* the dispatch of control codes (which drops statuses, `DriverControlDispatchRoutine.cpp:44`,
  and hides directory entries), file system recognizers (`CompletionRoutine.cpp:31`) and
  `DriverUnload` (which detaches what may have nothing below it, waits five seconds and
  deletes, `DriverEntry.cpp:330`, without taking back the registration for notifications) are
  left to the plan;
* stopping the server service, which deletes locks that threads may hold (`swssvc.cpp:149`);
* numbers, deletion and settings without a section in ini files, which nothing uses.

Offsets inside a block are not passed to `encode1` by any caller; what it does there is in
`TransformCode` and covered by `DecodeEncode`, not by `PageIndependent`.

## 9. Plan

What would come next, in this order:

1. `DriverControl`: the control codes, their statuses and hiding, composed with
   `FileTransform`; `DriverUnload` with mount requests under way, composed with `VolumeAttach`.
2. File system recognizers in `VolumeAttach`.
3. `TransparentIo` and `FcbList`, once the dispatch routines are registered: what plain
   reads and writes of encrypted files promise; `AddressList` again.
4. `CacheClear`, once it is called: the order of the locks of an FCB.

Theorem to prove next: `KeepsForm`, from `Spliced` and `LineMoved` of `IniFile_proofs` and,
by `SetInduction`, that the remarks of a text are those of the lines in front of the one
written, its own, and those of the lines behind it.
