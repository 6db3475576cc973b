------------------------------ MODULE ZipHeaders ------------------------------
(***************************************************************************)
(* The headers of a ZIP archive through several updates: what COutArchive  *)
(* reserves before the data and writes after it, what CHeaderExtraStorage  *)
(* keeps of the extra fields, CHeaderRebel::ChangeLocalHeader, and how     *)
(* CInArchive and CHandler find the entries again.  Update2St writes       *)
(* entry by entry; an update is one command: "u" adds, replaces and        *)
(* deletes, "rn" renames, "uh" changes headers.                            *)
(*                                                                         *)
(* Lengths count bytes, and names are their lengths; the limits of 16 and  *)
(* 32 bits are scaled down.  Times are ticks, two to a second of a Unix    *)
(* time and four to a unit of a DOS time; 0 stands for a time that is not  *)
(* defined.  Texts, attributes, methods and the -hiz mode are left out.    *)
(***************************************************************************)
EXTENDS Integers, Sequences, FiniteSets, FiniteSetsExt

CONSTANTS
  Big16, Big32,  \* 0x10000 and 0xFFFFFFFF
  Soon32,        \* 0xF8000000: the local header of such a file has 64-bit sizes
  NoEpoch,       \* 0xFFFFFFFF, the time of an absent field
  FieldLen,      \* the length of every kind of other extra field, by its ID
  Archives,      \* archives of other programs
  Options,       \* command lines
  Files,         \* files on disk
  NewName,       \* what rn changes a name to
  MaxUpdates     \* bound: updates of the archive

VARIABLES
  arc,          \* entries in the order of the central directory
  opt,          \* the command
  updateItems,  \* of the update in progress
  itemIndex,
  curPos,       \* m_CurPos
  items,        \* written so far
  result, updates

vars == <<arc, opt, updateItems, itemIndex, curPos, items, result, updates>>

ASSUME LimitsAssumption ==
  /\ {Big16, Soon32, Big32, NoEpoch} \subseteq Nat
  /\ 63 < Big16  \* all the fields of a new file fit
  /\ 0 < Soon32 /\ Soon32 < Big32

-----------------------------------------------------------------------------
(* Fields and lengths.                                                     *)

NoCommand == [cmd |-> "none"]

M == 1  \* TS_MODTIME
A == 2  \* TS_ACTIME
C == 3  \* TS_CRTIME

NoUnix == [flags |-> {}, slots |-> <<>>]
NoExtra == [ntfs |-> <<>>, unix |-> NoUnix, owner |-> FALSE,
            aes |-> FALSE, strong |-> FALSE, others |-> {}]

UnixLen(numTimes) == 4 + 1 + 4 * numTimes
OwnerLen == 4 + 11
AesLen == 4 + 7
LengthOf(ids) == MapThenSumSet(LAMBDA id : FieldLen[id], ids)

ExtraLen(x) == (IF x.ntfs = <<>> THEN 0 ELSE 4 + 32)
               + (IF x.unix = NoUnix THEN 0 ELSE UnixLen(Len(x.unix.slots)))
               + (IF x.owner THEN OwnerLen ELSE 0) + (IF x.aes THEN AesLen ELSE 0)
               + (IF x.strong THEN 4 + 8 ELSE 0) + LengthOf(x.others)

Zip64Len(zip64) == IF zip64 THEN 4 + 8 + 8 ELSE 0
DescriptorLen(zip64) == IF zip64 THEN 24 ELSE 16
HeaderLen(e) == 30 + e.name + Zip64Len(e.zip64) + ExtraLen(e.local)

(* Variant for a mutant: the descriptor is not counted.                    *)
LocalFullSize_NoDescriptor(e) == HeaderLen(e) + e.packSize

(* What GetLocalFullSize says an entry takes: a descriptor counts as the   *)
(* 16 bytes of kDataDescriptorSize.                                        *)
LocalFullSize(e) == HeaderLen(e) + e.packSize + (IF e.desc THEN 16 ELSE 0)
RealSize(e) == HeaderLen(e) + e.packSize + e.descLen

(* WriteCentralHeader; the length goes into 16 bits.                       *)
CentralExtraLen(e) ==
  LET big == {f \in {"size", "packSize", "pos"} : e[f] >= Big32}
  IN ExtraLen(e.central) + (IF big = {} THEN 0 ELSE 4 + 8 * Cardinality(big))

-----------------------------------------------------------------------------
(* Times.                                                                  *)

DosOf(t) == IF t <= 4 THEN 1 ELSE (t + 3) \div 4  \* rounds up, and not below 1980
OfDos(d) == 4 * d
UnixOf(t) == t \div 2
OfUnix(u) == 2 * u

(* CUnixTimeExtra::ParseFromSubBlock: the k-th time that is flagged is the *)
(* k-th that is stored.  A central field has only the first.               *)
UnixTime(u, i) == LET k == Cardinality({j \in u.flags : j <= i})
                  IN IF i \in u.flags /\ k <= Len(u.slots) THEN u.slots[k] ELSE -1
HasUnixTime(u) == UnixTime(u, M) >= 0

(* SetSubBlock: the block is as long as the times that are present, but    *)
(* the three are stored from its start, the absent ones too.               *)
UnixField(times, present, toLocal) ==
  [flags |-> present,
   slots |-> LET n == IF toLocal THEN Cardinality(present) ELSE 1
             IN [i \in 1..n |-> IF i \in present THEN UnixOf(times[i]) ELSE NoEpoch]]

(* ReadLocalItemAfterCdItemFull: the descriptor lies behind the data, has  *)
(* a signature and the sizes the header announces.                         *)
IsReadable(e) == /\ e.data = HeaderLen(e)
                 /\ e.desc => e.descLen = DescriptorLen(e.zip64)

(* What CHandler::GetProperty reports.                                     *)
TimeType(e) == IF e.central.ntfs # <<>> THEN "ntfs"
               ELSE IF HasUnixTime(e.central.unix) THEN "unix" ELSE "dos"
UnixTimeOf(e, i) ==
  LET central == UnixTime(e.central.unix, i)
      local == IF IsReadable(e) THEN UnixTime(e.local.unix, i) ELSE -1
      found == IF central >= 0 THEN central ELSE local
  IN IF i \in e.central.unix.flags /\ found >= 0 THEN OfUnix(found) ELSE 0
TimeOf(e, i) == CASE TimeType(e) = "ntfs" -> e.central.ntfs[i]
                  [] TimeType(e) = "unix" -> UnixTimeOf(e, i)
                  [] TimeType(e) = "dos" -> IF i = M /\ e.dos # 0 THEN OfDos(e.dos) ELSE 0
TimesOf(e) == [i \in 1..3 |-> TimeOf(e, i)]

-----------------------------------------------------------------------------
(* Encryption.  The data say what the reader has to compare: a byte of the *)
(* CRC, or of the time in the central header if there is a descriptor.     *)

ByCrc == [by |-> "crc", byte |-> 0]
ByTime(dos) == [by |-> "time", byte |-> dos \div 4]

(* CZipDecoder::Decode accepts the right password.                         *)
Opens(e) == CASE e.enc = "none" -> TRUE
              [] e.enc = "aes" -> e.central.aes
              [] e.enc = "strong" -> e.central.strong
              [] e.enc = "zip" -> e.check = IF e.desc THEN ByTime(e.dos) ELSE ByCrc

-----------------------------------------------------------------------------
(* What archives, commands and files are.                                  *)

ExtraType ==
  [ntfs : {<<>>} \cup [1..3 -> Nat], unix : [flags : SUBSET {M, A, C}, slots : Seq(Nat)],
   owner : BOOLEAN, aes : BOOLEAN, strong : BOOLEAN, others : SUBSET DOMAIN FieldLen]
EntryType ==
  [name : Nat, dir : BOOLEAN, unixHost : BOOLEAN, pos : Nat, data : Nat, zip64 : BOOLEAN,
   size : Nat, packSize : Nat, desc : BOOLEAN, descLen : {0, 12, 16, 24},
   enc : {"none", "zip", "aes", "strong"}, check : [by : {"crc", "time"}, byte : Nat],
   dos : Nat, local : ExtraType, central : ExtraType]
OptionType ==
  [cmd : {"u", "rn", "uh"}, password : {"none", "zip", "aes"},
   time : {"default", "ntfs", "unix", "dos", "zero"}, set : [1..3 -> Nat], tfm : BOOLEAN,
   own : {"none", "copy", "store"}, ex : BOOLEAN, ids : SUBSET DOMAIN FieldLen, dd : BOOLEAN]
FileType ==
  [name : Nat, dir : BOOLEAN, size : Nat, readSize : Nat, times : [1..3 -> Nat]]

(* WinZip AES has its field in both headers.                               *)
ASSUME InputsAssumption ==
  /\ FieldLen \in [DOMAIN FieldLen -> Nat] /\ IsFiniteSet(DOMAIN FieldLen)
  /\ \A a \in Archives : a \in Seq(EntryType) /\ \A i \in DOMAIN a :
       a[i].enc = "aes" => a[i].local.aes
  /\ Options \subseteq OptionType /\ Files \subseteq FileType
  /\ NewName \in Nat /\ MaxUpdates \in Nat

-----------------------------------------------------------------------------
(* From the old header to the new one.                                     *)

(* What UpdateItems learns about an entry, or about a file on disk.        *)
PropsOfEntry(e) ==
  [times |-> TimesOf(e), ntfs |-> TimeType(e) = "ntfs",
   unix |-> IF TimeType(e) = "unix" THEN {M} \cup {i \in {A, C} : TimeOf(e, i) # 0} ELSE {}]
PropsOfFile(f) == [times |-> f.times, ntfs |-> TRUE, unix |-> {}]

(* CHeaderRebel::ChangeLocalHeader.                                        *)
StoresNtfs(p) == opt.time = "ntfs" \/ (opt.time = "default" /\ p.ntfs)
StoredUnix(p) == CASE opt.time = "unix" -> {M, A}
                   [] opt.time = "default" -> p.unix
                   [] OTHER -> {}
(* Variant for a mutant: two times are always that of M.                   *)
AdjustedTimes_AlwaysFromM(p) ==
  LET t == [i \in 1..3 |-> IF opt.set[i] # 0 THEN opt.set[i] ELSE p.times[i]]
  IN IF StoresNtfs(p) \/ StoredUnix(p) # {} THEN [t EXCEPT ![A] = t[M], ![C] = t[M]] ELSE t
AdjustedTimes(p) ==
  LET t == [i \in 1..3 |-> IF opt.set[i] # 0 THEN opt.set[i] ELSE p.times[i]]
      fromM == IF opt.tfm THEN {A, C}
               ELSE IF p.ntfs THEN {}
               ELSE IF StoresNtfs(p) THEN {A, C} \ p.unix
               ELSE {A} \ p.unix
  IN IF StoresNtfs(p) \/ StoredUnix(p) # {}
     THEN [i \in 1..3 |-> IF i \in fromM THEN t[M] ELSE t[i]] ELSE t

(* CopyExtraSubBlocks: with -hex all but the IDs named by exd, otherwise   *)
(* those named by exa; both copies come from the local header.             *)
IsKept(id) == (id \in opt.ids) # opt.ex
KeptOthers(x) == {id \in x.others : IsKept(id)}
KeepsOwner(x) == x.owner /\ opt.own = "copy" /\ IsKept("owner")
StoresOwner(unixHost) == opt.own = "store" /\ unixHost

(* Variant for a mutant: no room for the creation time.                    *)
ReservedExtra_NoCrTime(p, old, unixHost) ==
  (IF StoredUnix(p) = {} THEN 0 ELSE UnixLen(Cardinality(StoredUnix(p) \ {C})))
  + (IF StoresOwner(unixHost) THEN OwnerLen ELSE 0)
  + (IF KeepsOwner(old) THEN OwnerLen ELSE 0) + LengthOf(KeptOthers(old))

(* GetLocalExtraSize, before the fields are restored.                      *)
ReservedExtra(p, old, unixHost) ==
  (IF StoredUnix(p) = {} THEN 0 ELSE UnixLen(Cardinality(StoredUnix(p))))
  + (IF StoresOwner(unixHost) THEN OwnerLen ELSE 0)
  + (IF KeepsOwner(old) THEN OwnerLen ELSE 0) + LengthOf(KeptOthers(old))

(* Variant for a mutant: the AES field is local only.                      *)
NewExtra_AesLocalOnly(p, old, unixHost, aes, toLocal) ==
  [ntfs |-> IF StoresNtfs(p) /\ ~toLocal THEN AdjustedTimes(p) ELSE <<>>,
   unix |-> IF StoredUnix(p) = {} THEN NoUnix
            ELSE UnixField(AdjustedTimes(p), StoredUnix(p), toLocal),
   owner |-> StoresOwner(unixHost) \/ KeepsOwner(old),
   aes |-> aes /\ toLocal, strong |-> FALSE, others |-> KeptOthers(old)]

(* RestoreExtraSubBlocks; the NTFS times are only in the central header.   *)
NewExtra(p, old, unixHost, aes, toLocal) ==
  [ntfs |-> IF StoresNtfs(p) /\ ~toLocal THEN AdjustedTimes(p) ELSE <<>>,
   unix |-> IF StoredUnix(p) = {} THEN NoUnix
            ELSE UnixField(AdjustedTimes(p), StoredUnix(p), toLocal),
   owner |-> StoresOwner(unixHost) \/ KeepsOwner(old),
   aes |-> aes, strong |-> FALSE, others |-> KeptOthers(old)]

-----------------------------------------------------------------------------
(* Writing.                                                                *)

AddItem(e) == /\ items' = Append(items, e)
              /\ itemIndex' = itemIndex + 1
              /\ UNCHANGED <<arc, opt, updateItems, result, updates>>

(* The update is over, with the old archive or a new one.                  *)
Return(res, newArc) == /\ result' = res /\ arc' = newArc
                       /\ opt' = NoCommand /\ updateItems' = <<>> /\ itemIndex' = 1
                       /\ curPos' = 0 /\ items' = <<>>
                       /\ UNCHANGED updates

(* WriteLocalHeader and WriteDataDescriptor around data that start behind  *)
(* the space reserved for the header.  A header that does not fit there    *)
(* raises E_FAIL.                                                          *)
WriteLocalHeader(e, reserved64, reserved) ==
  LET zip64 == reserved64 \/ e.packSize >= Big32 \/ e.size >= Big32
      room == Zip64Len(reserved64) + reserved
      new == [e EXCEPT !.pos = curPos, !.zip64 = zip64, !.data = 30 + e.name + room,
                       !.descLen = IF e.desc THEN DescriptorLen(zip64) ELSE 0]
  IN IF (Zip64Len(zip64) + ExtraLen(e.local)) % Big16 = room
     THEN AddItem(new) /\ curPos' = curPos + RealSize(new)
     ELSE Return("E_FAIL", arc)

ui == updateItems[itemIndex]
Source == arc[ui.indexInArc]
Busy == result = "busy" /\ itemIndex <= Len(updateItems)
SourceFound == ui.indexInArc # 0 => IsReadable(Source)

(* The entry of the old archive cannot be read: E_NOTIMPL.                 *)
Refuse == Busy /\ ~SourceFound /\ Return("E_NOTIMPL", arc)

(* UpdateItemOldData, an entry that is kept as it is.                      *)
CopyEntry ==
  /\ Busy /\ SourceFound /\ ~ui.newData /\ ~ui.newProps
  /\ AddItem([Source EXCEPT !.pos = curPos, !.descLen = IF Source.desc THEN 16 ELSE 0])
  /\ curPos' = curPos + LocalFullSize(Source)

(* UpdateItemOldData, data that are kept behind a new header.              *)
RewriteHeader ==
  /\ Busy /\ SourceFound /\ ~ui.newData /\ ui.newProps
  /\ LET p == PropsOfEntry(Source)
         Extra(toLocal) == NewExtra(p, Source.local, Source.unixHost, Source.local.aes, toLocal)
         new == [Source EXCEPT
                   !.name = ui.name, !.desc = opt.dd /\ ~Source.dir,
                   !.dos = IF opt.time = "zero" THEN 0 ELSE DosOf(AdjustedTimes(p)[M]),
                   !.local = Extra(TRUE), !.central = Extra(FALSE)]
     IN WriteLocalHeader(new, Source.size >= Big32 \/ Source.packSize >= Big32,
          ReservedExtra(p, Source.local, Source.unixHost)
          + (IF Source.local.aes THEN AesLen ELSE 0))

(* The mode of the password: AES if asked for, or if such an entry is      *)
(* replaced.                                                               *)
AesUpdates == \E i \in 1..Len(updateItems) :
                LET u == updateItems[i]
                IN u.newData /\ u.indexInArc # 0 /\ arc[u.indexInArc].enc \in {"aes", "strong"}
Encryption(f) == IF f.dir \/ opt.password = "none" THEN "none"
                 ELSE IF opt.password = "aes" \/ AesUpdates THEN "aes" ELSE "zip"
AddedByCrypto(enc) == CASE enc = "none" -> 0 [] enc = "zip" -> 12 [] enc = "aes" -> 28

(* WriteDirHeader, or a file that is coded; it may have grown since its    *)
(* size was asked, and be stored if it cannot be compressed.               *)
AddFile ==
  /\ Busy /\ SourceFound /\ ui.newData
  /\ LET f == ui.file
         p == PropsOfFile(f)
         enc == Encryption(f)
         old == IF ui.indexInArc = 0 THEN NoExtra ELSE Source.local
         reserved64 == f.size >= Soon32
         Extra(toLocal) == NewExtra(p, old, TRUE, enc = "aes", toLocal)
     IN \E coded \in {f.readSize, f.readSize \div 2} :
          WriteLocalHeader(
            [name |-> ui.name, dir |-> f.dir, unixHost |-> TRUE, pos |-> 0, data |-> 0,
             zip64 |-> FALSE, size |-> f.readSize, packSize |-> coded + AddedByCrypto(enc),
             desc |-> opt.dd /\ ~f.dir, descLen |-> 0, enc |-> enc, check |-> ByCrc,
             dos |-> IF opt.time = "zero" THEN 0 ELSE DosOf(AdjustedTimes(p)[M]),
             local |-> Extra(TRUE), central |-> Extra(FALSE)],
            reserved64, ReservedExtra(p, old, TRUE) + (IF enc = "aes" THEN AesLen ELSE 0))

(* GetStream answers S_FALSE.                                              *)
SkipFile == /\ Busy /\ SourceFound /\ ui.newData /\ ~ui.file.dir
            /\ itemIndex' = itemIndex + 1
            /\ UNCHANGED <<arc, opt, updateItems, curPos, items, result, updates>>

(* WriteCentralDir, and the new archive takes the place of the old one.    *)
WriteCentralDir == /\ result = "busy" /\ itemIndex > Len(updateItems)
                   /\ Return("S_OK", items)

-----------------------------------------------------------------------------
(* The command: what CHandler::UpdateItems is told about each entry.       *)

NoFile == [size |-> 0]
Item(i, name, newData, newProps, f) ==
  [indexInArc |-> i, name |-> name, newData |-> newData, newProps |-> newProps, file |-> f]

(* rn and uh choose entries; uh asks about each that is encrypted.         *)
ChangeHeaders(o) ==
  \E chosen \in SUBSET (1..Len(arc)) :
    \E agreed \in SUBSET {i \in chosen : arc[i].enc # "none"} :
      LET changed == IF o.cmd = "rn" THEN chosen
                     ELSE agreed \cup {i \in chosen : arc[i].enc = "none"}
      IN updateItems' = [i \in 1..Len(arc) |->
           Item(i, IF o.cmd = "rn" /\ i \in changed THEN NewName ELSE arc[i].name,
                FALSE, i \in changed, NoFile)]

(* u keeps, replaces or deletes each entry and may add a file.             *)
UpdateFiles ==
  LET Kept(i) == Item(i, arc[i].name, FALSE, FALSE, NoFile)
      Others(i) == [j \in 1..(Len(arc) - 1) |-> Kept(IF j < i THEN j ELSE j + 1)]
      all == [i \in 1..Len(arc) |-> Kept(i)]
  IN \E f \in Files :
       \/ updateItems' = Append(all, Item(0, f.name, TRUE, TRUE, f))
       \/ \E i \in 1..Len(arc) :
            updateItems' \in {[all EXCEPT ![i] = Item(i, f.name, TRUE, TRUE, f)], Others(i)}

(* An archive is opened by its central directory.                          *)
IsOpened == \A i \in 1..Len(arc) : CentralExtraLen(arc[i]) < Big16

Begin == /\ result # "busy" /\ updates < MaxUpdates /\ IsOpened
         /\ \E o \in Options :
              /\ opt' = o
              /\ IF o.cmd = "u" THEN UpdateFiles ELSE ChangeHeaders(o)
         /\ result' = "busy" /\ updates' = updates + 1
         /\ UNCHANGED <<arc, itemIndex, curPos, items>>

Done == result # "busy" /\ (updates = MaxUpdates \/ ~IsOpened) /\ UNCHANGED vars

Init == /\ arc \in Archives /\ opt = NoCommand
        /\ updateItems = <<>> /\ itemIndex = 1 /\ curPos = 0 /\ items = <<>>
        /\ result = "none" /\ updates = 0

Next == \/ Begin \/ Refuse \/ CopyEntry \/ RewriteHeader \/ AddFile \/ SkipFile
        \/ WriteCentralDir \/ Done

Spec == Init /\ [][Next]_vars
-----------------------------------------------------------------------------
(* Properties.                                                             *)

TypeOK ==
  /\ arc \in Seq(EntryType) /\ items \in Seq(EntryType)
  /\ itemIndex \in 1..(Len(updateItems) + 1) /\ curPos \in Nat /\ updates \in 0..MaxUpdates
  /\ result \in {"none", "busy", "S_OK", "E_NOTIMPL", "E_FAIL"}

(* A 64-bit entry with a descriptor that was once copied as it is: the     *)
(* copy took 16 of its 24 bytes.                                           *)
IsCut(e) == e.desc /\ e.zip64 /\ e.descLen = 16

(* Central headers of other programs.                                      *)
Foreign == UNION {{a[i].central : i \in DOMAIN a} : a \in Archives}

(* Any sequence of commands leaves an archive whose entries are found      *)
(* again: none reaches into the next, data begin where the header ends,    *)
(* descriptors are the ones their headers call for, and the lengths in the *)
(* central directory are the real ones.  Exceptions: entries that were     *)
(* cut, fields that leave no room for the 64 bytes of NTFS times and       *)
(* 64-bit sizes that only the central header has, and entries of another   *)
(* program, copied with a central header that has no room for a 64-bit     *)
(* position.  The types of all fields are part of it.                      *)
ReadsBack ==
  /\ TypeOK
  /\ result = "S_OK" => \A i \in 1..Len(arc) :
       LET e == arc[i] IN
       /\ IsReadable(e) \/ IsCut(e)
       /\ i < Len(arc) => e.pos + RealSize(e) <= arc[i + 1].pos
       /\ \/ CentralExtraLen(e) < Big16 \/ ExtraLen(e.local) + 64 >= Big16
          \/ e.central \in Foreign

(* The space is reserved before the sizes are known and before the fields  *)
(* are put together; it is right unless a file grew over the limit of 32   *)
(* bits while it was read, or the fields cannot fit 16 bits at all.        *)
FailsOnlyIfTooLarge == [][
  result # "E_FAIL" /\ result' = "E_FAIL" =>
    \/ /\ ui.newData /\ ui.file.size < Soon32
       /\ ui.file.readSize + AddedByCrypto("aes") >= Big32
    \/ ui.indexInArc # 0
       /\ LengthOf(Source.local.others) + 20 + UnixLen(3) + OwnerLen + AesLen >= Big16]_vars

(* The entry a step has written, if it has.                                *)
Writes == Len(items') > Len(items)
Written == items'[Len(items')]

(* Who has the password can read every file that is encrypted, and can     *)
(* read it as long as it was not encrypted anew.  Exceptions: ZipCrypto    *)
(* with -hdd, whose check byte is always taken from the CRC, and headers   *)
(* that are written anew, by uh after a question and by rn without one, of *)
(* ZipCrypto entries that have or get a descriptor and of strongly         *)
(* encrypted entries.                                                      *)
StaysOpen == [][Writes =>
  \/ Opens(Written)
  \/ ui.newData /\ Written.enc = "zip" /\ opt.dd
  \/ ~ui.newData /\ \/ ~Opens(Source)
                    \/ ui.newProps /\ Written.enc = "zip" /\ (Source.desc \/ opt.dd)
                    \/ ui.newProps /\ Written.enc = "strong"]_vars

Rounded(type, t) == CASE type = "ntfs" -> t [] type = "unix" -> OfUnix(UnixOf(t))
                      [] type = "dos" -> OfDos(DosOf(t))
Stored(type) == CASE type = "ntfs" -> {M, A, C} [] type = "unix" -> {M, A} [] type = "dos" -> {M}

(* A header that is written anew reports the times it had, or the times of *)
(* the command line, as exactly as its format can; with -hex it has the    *)
(* other fields of the local header in both places.  Exceptions: times     *)
(* that were not defined before, for which that of the modification is     *)
(* taken whatever the command line says, and a creation time that stands   *)
(* in a Unix field without an access time.                                 *)
FieldsStay == [][Writes /\ ~ui.newData /\ ui.newProps =>
  /\ ~opt.tfm /\ opt.time # "zero" =>
       LET type == IF opt.time = "default" THEN TimeType(Source) ELSE opt.time
           kept == IF opt.time = "default" THEN {M, A, C} ELSE Stored(type)
           Wanted(i) == IF opt.set[i] # 0 THEN opt.set[i] ELSE TimeOf(Source, i)
           gap == TimeType(Source) = "unix" /\ TimeOf(Source, A) = 0
       IN \A i \in kept : TimeOf(Source, i) # 0 /\ ~(gap /\ i = C /\ type = "unix") =>
            TimeOf(Written, i) = Rounded(type, Wanted(i))
  /\ opt.ex /\ opt.ids = {} =>
       Source.local.others = Written.local.others /\ Source.local.others = Written.central.others]_vars

=============================================================================
