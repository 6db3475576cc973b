----------------------------- MODULE MCZipHeaders -----------------------------
(* Archives with one or two of the entries other programs write, and       *)
(* commands that between them use every option.  Big32 is far above the    *)
(* length of a header, and two small entries together stay below it.       *)
EXTENDS ZipHeaders

Field(flags, slots) == [flags |-> flags, slots |-> slots]
NoFields == [NoExtra EXCEPT !.others = {}]

Plain(size, packSize) ==
  [name |-> 4, dir |-> FALSE, unixHost |-> TRUE, pos |-> 0, data |-> 0, zip64 |-> FALSE,
   size |-> size, packSize |-> packSize, desc |-> FALSE, descLen |-> 0,
   enc |-> "none", check |-> ByCrc, dos |-> 6, local |-> NoFields, central |-> NoFields]

(* What a writer fills in: data behind the header, the descriptor.         *)
Whole(e, descLen) == [e EXCEPT !.data = HeaderLen(e), !.descLen = descLen]

Small == Plain(10, 10)
Small64 == [Plain(10, 10) EXCEPT !.zip64 = TRUE, !.desc = TRUE]
Entries ==
  {(* Info-ZIP: a Unix time in both headers, the access time only in the local one. *)
   Whole([Small EXCEPT !.local = [NoFields EXCEPT !.unix = Field({M, A}, <<13, 15>>), !.owner = TRUE],
                       !.central = [NoFields EXCEPT !.unix = Field({M, A}, <<13>>), !.owner = TRUE]], 0),
   (* A creation time without an access time. *)
   Whole([Small EXCEPT !.local = [NoFields EXCEPT !.unix = Field({M, C}, <<13, 9>>)],
                       !.central = [NoFields EXCEPT !.unix = Field({M, C}, <<13>>)]], 0),
   (* NTFS times, and a field that is only in the central header. *)
   Whole([Small EXCEPT !.unixHost = FALSE, !.central = [NoFields EXCEPT !.ntfs = <<23, 27, 17>>, !.others = {"a"}]], 0),
   (* ZipCrypto as Info-ZIP writes it, from another time zone. *)
   Whole([Small EXCEPT !.enc = "zip", !.check = ByTime(6), !.desc = TRUE,
                       !.local = [NoFields EXCEPT !.unix = Field({M}, <<33>>)],
                       !.central = [NoFields EXCEPT !.unix = Field({M}, <<33>>)]], 16),
   Whole([Small EXCEPT !.enc = "zip"], 0),
   Whole([Small EXCEPT !.enc = "aes", !.local = [NoFields EXCEPT !.aes = TRUE],
                       !.central = [NoFields EXCEPT !.aes = TRUE]], 0),
   Whole([Small EXCEPT !.enc = "strong", !.central = [NoFields EXCEPT !.strong = TRUE]], 0),
   (* A descriptor without signature, and one of 24 bytes. *)
   Whole([Small EXCEPT !.desc = TRUE], 12),
   Whole(Small64, 24),
   Whole([Plain(1200, 1100) EXCEPT !.zip64 = TRUE], 0),
   (* Fields that nearly fill what 16 bits can count. *)
   Whole([Small EXCEPT !.local = [NoFields EXCEPT !.others = {"a", "b"}]], 0),
   Whole([Plain(0, 0) EXCEPT !.dir = TRUE, !.local = [NoFields EXCEPT !.others = {"a"}]], 0)}

At(e, pos) == [e EXCEPT !.pos = pos]
(* A central header with no room for a 64-bit position.                    *)
FullCentral == Whole([Small EXCEPT !.central = [NoFields EXCEPT !.others = {"c"}]], 0)

MCArchives ==
  {<<>>} \cup {<<e>> : e \in Entries}
  \cup {<<e, At(Whole(Small, 0), RealSize(e))>> : e \in Entries}
  \cup {<<Whole(Plain(950, 950), 0), At(FullCentral, 984)>>}

MCFieldLen == [id \in {"a", "b", "c", "owner"} |->
  CASE id = "a" -> 8 [] id = "b" -> 215 [] id = "c" -> 230 [] id = "owner" -> 0]

Option(cmd) == [cmd |-> cmd, password |-> "none", time |-> "default", set |-> <<0, 0, 0>>,
                tfm |-> FALSE, own |-> "copy", ex |-> FALSE, ids |-> {}, dd |-> FALSE]
HeaderOptions(cmd) ==
  LET o == Option(cmd)
  IN {o, [o EXCEPT !.time = "ntfs", !.ex = TRUE], [o EXCEPT !.time = "unix", !.own = "store"],
      [o EXCEPT !.time = "dos", !.ids = {"a", "owner"}], [o EXCEPT !.time = "zero"],
      [o EXCEPT !.set = <<61, 71, 81>>], [o EXCEPT !.tfm = TRUE, !.dd = TRUE],
      [o EXCEPT !.time = "ntfs", !.own = "store", !.ex = TRUE, !.ids = {"a"}],
      [o EXCEPT !.dd = TRUE, !.ex = TRUE]}
AddOptions ==
  LET o == Option("u")
  IN {o, [o EXCEPT !.password = "zip"], [o EXCEPT !.password = "aes", !.dd = TRUE],
      [o EXCEPT !.password = "zip", !.dd = TRUE, !.time = "unix"],
      [o EXCEPT !.ex = TRUE, !.time = "unix", !.own = "store", !.password = "zip"]}
MCOptions == HeaderOptions("rn") \cup HeaderOptions("uh") \cup AddOptions

File(name, size, readSize) ==
  [name |-> name, dir |-> FALSE, size |-> size, readSize |-> readSize, times |-> <<43, 47, 41>>]
MCFiles == {File(3, 10, 10), File(3, 959, 959), File(3, 960, 960), File(3, 1200, 1200),
            File(3, 10, 980), File(3, 10, 1200), [File(3, 0, 0) EXCEPT !.dir = TRUE]}
=============================================================================
