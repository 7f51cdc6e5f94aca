--------------------------------- MODULE Boot ---------------------------------
(***************************************************************************)
(* What a machine is led through from its firmware to its installer: the   *)
(* DHCP snippet that names a loader (loaders.rs, dhcp.rs, `boot check`),   *)
(* what of a request TFTP agrees to (tftp.rs), the bootstrap and the menu  *)
(* (menu.rs), and the stanza that boots an image (stanza.rs) as far as the *)
(* probe could place it (probe.rs, catalog.rs). Who is let in is by CIDR.  *)
(***************************************************************************)
EXTENDS Formats

CONSTANTS DefaultBlock, MaxBlock,   \* of TFTP
          OctetBits                 \* of an address

----------------------------------------------------------------------------
(* The probe: an image is its files, the vendor's own word for what it is, *)
(* what its kernel says of its architecture, and whether a split kernel    *)
(* and initrd lie beside it                                                *)

Row(marker, family, kernel, initrd, arch) ==
    [marker |-> marker, family |-> family, kernel |-> kernel, initrd |-> initrd, arch |-> arch]

RhelRow == Row("pxeboot/vmlinuz", "rhel", "pxeboot/vmlinuz", "pxeboot/initrd.img", "")
CoreOsRow == Row("pxeboot/rootfs.img", "coreos", "pxeboot/vmlinuz", "pxeboot/initrd.img", "")
DebianRows ==
    << Row("boot/linux26", "proxmox", "boot/linux26", "boot/initrd.img", ""),
       Row("casper/vmlinuz", "ubuntu", "casper/vmlinuz", "casper/initrd", ""),
       Row("install.amd/vmlinuz", "debian", "install.amd/vmlinuz", "install.amd/initrd.gz", "x86_64"),
       Row("install.a64/vmlinuz", "debian", "install.a64/vmlinuz", "install.a64/initrd.gz", "arm64") >>
SuseRows ==
    << Row("loader/linux", "suse", "loader/linux", "loader/initrd", "x86_64"),
       Row("aarch64/loader/linux", "suse", "aarch64/loader/linux", "aarch64/loader/initrd", "arm64") >>

(* A change of TABLE: the row that claims more comes first.                *)
TableRhelFirst == DebianRows \o <<RhelRow, CoreOsRow>> \o SuseRows

(* "Ordered, and the order carries meaning."                               *)
TABLE == DebianRows \o <<CoreOsRow, RhelRow>> \o SuseRows

Probe(img) ==
    LET said == IF img.info = "proxmox" THEN "proxmox" ELSE ""
        hits == {i \in DOMAIN TABLE : TABLE[i].marker \in img.files}
        row == TABLE[Min(hits)]
        family == IF said # "" THEN said ELSE IF hits = {} THEN "unknown" ELSE row.family
        placed == hits # {} /\ row.family = family
        external == family = "proxmox" /\ ~ placed /\ img.beside
        kernel == IF placed THEN row.kernel ELSE IF external THEN "vmlinuz" ELSE ""
        arch == IF said # "" THEN (IF img.infoArch = "" THEN "x86_64" ELSE img.infoArch)
                ELSE IF placed THEN row.arch ELSE ""
    IN  [family |-> family, kernel |-> kernel, external |-> external,
         initrd |-> IF placed THEN row.initrd ELSE IF external THEN "initrd.img" ELSE "",
         arch |-> IF arch # "" THEN arch ELSE IF kernel \in img.files THEN img.kernelArch ELSE ""]

EntryOf(id, img) == [id |-> id, img |-> img, probed |-> Probe(img)]

Bootable(entry) == entry.probed.kernel # "" /\ entry.probed.initrd # ""

----------------------------------------------------------------------------
(* What a client can ask for: media of this server's, or an answer *)

Media(id, what) == [at |-> "media", id |-> id, what |-> what]
Answer(segment) == [at |-> "answer", segment |-> segment]

(* The media listener: the image, the two files it was booted with, or one *)
(* file of it.                                                             *)
ServedAt(entry, what) ==
    LET p == entry.probed
        inside == IF what = "kernel" THEN p.kernel ELSE IF what = "initrd" THEN p.initrd ELSE what
    IN  what = "iso" \/ (IF p.external /\ what \in {"kernel", "initrd"} THEN entry.img.beside
                         ELSE inside \in entry.img.files)

(* The answer document that boots an image, with what it wants filled in.  *)
Stanza(entry) ==
    LET f == entry.probed.family
        segment == CASE f = "proxmox" -> "" [] f = "debian" -> "debian" [] f = "ubuntu" -> "ubuntu"
                     [] f = "rhel" -> "rhel" [] f = "suse" -> "suse" [] f = "coreos" -> "coreos"
        also == CASE f \in {"proxmox", "ubuntu", "rhel", "suse"} -> {"iso"}
                  [] f = "coreos" -> {"pxeboot/rootfs.img"}
                  [] f = "debian" -> {}
    IN  [fetches |-> {Media(entry.id, w) : w \in {"kernel", "initrd"} \cup also},
         asks |-> IF segment = "" THEN {} ELSE {Answer(segment)},
         wants |-> IF segment = "" THEN {} ELSE {"mac"}]

(* The stanza as an answer document, filled in for a machine it is for.    *)
Filled(stanza, facts) == [stanza EXCEPT !.wants = @ \ facts]

----------------------------------------------------------------------------
(* The two scripts this server writes *)

Bootstrap(unclaimedBootsLocal) ==
    [asks |-> Answer("ipxe"), tells |-> {"mac", "uuid", "serial", "asset", "manufacturer",
                                         "product", "platform", "arch"},
     otherwise |-> IF unclaimedBootsLocal THEN "exit" ELSE "menu"]

Label(l, does) == [label |-> l, does |-> does]
Exit == [is |-> "exit"]

(* The labels of the menu, in the order of the script: the images', each   *)
(* with its stanza as it is or as a CD, and then its own.                  *)
Menu(entries) ==
    LET boots == SelectSeq(entries, Bootable)
        opaque == SelectSeq(entries, LAMBDA e : ~ Bootable(e))
    IN  [i \in DOMAIN boots |-> Label(boots[i].id, [is |-> "stanza", stanza |-> Stanza(boots[i])])]
            \o [i \in DOMAIN opaque |->
                   Label(opaque[i].id, [is |-> "sanboot", url |-> Media(opaque[i].id, "iso")])]
            \o << Label("local", Exit), Label("shell", [is |-> "shell"]),
                  Label("netinfo", [is |-> "netinfo"]), Label("retry", [is |-> "bootstrap"]),
                  Label("endpoints", [is |-> "chain"]), Label("reboot", [is |-> "reboot"]),
                  Label("start", [is |-> "menu"]) >>

(* The images the menu offers to a client.                                 *)
Offered(entries, arch) ==
    {i \in DOMAIN entries : Bootable(entries[i]) => entries[i].probed.arch \in {"", arch}}

(* External: iPXE goes to the first label of that name.                    *)
Goto(menu, label) == menu[Min({i \in DOMAIN menu : menu[i].label = label})].does

----------------------------------------------------------------------------
(* The loaders, by what firmware announces in option 93, and the snippets  *)

Client(arch, loader, transport) == [arch |-> arch, loader |-> loader, transport |-> transport]

Clients ==
    << Client(0, "undionly", "tftp"), Client(6, "", "tftp"), Client(7, "x86_64", "tftp"),
       Client(9, "x86_64", "tftp"), Client(10, "", "tftp"), Client(11, "arm64", "tftp"),
       Client(15, "", "http"), Client(16, "x86_64", "http"), Client(17, "", "http"),
       Client(18, "", "http"), Client(19, "arm64", "http"), Client(20, "", "http"),
       Client(21, "", "tftp"), Client(22, "", "tftp") >>

FALLBACK == "undionly"
Loaders == {Clients[i].loader : i \in DOMAIN Clients} \ {""}

Tag(c) ==
    << c.transport, CASE c.arch = 0 -> "bios" [] c.arch \in {7, 9, 16} -> "efi64"
                      [] c.arch \in {11, 19} -> "efiarm64" [] OTHER -> "other" >>

File(c) == IF c.transport = "http" THEN <<"boot", c.loader>> ELSE <<c.loader>>

(* What a client is given: a file, and HTTPClient echoed back at it.       *)
Given(file, echo) == [file |-> file, echo |-> echo]
Untagged == Given(<<FALLBACK>>, FALSE)

(* The rules of a snippet, the first that fits being taken: by tag, by     *)
(* architecture, or by the vendor class, which says both.                  *)
Snippet(format, oneLoader) ==
    LET served == SelectSeq(Clients, LAMBDA c : c.loader # "")
        fits(c, by) == CASE by = "tag"   -> LET those == {i \in DOMAIN served : Tag(served[i]) = Tag(c)}
                                            IN  {<<served[i].arch, served[i].transport>> : i \in those}
                         [] by = "arch"  -> {<<c.arch, "tftp">>, <<c.arch, "http">>}
                         [] by = "class" -> {<<c.arch, c.transport>>}
        rules(by) == [i \in DOMAIN served |->
                        [fits |-> fits(served[i], by),
                         gives |-> Given(File(served[i]), served[i].transport = "http")]]
    IN  IF oneLoader THEN <<>>
        ELSE CASE format = "dnsmasq" -> rules("tag")
               [] format \in {"isc", "kea"} -> rules("arch")
               [] format = "powershell" -> rules("class")
               [] format = "pfsense" -> SelectSeq(rules("class"), LAMBDA r : r.fits = {<<7, "tftp">>})
               [] format = "mikrotik" -> <<>>

(* External: what a DHCP server so configured gives a client.              *)
Handed(snippet, c) ==
    LET hits == {i \in DOMAIN snippet : <<c.arch, c.transport>> \in snippet[i].fits}
    IN  IF hits = {} THEN Untagged ELSE snippet[Min(hits)].gives

(* boot check: [dir, files, tftp, port], tftp what a probe of it says.     *)
BootCheck(b) ==
    b.dir => /\ Loaders \subseteq b.files
             /\ b.tftp \notin {"refused", "silent, taken"}
             /\ b.port = "8001"

----------------------------------------------------------------------------
(* TFTP: a request that is understood, and what is agreed to *)

ParseRequest(r) ==
    IF r.opcode = "short" THEN <<"illegal">>
    ELSE IF r.opcode = "write" THEN <<"access">>
    ELSE IF r.opcode # "read" THEN <<"illegal">>
    ELSE IF r.filename = "" THEN <<"illegal">>
    ELSE IF r.mode # "octet" THEN <<"no user">>
    ELSE <<>>

Clamp(n, low, high) == IF n < low THEN low ELSE IF n > high THEN high ELSE n

(* The largest block that is agreed to: the setting, where there is one.   *)
Cap(blksize) == IF blksize \in {<<>>, <<0>>} THEN MaxBlock ELSE Clamp(blksize[1], DefaultBlock, MaxBlock)

(* An option that is not understood, or not agreed to, is left out.        *)
Negotiate(options, blksize, size) ==
    LET clamp(n) == Clamp(n, DefaultBlock, Cap(blksize))
        one(s, o) ==
            CASE o.name = "blksize" /\ o.value >= 0 ->
                    [block |-> clamp(o.value), accepted |-> Append(s.accepted, <<"blksize", clamp(o.value)>>)]
              [] o.name = "tsize" -> [s EXCEPT !.accepted = Append(@, <<"tsize", size>>)]
              [] o.name = "timeout" /\ o.value \in 1 .. 255 ->
                    [s EXCEPT !.accepted = Append(@, <<"timeout", o.value>>)]
              [] OTHER -> s
    IN  FoldLeft(one, [block |-> DefaultBlock, accepted |-> <<>>], options)

(* in_cidr, octet by octet: an address is a sequence of them.              *)
InCidr(address, network, bits) ==
    LET whole == bits \div OctetBits
        leftover == bits % OctetBits
        top(octet) == octet \div 2^(OctetBits - leftover)
    IN  /\ Len(address) = Len(network)
        /\ bits <= Len(address) * OctetBits
        /\ \A i \in 1 .. whole : address[i] = network[i]
        /\ leftover # 0 => top(address[whole + 1]) = top(network[whole + 1])
=============================================================================
