------------------------------ MODULE Programs ------------------------------
(***************************************************************************)
(* Loading programs: cndyn_loader.c, cnab_load.c, cnaf_image.c and the     *)
(* spawn and exec of user_exec.c.  There is one window of user memory, and *)
(* whoever loads, loads into it.  A package is described by the fields the *)
(* loader looks at.  Lengths and offsets are counted in units, of which a  *)
(* header and an entry of its section table have one each, and their sums  *)
(* do not overflow; segments lie in the window.  A read may always fail.   *)
(***************************************************************************)
EXTENDS Paths, Vmm

CONSTANTS
    Packages,
    PrefixLen,      \* the first read: 4096 bytes
    MaxFile,        \* CNDYN_MAX_FILE_BYTES
    MaxHeader,      \* CNDYN_MAX_HEADER_BYTES
    MaxManifest,    \* 4096 bytes
    MaxSegs,        \* 16
    UnitsPerPage,
    Window,         \* units of user memory that images use
    TextBase,       \* 0x400000
    StackBase,      \* 0x800008
    NLibs,          \* CNDYN_MAX_LOADED_LIBS
    SonameOf,       \* what of a library's path fits into soname
    PathArgs, Cwds  \* paths given to the shell, and current directories

Section == [type : {"manifest", "image"}, off : Nat, size : Nat]
SegmentEntry == [off : Nat, len : Nat, dst : Nat, mem : Nat]
Package ==
    [name : STRING, valid : BOOLEAN, kind : {"program", "library"}, size : Nat, hdr : Nat,
     aligned : BOOLEAN, secs : Seq(Section), needs : BOOLEAN, table : Nat,
     segs : Seq(SegmentEntry), rela : BOOLEAN, embedded : BOOLEAN]

ASSUME ProgramsAssumption ==
    /\ Packages \subseteq Package /\ Window \subseteq Nat /\ "free" \notin DOMAIN SonameOf
    /\ {PrefixLen, MaxFile, MaxHeader, MaxManifest, MaxSegs, NLibs, UnitsPerPage} \subseteq Nat \ {0}
    /\ {Entry(Page(TextBase)), Entry(Page(StackBase))} \subseteq Entries
    /\ \A p, q \in Packages : p.name = q.name => p = q

VARIABLES
    tab,      \* the page tables
    prog,     \* the program that runs, or "none"
    text,     \* whose bytes the units of the window hold
    load,     \* [by, pkg, step, seg, at]: the load under way, or NoLoad
    pages,    \* pages that hold the header of the package
    libs,     \* g_libs: the soname of each slot, or "free"
    mixed,    \* a load on behalf of prog has written into its window
    query     \* a path that is resolved: [cwd, rel]

progVars == <<tab, prog, text, load, pages, libs, mixed, query>>

NoLoad == [by |-> "none", pkg |-> "none", step |-> "none", seg |-> 0, at |-> 0]
NoQuery == [cwd |-> <<>>, rel |-> <<>>]
Names == {p.name : p \in Packages}
Pkg == [n \in Names |-> CHOOSE p \in Packages : p.name = n]
The == Pkg[load.pkg]

ProgramsInit ==
    /\ tab = BootTables
    /\ prog = "none" /\ mixed = FALSE
    /\ text = [u \in Window |-> "none"]
    /\ load = NoLoad /\ pages = 0
    /\ libs = [i \in 1 .. NLibs |-> "free"]
    /\ query = NoQuery

(***************************************************************************)
(* How a load begins and ends                                              *)
(***************************************************************************)
Begin(by) ==
    /\ load = NoLoad
    /\ \E n \in Names : load' = [by |-> by, pkg |-> n, step |-> "prefix", seg |-> 0, at |-> 0]
    /\ UNCHANGED <<tab, prog, text, pages, libs, mixed, query>>

\* cndyn_run_package_from_path, for a command of the shell.
cnrun == prog = "none" /\ Begin("launch")
ShellSpawn == prog = "none" /\ Begin("spawn")
user_sys_spawn == prog # "none" /\ Begin("spawn")
user_sys_exec == prog # "none" /\ Begin("exec")

\* A launch or an exec that succeeds goes on in the new program.  A spawn, and
\* whatever fails, goes on where it was called.
Finish(ok) ==
    /\ load' = NoLoad
    /\ IF ok /\ load.by # "spawn" THEN prog' = load.pkg /\ mixed' = FALSE
                                  ELSE UNCHANGED <<prog, mixed>>
    /\ UNCHANGED <<tab, libs, query>>

Fail == Finish(FALSE) /\ UNCHANGED text
Goto(s) ==
    load' = [load EXCEPT !.step = s] /\ UNCHANGED <<tab, prog, text, libs, mixed, query>>

(***************************************************************************)
(* The steps of a load                                                     *)
(***************************************************************************)
\* Magic, version, kind and least size of the header.
cnpkg_parse_header_prefix == The.valid /\ The.hdr >= 1
\* The same again, with the alignment of the header and the number of sections.
cnpkg_probe_header == cnpkg_parse_header_prefix /\ The.aligned
\* The manifest asks for a library that is not there, or cannot be parsed.
RequiresFail == The.needs

\* The size of the file is looked at, its beginning read, and the header there
\* parsed.
load_prefix ==
    /\ load.step = "prefix" /\ UNCHANGED pages
    /\ \/ Fail
       \/ /\ The.size \in 1 .. MaxFile /\ cnpkg_parse_header_prefix
          /\ The.kind = "program"
          /\ Goto("header")

\* A header beyond the prefix is read again, into pages of its own; they are
\* free again when that fails.  The prefix counts as full, whatever was read.
read_header_full ==
    /\ load.step = "header"
    /\ \/ Fail /\ UNCHANGED pages
       \/ /\ The.hdr <= MaxHeader
          /\ The.hdr <= PrefixLen \/ The.hdr <= The.size
          /\ pages' = IF The.hdr <= PrefixLen THEN 0
                      ELSE (The.hdr + UnitsPerPage - 1) \div UnitsPerPage
          /\ Goto("locate")

\* The first entry of the table with this type, if the table is inside the
\* header up to there: its index, or 0.
cnpkg_locate_section_AnyHeader(type) ==
    LET hits == {i \in 1 .. Len(The.secs) :
                    /\ The.secs[i].type = type /\ \A j \in 1 .. (i - 1) : The.secs[j].type # type
                    /\ 1 + i <= The.hdr
                    /\ The.secs[i].off + The.secs[i].size <= The.size}
    IN  IF cnpkg_probe_header /\ hits # {} THEN CHOOSE i \in hits : TRUE ELSE 0
cnpkg_locate_section(type) ==
    LET hits == {i \in 1 .. Len(The.secs) :
                    /\ The.secs[i].type = type /\ \A j \in 1 .. (i - 1) : The.secs[j].type # type
                    /\ 1 + i <= The.hdr
                    /\ The.secs[i].off + The.secs[i].size <= The.size}
    IN  IF cnpkg_probe_header /\ The.hdr <= The.size /\ hits # {} THEN CHOOSE i \in hits : TRUE ELSE 0

Image == The.secs[cnpkg_locate_section("image")]
Manifest == The.secs[cnpkg_locate_section("manifest")]

LocateSections ==
    /\ load.step = "locate"
    /\ IF /\ cnpkg_locate_section("image") # 0 /\ cnpkg_locate_section("manifest") # 0
          /\ Manifest.size <= MaxManifest
         THEN Goto("manifest") /\ UNCHANGED pages
         ELSE Fail /\ pages' = 0

resolve_requires_NoFree ==
    /\ load.step = "manifest"
    /\ \/ Fail /\ UNCHANGED pages
       \/ ~RequiresFail /\ Goto("layout") /\ pages' = 0
\* The manifest is read, and every library that it names must be a file.  Then
\* the header is not needed any more.
resolve_requires ==
    /\ load.step = "manifest" /\ pages' = 0
    /\ \/ Fail
       \/ ~RequiresFail /\ Goto("layout")

grant_user_regions ==
    tab' = vmm_grant_user_2mb_region(
             vmm_grant_user_2mb_region(tab, TextBase, FALSE), StackBase, TRUE)

Granted ==
    /\ load.step = "layout"
    /\ grant_user_regions
    /\ load' = [load EXCEPT !.step = "segments"]
    /\ UNCHANGED <<prog, text, pages, libs, mixed, query>>

\* The header of the image and the table of its segments.
SegmentTable ==
    /\ load.step = "segments" /\ UNCHANGED pages
    /\ \/ Fail
       \/ /\ Image.size >= 1 /\ The.table + Len(The.segs) <= Image.size
          /\ Len(The.segs) <= MaxSegs
          /\ load' = [load EXCEPT !.step = "image", !.seg = 1]
          /\ UNCHANGED <<tab, prog, text, libs, mixed, query>>

Seg == The.segs[load.seg]
InSegment == load.step = "image" /\ load.seg <= Len(The.segs)
SegmentFits == Seg.off + Seg.len <= Image.size /\ Seg.len <= Seg.mem

BadSegment == InSegment /\ ~SegmentFits /\ Fail /\ UNCHANGED pages

\* One chunk of a segment.  A read that fails may have changed the window.
CopyChunk ==
    /\ InSegment /\ SegmentFits /\ load.at < Seg.len
    /\ \/ /\ text' = [text EXCEPT ![Seg.dst + load.at] = load.pkg]
          /\ load' = [load EXCEPT !.at = @ + 1]
          /\ UNCHANGED prog
       \/ /\ \E what \in {text[Seg.dst + load.at], load.pkg} :
                 text' = [text EXCEPT ![Seg.dst + load.at] = what]
          /\ load' = NoLoad
          /\ UNCHANGED prog
    /\ mixed' = (prog # "none")
    /\ UNCHANGED <<tab, pages, libs, query>>

ZeroFill_Skip ==
    /\ InSegment /\ SegmentFits /\ load.at = Seg.len
    /\ load' = [load EXCEPT !.seg = @ + 1, !.at = 0]
    /\ UNCHANGED <<tab, prog, text, pages, libs, mixed, query>>
\* The rest of a segment is zero.
ZeroFill ==
    /\ InSegment /\ SegmentFits /\ load.at = Seg.len
    /\ text' = [u \in Window |-> IF u - Seg.dst \in Seg.len .. (Seg.mem - 1) THEN "zero" ELSE text[u]]
    /\ load' = [load EXCEPT !.seg = @ + 1, !.at = 0]
    /\ mixed' = (prog # "none")
    /\ UNCHANGED <<tab, prog, pages, libs, query>>

\* Relocations are refused, but only after all segments are in place.
EndOfImage ==
    /\ load.step = "image" /\ load.seg > Len(The.segs)
    /\ Finish(~The.rela)
    /\ UNCHANGED <<text, pages>>

LoadStep ==
    \/ load_prefix \/ read_header_full \/ LocateSections \/ resolve_requires
    \/ Granted \/ SegmentTable \/ BadSegment \/ CopyChunk \/ ZeroFill \/ EndOfImage

(***************************************************************************)
(* Whole images and other calls                                            *)
(***************************************************************************)
\* What the first k segments leave: "any" where none of them is.
ImageUpTo(name, k) ==
    [u \in Window |->
        LET over == {i \in 1 .. k : u - Pkg[name].segs[i].dst \in 0 .. (Pkg[name].segs[i].mem - 1)}
            top == CHOOSE i \in over : \A j \in over : j <= i
        IN  IF over = {} THEN "any"
            ELSE IF u - Pkg[name].segs[top].dst < Pkg[name].segs[top].len THEN name ELSE "zero"]

ImageOf(name) == ImageUpTo(name, Len(Pkg[name].segs))

\* elf_load_flat and cnim_load_flat copy a whole image at once.
Placed(name) == [u \in Window |-> IF ImageOf(name)[u] = "any" THEN text[u] ELSE ImageOf(name)[u]]

\* An image linked into the kernel needs no reads.
RunEmbedded ==
    /\ prog = "none" /\ load = NoLoad
    /\ \E n \in Names :
          /\ Pkg[n].embedded
          /\ text' = Placed(n)
          /\ prog' = n
    /\ grant_user_regions
    /\ mixed' = FALSE
    /\ UNCHANGED <<load, pages, libs, query>>

\* The program exits, or blocks in a call that does not return; then the shell
\* has the window again.
user_on_syscall_exit ==
    /\ prog # "none" /\ load = NoLoad
    /\ prog' = "none" /\ mixed' = FALSE
    /\ UNCHANGED <<tab, text, load, pages, libs, query>>

cndyn_dlopen_NoSearch(path) ==
    /\ prog # "none" /\ load = NoLoad
    /\ \E i \in 1 .. NLibs :
          /\ libs[i] = "free" /\ \A j \in 1 .. (i - 1) : libs[j] # "free"
          /\ libs' = [libs EXCEPT ![i] = SonameOf[path]]
    /\ UNCHANGED <<tab, prog, text, load, pages, mixed, query>>
\* The whole path is compared, what fits of it is kept.
cndyn_dlopen(path) ==
    /\ prog # "none" /\ load = NoLoad
    /\ \A i \in 1 .. NLibs : libs[i] # path
    /\ \E i \in 1 .. NLibs :
          /\ libs[i] = "free" /\ \A j \in 1 .. (i - 1) : libs[j] # "free"
          /\ libs' = [libs EXCEPT ![i] = SonameOf[path]]
    /\ UNCHANGED <<tab, prog, text, load, pages, mixed, query>>

cndyn_dlclose(h) ==
    /\ prog # "none" /\ load = NoLoad
    /\ libs' = [libs EXCEPT ![h] = "free"]
    /\ UNCHANGED <<tab, prog, text, load, pages, mixed, query>>

\* A path is resolved.  The result depends on nothing else, so the state after
\* boot is where all of them are tried.
Resolve ==
    /\ text = [u \in Window |-> "none"] /\ load = NoLoad /\ query = NoQuery
    /\ \E cwd \in Cwds, rel \in PathArgs : query' = [cwd |-> cwd, rel |-> rel]
    /\ UNCHANGED <<tab, prog, text, load, pages, libs, mixed>>
Resolved ==
    /\ query # NoQuery
    /\ query' = NoQuery
    /\ UNCHANGED <<tab, prog, text, load, pages, libs, mixed>>

ProgramsNext ==
    \/ Resolve \/ Resolved
    \/ /\ query = NoQuery
       /\ \/ cnrun \/ ShellSpawn \/ user_sys_spawn \/ user_sys_exec \/ LoadStep
          \/ RunEmbedded \/ user_on_syscall_exit
          \/ (\E p \in DOMAIN SonameOf : cndyn_dlopen(p)) \/ (\E h \in 1 .. NLibs : cndyn_dlclose(h))

ProgramsSpec == ProgramsInit /\ [][ProgramsNext]_progVars

(***************************************************************************)
(* Properties                                                              *)
(***************************************************************************)
\* Every variable has its type, and no header takes more than its pages.
ProgramsTypeOK ==
    /\ tab \in Tables
    /\ prog \in Names \cup {"none"} /\ load.pkg \in Names \cup {"none"}
    /\ \A u \in Window : text[u] \in Names \cup {"none", "zero"}
    /\ pages \in 0 .. ((MaxHeader + UnitsPerPage - 1) \div UnitsPerPage)
    /\ mixed \in BOOLEAN

\* Whatever goes wrong in a load, the pages of the header are given back
\* before the caller goes on.
HeaderPagesReturned == load = NoLoad => pages = 0

\* What the loader goes by has been read and is inside the file: the header,
\* even where it is said to fit into a prefix that a shorter file did not fill,
\* and every section and chunk.
LoaderActsOnBytesRead ==
    load.step \in {"manifest", "layout", "segments", "image"} =>
        LET pkg == The
            img == Image
            man == Manifest
        IN  /\ pkg.hdr <= pkg.size
            /\ img.off + img.size <= pkg.size /\ man.off + man.size <= pkg.size
            /\ (InSegment /\ load.at > 0) => img.off + Seg.off + load.at <= pkg.size

\* A program that runs has its whole image in the window, zeros included,
\* except where it went on after a spawn or a failed exec that had begun to
\* write: those load over the caller.
RunsWholeImage ==
    (prog # "none" /\ load = NoLoad /\ ~mixed) =>
        \A u \in Window : ImageOf(prog)[u] \in {"any", text[u]}

\* A buffer passes the range checks of the system calls just when the program
\* itself could use it.
BuffersAreChecked == load.step \in {"none", "segments"} => RangeChecksAgree(tab)

\* A library is entered once, so that its handle is found again, unless its
\* name is one that a longer path is cut to.
LibrariesEnteredOnce ==
    \A i, j \in 1 .. NLibs :
        /\ libs[i] = libs[j] /\ libs[i] \in DOMAIN SonameOf
        /\ \A p \in DOMAIN SonameOf : SonameOf[p] = libs[i] => p = libs[i]
        => i = j

\* Within the limits of names and depth, a resolved path is the one meant: the
\* names of both parts, less those that .. takes back.
ResolvesAsMeant ==
    LET whole == IF IsAbsolute(query.rel) THEN query.rel ELSE query.cwd \o Slash \o query.rel
        out == Joined(Meaning(whole))
    IN  /\ query # NoQuery /\ Ordinary(whole) /\ Len(out) < PathSize
        /\ IsAbsolute(query.rel) \/ Len(whole) + 2 <= TmpSize
        => vfs_resolve_path(query.cwd, query.rel) = out

\* Beyond the limits too, a resolved path is in normal form, resolving it again
\* changes nothing, and the directory and the name that it is split into make up
\* the path, the name being its last component.
ResolvedIsNormal ==
    LET out == vfs_resolve_path(query.cwd, query.rel)
        s == path_split_parent(out)
    IN  /\ (query # NoQuery /\ out # Error) =>
             IsNormal(out) /\ chaseros_path_normalize(out) = out
        /\ (query # NoQuery /\ out \notin {Error, Slash}) =>
             /\ s.base = Last(Components(out))
             /\ out = IF s.parent = Slash THEN Slash \o s.base ELSE s.parent \o Slash \o s.base
             /\ IsNormal(s.parent)
=============================================================================
