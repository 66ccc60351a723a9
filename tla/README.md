# MiraOS: TLA+ models, model checking and proofs

MiraOS is a small x86-64 kernel in C: a page allocator, paging and a heap, a
process model with a round-robin scheduler, interrupt-driven PS/2 drivers, an
in-memory file system, and a graphical shell that the kernel's idle loop runs.
This directory models the parts that keep state and can go wrong over several
steps. Every definition is translated from the C source; `PROJECT.json` maps
each one to the lines it stands for.

## 1. The system and its parts

| Component | State | Operations | Interacts with |
|---|---|---|---|
| Page allocator `kernel/mem.c` | `page_bitmap`, `total_pages`, `free_pages`, `mem_end` | `pmm_init`, `pmm_alloc_page`, `pmm_free_page` | called by heap, paging, processes, loaders |
| Paging `arch/x86_64/paging.c` | page tables | `paging_map_page`, `paging_unmap_page`, `paging_virt_to_phys` | takes pages for tables |
| Heap `kernel/heap.c` | block list, `heap_mapped`, slab caches | `kmalloc`, `kfree`, `krealloc`, `kcalloc` | everybody; maps pages |
| Processes, scheduler `kernel/process.c` | `process_t` with `next`/`prev`, `process_list`, `ready_queue`, `current_process` | `process_create`, `process_destroy`, `scheduler_add`, `scheduler_remove`, `scheduler_tick`, `process_switch` | timer interrupt, system calls |
| System calls `kernel/syscall.c` | - | exit, read, write, open, close, draw, ticks | processes, VFS |
| Interrupt dispatch `arch/x86_64/isr.c`, `drivers/driver.c`, `drivers/pic.c`, `drivers/timer.c` | controllers' in-service lines, driver list, `tick_count` | `isr_handler`, `driver_dispatch_irq`, `drivers_pic_send_eoi`, `timer_driver_irq` | every driver, the scheduler |
| Keyboard `drivers/ps2/keyboard.c` | ring buffer, shift, caps lock | `keyboard_on_irq`, `keyboard_poll` | interrupt side and idle loop |
| Mouse `drivers/ps2/mouse.c` | packet bytes, position, `mouse_moved` | `mouse_irq_handler`, `mouse_has_moved`, `mouse_clear_moved` | interrupt side and idle loop |
| Input line, idle loop `ui/input.c`, `kernel/main.c`, `ui/ui.c`, `shell_tick` | `input_buf`, `cmd_buf`, history, `dirty` | `input_poll`, `shell_tick`, `ui_render`, `kernel_idle` | keyboard, shell |
| VFS `fs/vfs.c`, `fs/backend/ramfs.c` | node tree, `open_table` | `vfs_create_file`, `vfs_open`, `vfs_close`, `vfs_read`, `vfs_write`, `vfs_lseek` | shell builtins, system calls |
| Shell interpreter `ui/shell.c` | variables, aliases, directory, exit status, table of builtins | tokenizer, parser, `shell_execute_ast`, `shell_run_script`, builtins | input line, VFS, heap |
| Windows `ui/widgets/window.c` | window array, `focused_window`, `drag_window_idx` | create, close, raise, click, drag | mouse |
| Widgets `ui/ui.c` | widget tree, `focused_widget` | create, add, remove, destroy, post event, focus | heap |
| Loaders `kernel/elf.c`, `kernel/bin/*` | - | validate, load section by section, page by page | paging, pages |
| Containers `lib/common/ds.c` | array, list, hash map | insert, remove, lookup | heap |

What is hard here: interrupts cut into the idle loop at any access (keyboard);
a handler can be left half way by a context switch (interrupts and scheduler);
two data structures share one pair of links (processes); two allocators share
one address range (heap); a page table is made inside the walk that needs it,
out of the memory it maps (paging); operations fail half way (process creation,
file creation, loading); indices into arrays outlive their reordering
(windows); linked trees are changed by nested calls (widgets); a line goes
through expansion, tokenizer and parser, and values go through them again
(shell); and inferences are made from snapshots (the shell's detection of
Enter). `PROJECT.json` lists these as hazards with the line and the property
that covers each.

## 2. Modules

| Module | Models | Notes |
|---|---|---|
| `PhysMem` | `kernel/mem.c` | the boot scan is one action per memory map entry |
| `PhysMemProofs` | | invariants of `PhysMem` for every machine |
| `Process` | `kernel/process.c`, exit of `kernel/syscall.c` | pointer level; uses pages as `PhysMem` hands them out |
| `ProcessProofs` | | queue, refinement, waiting and stacks, for any number of processes |
| `RoundRobin` | what the scheduler promises | abstract specification, `Process` implements it |
| `Irq` | `isr.c`, `driver.c`, `timer.c`, `pic.c` with the scheduler | uses the abstract queue of `RoundRobin`'s kind |
| `IrqProofs` | | acknowledgements balance, for any set of processes |
| `Keyboard` | `drivers/ps2/keyboard.c` | one action per memory access of `keyboard_poll` |
| `Fifo` | what the scancode ring promises | abstract specification, `Keyboard` implements it |
| `KeyboardProofs` | | extends `Console`: invariants of driver and line editor and the refinement, for every buffer size |
| `Console` | `ui/input.c`, `shell_tick`, history, `kernel_idle` | extends `Keyboard`: composition of driver, line editor and loop |
| `Pointer` | `drivers/ps2/mouse.c`, `ui_tick`, `ui_draw_cursor`, `kernel_idle` | one action per access of the loop to the driver's variables |
| `Vfs` | `fs/vfs.c`, `ramfs.c`, mkdir and touch | |
| `VfsProofs` | | tree, descriptors and contents, for every depth and size |
| `Heap` | `kernel/heap.c` | |
| `HeapProofs` | | the list, its sizes and who holds what, for every page and header size |
| `Paging` | `arch/x86_64/paging.c` | one action per level of `walk`; the nested calls are a stack |
| `AddressSpace` | what paging promises | abstract specification, `Paging` implements it |
| `Loader` | `kernel/elf.c`, `kernel/bin/*` | extends `Paging`: composition of loaders, heap, page tables and free pages |
| `LoaderProofs` | | tables, pages, the refinement and loaded images, for tables, memories and images of any size |
| `Windows` | `ui/widgets/window.c` | |
| `ScreenProofs` | | extends `Windows`, `Pointer`, `Widgets` and `ShellTables`, what the user sees: indices, grips and the refinement, for every number of windows; no movement is lost, for every screen and all bytes; links, positions, events and the refinement, for every number of widgets; the shell's tables, for every size |
| `WindowStack` | what the window array promises | abstract specification, `Windows` implements it |
| `Widgets` | widgets of `ui/ui.c` | links of the heap nodes; the nested calls of `ui_destroy_widget` are a stack |
| `WidgetTree` | what the widget functions promise | abstract specification, `Widgets` implements it |
| `ShellText` | tokenizer and parser of `ui/shell.c` | functions, recursive |
| `ShellTables` | variables and aliases | functions on sequences |
| `Shell` | expansion, execution, builtins, scripts | extends both; executing a line is one step |
| `MC*` | | instances for TLC |

How state and actions correspond to the code, where it is not one to one:

* `PhysMem`: `page_bitmap` is the set of pages whose bit is set. `held` is a
  history variable: the pages handed out and not given back.
* `Process`: a process is its pid; the record `q` holds the shared links and the
  three list heads. History variables are `owner` (for whom a page was
  allocated), `wait` (switches since a process last ran), `torn` (processes
  whose pages were not adjacent) and `lost` (a process has exited whose `prev`
  was set although it was the head). `KernelAlloc` stands for the heap and the
  page tables taking a page, `Holes` for pages between free ones that are never
  free, such as the bitmap. Processes are created at any time, also while others
  are queued and run. `scheduler_add` and `process_create` are one step each,
  although `process.c:263-280` does not switch interrupts off: no code calls
  them, and the clients modelled do so with interrupts off.
* `Irq`: `frame[c]` is the handler that context `c` is in. Interrupts are off
  exactly there. A context that was switched away from inside its handler
  continues with the acknowledgement when it is switched to again.
* `Keyboard`: `port` is what a read of port 0x60 returns; it keeps its value
  until the device sends the next byte, and since every driver is called for
  every line, a timer interrupt makes the handler read it again.
* `Console`: a buffer is a sequence of characters; `executed` is a history
  variable. `field` is what
  the command field was last drawn with; it is not what the user sees, because
  `shell_render` fills the dock (`shell.c:2471`) over the field it has drawn.
* `Pointer`: bytes are numbers, so that the bit tests and `dx |= 0xF0` are what
  they are in the code. The third byte of a packet updates the position, the
  buttons and the flag in one step, because the handler is not interrupted. The
  timer's interrupt takes the byte in the port again, so that a byte with bit 3
  set moves the pointer at every third tick, for ever. `MaxPackets` bounds that:
  it means that the devices come to rest, with a last byte that starts no packet.
* `Vfs`: a node is the sequence of names leading to it. Of a path only its
  components and whether it ends in several slashes matter to the code.
* `Heap`: addresses are offsets from `heap_virt_base`. The recursive retry of
  `kmalloc` after it has mapped a page is a step of its own (`want` is the size
  it still looks for). After two blocks overlap, stores of one client change
  headers of the other; such states are not followed further (`Idle`).
  `MergesAcrossGap` describes the step that leads there.
* `Paging`: memory is words of pages; a table is a page like any other. A frame of
  `calls` is one activation of `paging_map_page` with the level its `walk` has
  reached and the page `table_alloc` has taken but not linked yet. The processor's
  translation is `paging_virt_to_phys`, so a store through a physical address needs
  that page to be mapped to itself. The boot tables may be among the pages a memory
  map offers (`Memories`), because `pmm_init` (`mem.c:77-78`) reserves of the kernel
  only what lies below 1 MB and `page_bitmap`; and images may be mapped anywhere.
  When a page that is handed out is a boot table, or a mapping is made over the boot
  mapping, `status` becomes `"lost"` and the model stops: what the kernel does with
  damaged tables is not followed. The other pages of the kernel's image can be
  handed out just so; they are not state of this model.
* `Loader`: a header field is right or wrong, except for the bounds; the
  checksum is one such field. The address of a section is in words and need not
  be that of a page. Filling a page through an address that is not mapped stops
  the kernel (`load_fault`). `loaded` is a history variable.
* `Windows`: windows are records that are copied from slot to slot, coordinates
  are modulo `Word`. `grip` (where a window was last grabbed) is history.
* `Widgets`: the pointers of the nodes are four functions on addresses, the
  fields of `link`; coordinates are modulo `Uint32`. `calls` is the stack of
  running calls of `ui_destroy_widget`; each call takes its widget out of the
  parent's list when it is entered and frees it when it returns. One round of the
  loop of `ui_post_event` is one step, `Offer` where the target contains the
  position and `Pass` elsewhere. `told` (whose `on_focus` was last told that it
  has the focus), `moved` (widgets no longer where they were created), `doomed`
  (what a destruction has still to free) and `got` (receivers of the event) are
  history variables. The kernel itself creates the root only, so the module states
  its clients: they add a widget that has no parent, never below itself, and move
  the focus away before they destroy the focused widget.
* `Shell`: a text is a sequence of symbols: a punctuation mark stands for
  itself, a letter symbol for one or more letters; buffers are large enough. The
  record `st` is the interpreter's state, passed through the functions in the
  order the code calls them. `nest` and `ran` note which commands of the line
  itself ran, `out` what was drawn. Builtins that only print are two sets, by
  what they return. The interpreter's frees give slab objects to `kfree`, which
  follows links it takes from other objects: how many of them do no harm is chosen
  anew for each line, and the next one sets `halted`, half way through the line or
  behind it. `Nested` is a call of `shell_run_script` or `builtin_eval` with its
  buffer of 4096 bytes; one more than the stack holds sets `halted` too.

## 3. Runs

Each module's type invariant is checked as a part of a conjunction (`...Sound`)
with the invariants it belongs to.

| Run | Question | Bounds |
|---|---|---|
| `pages` | are pages handed out once, and do the counters account for them? | 14 pages, map with a hole, unaligned and overlapping entries: every rounding and double-count case occurs |
| `scheduler` | does the pointer-level queue implement round robin, own its stacks, bound waiting? | 4 processes of 2 stack pages, 9 pages with a hole in the middle: a middle, a head and a tail element exist, processes are created before and after others are queued, stacks are torn by the hole, by the kernel's pages and by exits, and memory runs out |
| `irq` | do acknowledgements balance, is the timer always served while idle? | 3 processes, 3 lines of both controllers |
| `console` | is the ring a FIFO, do the buffers keep their bounds and the history its order, is no key lost before `hlt`? | ring of 3, line of 3, history of 1, 4 bytes from the devices: ring, line and history are each full and wrap |
| `pointer` | is no movement lost between handler and loop, does the cursor catch up? | 8 by 6 pixels, 4 device bytes with and without bit 3 and sign bits, in any order, 3 packets: the timer repeats bytes, so packets complete at every place of the loop and cross every edge |
| `vfs` | is the tree connected, do descriptors stand in files, is no content lost? | depth 3, 2 descriptors, files up to 2 bytes, offsets modulo 4: seeks wrap, the table fills, creations fail half way |
| `heap` | is the list linked, complete, coalesced; is memory given out once? | 3 pages of 24 units, header 2, slab objects of 6: every kind of page order, split, merge, growth and heap oom |
| `loader` | are tables reachable, pages used once, translations changed one at a time, images intact? | tables of 16 entries, 10 pages of which 2 lie above the boot mapping, 7 images (an ELF and six MIRA files: at aligned and unaligned addresses, with a section outside of the file, over pages of memory, over the heap and over the boot mapping), 2 heap pages: new tables on three levels, nested allocation, paging oom, faults, failed loads, images replaced by others; a second machine of 5 pages whose memory map offers a boot table as free |
| `windows` | is the array a stack of windows, do focus and drag indices mean the right window? | 3 windows, 2 overlapping places, coordinates modulo 8: windows lie over each other and are dragged over the edge |
| `widgets` | are the linked lists a forest, do positions add up, where do events go? | root and 3 widgets of 2 kinds, coordinates modulo 3: siblings on both sides of a removed one, a child of a child, a destruction with nested calls, sums of positions that wrap, handlers that take the event and that pass it on |
| `shell` | do lines mean what their operators say, do tables keep what was assigned? | lines of up to 3 commands with every operator and with parentheses, 13 lines that change state, 21 that read it; 6 variables, 2 aliases, 2 buffers on the stack, 0 to 3 harmless frees in a line: every table fills, scripts nest until the stack is overrun, and a line ends at any of its frees |

`scheduler`, `heap`, `loader` and `shell` switch deadlock checking off: all
processes may have exited, and a panic or a fault stops the machine. `windows` and
`widgets` use the symmetry of titles and of the addresses other than the root.

`switch_before_eoi` refutes a statement in the source (it is the finding of
`PROJECT.json`): a switch out of the timer's handler leaves line 0 in service; no
further interrupt arrives and a ready process never runs.

What some properties need as a premise, and why:

* `QueueSound`, `WaitBounded` and `ImplementsRoundRobin` hold until `lost`: the
  exit of a process whose `prev` a later `process_create` has overwritten while it
  was at the head. `scheduler_remove` then takes it for a middle element, and it
  stays at the head of the ready queue. The shortest way there is create,
  `scheduler_add`, create, `scheduler_tick`, exit. Overwritten links anywhere else
  in the queue are mended before they are read, which is what the three show.
* `StacksOwned` holds until a process in `torn` gives its pages back, and is about
  the others: with pages that are not adjacent, `process.c:45` makes a stack out
  of pages of others. That the property holds with holes and kernel pages
  anywhere shows that non-adjacent pages are the only cause.
* `MemoryApart`: slab pages and areas of the block list come from one range. Once
  a slab page lies between two areas, `merge_adjacent` can merge the last block
  before it with the first one behind it, and the merged block covers the slab.
  The property says that no other step, also in such a heap, makes blocks overlap.
* `BoundsAbsolute` is about widgets that stay where they were created.
  `ui_add_child` adds the ancestors' positions to what is there, so a widget that
  is removed and added again is misplaced, and descendants do not follow.
* `ShortCircuits` leaves out lines with a semicolon behind `&&` or `||`: the
  command behind it becomes a third child of a node that executes two.
* `ImageFaithful` counts from the start of the page that the address of a section
  lies in, because that is where the loaders put the words of a section whose
  address is not that of a page: `paging_map_page` drops the offset, the page is
  filled from its start, and nothing checks the address ("mapping pages at vaddr",
  `mira_exec.c:115`). And of two sections at the same page the
  later one counts. It ends for an image when something else is mapped at one of
  its pages. It says nothing about the words of an ELF
  segment that the file does not cover: `elf_load` does not clear them.
* `TablesSound`, `PagesAccounted` and `ImplementsAddressSpace` hold in every state
  of paging.c up to the one where the boot tables or their mapping are written over.
* `AssignmentsKept` and `EchoFaithful` are about values without dollar, quote,
  backslash and tilde, which the two expansions and the tokenizer change, and
  about the builtins themselves (`set` or `echo` may be an alias). With the value
  `-n`, `echo "$x"` draws nothing, because it is an option then.

Seen while modelling, without a run of their own:

* Processes. The error path of `process_create` ("free already allocated pages",
  `kernel/process.c:38`) frees a run of addresses, not the pages it got; with a hole
  among them it keeps one for good (`process_create_fails`). An exit rotates the
  queue once too often; `WaitBounded` shows that this delays a process by a bounded
  number of switches only, quadratic in the number of processes. `scheduler_add`
  cuts processes out of the list that `process_find_by_pid` searches. A process that
  exits with nobody else ready goes on running on a stack it has given back.
* Console. `shell_tick` takes a buffer that was filled before the poll and is empty
  after it for an Enter (`shell.c:2440`): deleting the only character of the line
  executes it. A key gives two characters when a timer interrupt comes before the next
  byte. A line typed and entered within one pass is not executed, and of two lines
  entered in one pass one is lost. `tick_count` counts every interrupt, not only
  the timer's.
* Mouse. The answer to the command that enables the mouse (0xFA, bit 3 set) is the
  first byte in the port: until a device sends another one, every third tick moves
  the pointer.
* Paging. A table page above the boot mapping needs a table for its own identity
  mapping; when that page lies there too, `table_alloc` calls itself until
  "paging oom".
* Windows. The window raised to index 0 is the one drawn first, under the
  others, and clicks look from the other end; `dragging` is never reset; closing
  the front window leaves no window marked as focused.
* Widgets. A parent is painted over its children; an event never reaches
  the children of the first child of the root that it hits; `focused_widget`
  dangles when that widget is destroyed.
* Shell. The table holds 128 builtins, later registrations are dropped. An
  unquoted `=`, `-x` or `/path` ends the command, and redirections and unknown
  characters drop the rest of the line. An alias that is defined again is
  appended, and the first definition wins. Nothing reads `exit_requested`. Tokens,
  tree and argument texts are slab objects. `ast_free` gives them to `kfree`
  (`shell.c:310-317`), which reads the object before each as a block header
  (`heap.c:189-191`); where that is a token, `next` is its `line | column << 32`,
  and following it is a page fault. So a command line can be the last one. The
  argument texts are freed once more by `tokenizer_free_tokens`.
  `mkdir` makes a regular file. `test` compares its operator with its operand.
* Others. `kfree` of a slab object writes into the object before it. Sums such as
  `offset + count` (`fs/vfs.c:30`) and `file_off + filesz` (`mira_exec.c:122`)
  may wrap.

**Fairness.** `Console` and `Pointer` assume weak fairness of the idle loop, which
is the only thing that runs, and of the timer's interrupt (`Pointer`: of interrupts,
whichever they are), because the timer chip is programmed to be periodic and `Irq`
shows (`IdleIsTicked`) that its interrupts are served while no process is ready.
`Irq` assumes that the timer raises its line again and again and that the CPU
executes a handler it is in; nothing is assumed of processes (they may run for
ever), the keyboard or the mouse.

## 4. Proofs

Checked by TLAPS for every value of the constants, from the named assumptions
on them only. Each theorem rests on an inductive invariant; what that adds to the
property is what the code relies on without saying so.

* `PhysMemProofs` (`PhysMemAssumption`: the memory map fits the bitmap).
  `HeldPagesSafe` is not inductive alone: it needs that a held page is marked,
  and during the boot scan that nothing is held; the counters need that
  `total_pages - free_pages` is the number of held pages, and `free_pages` is
  compared with the number of clear bits through the entry-by-entry scan, where
  an overlap makes it larger, never smaller.
* `ProcessProofs` (`ProcessAssumption`). The invariant `QInv` is the content of
  the pointers: there is a sequence of processes that `next` spells from
  `ready_queue` to `ready_queue_tail` (`ListOk`), its members are ready, and the
  running one is its head. `prev` spells it too, except where a process created
  later has overwritten it; such a link names a process with a higher pid, and
  every operation on the middle or the end of the queue writes a link before it
  relies on it. `ChainIsList` shows that following the links, as `ReadyQueue`
  does, reads that sequence. One lemma for each of `Enqueue`, `Unqueue` and
  `Rotate` says what it does to the sequence, and `Unlist` does nothing to it
  (`process_destroy` runs behind `scheduler_remove`); with these every step is a
  step of `RoundRobin`, until `lost`. `WaitIsBounded` weighs a process by twice its
  waiting time, its place in the queue, and what the processes still alive could
  cost it (`WaitInv`). The bound n(n-1)/2 comes from this proof: a linear bound of
  2n-2 fits up to four processes and fails for five. `StacksAreOwned` holds for
  holes anywhere: a process that is not torn owns the run of pages behind
  `stack_bottom`, and runs of different owners are disjoint.
* `IrqProofs` (`IrqAssumption`). The invariant `IInv` adds to `AcksBalance` that
  the ready queue holds no process twice and that finitely many handlers are
  unfinished; then the lines in service are counted against the handlers:
  accepting a line adds one to both, an acknowledgement takes one from both,
  whichever line it is that `drivers_pic_send_eoi` clears.
* `KeyboardProofs` (`KeyboardAssumption`, `ConsoleAssumption`: buffers are not
  empty). `KInv` says where `keyboard_poll` stands and that the slot it is about
  to free is still the oldest; the refinement mapping reads the ring from
  `kbd_tail` to `kbd_head`. An interrupt appends at the far end or drops its
  scancode, a poll takes the first element at the access that moves `kbd_tail`,
  every other step leaves the abstract queue as it is. `ConsoleRunsKeyboard`
  carries all this over to the composition, and `CInv` says, phase by phase of
  the loop, which of input line, snapshot, command buffer and field are equal.
* `VfsProofs` (`VfsAssumption`). The invariant adds the contents' types and the
  root to the closed tree and to `DescriptorsInFile`: a file only grows, so an
  offset that was inside stays inside; creation adds a part of its path from the
  top, however far it gets.
* `HeapProofs` (`HeapAssumption`: sizes are positive and a header fits a page).
  Two invariants and a step. In general (`SoundInv`) the list is
  linked upwards in memory, has one first and one last block, neighbours are not
  both free except at the beginning of an area, no block begins in a slab page,
  and the blocks in use are the ones held; a `kmalloc` in progress also knows
  that blocks are apart, because only then it was begun: `HeapIsSound`. And the
  list measures as many bytes as its areas (`AreaInv`). `Split`, `Absorb`,
  `Freed` and `Appended` have a lemma for each. `BlocksNeverOverlap` is about a
  step: of a heap whose blocks are apart, wherever its slab pages lie, `Split`
  divides one block, `Appended` adds an area that nothing reaches, and an `Absorb`
  of a block that begins where its neighbour ends covers just the two; only an
  `Absorb` across a gap is left (`MergesAcrossGap`). The sum in
  `AreasAccountedFor` is a recursion over sets; `TotalIsBytes` shows that it is
  the cardinality of the set of the blocks' bytes, about which the library has
  theorems, by induction over the number of blocks.
* `LoaderProofs` (`PagingAssumption`: the boot tables lie in the first `Fanout`
  pages, memory is what two levels can map, the heap's addresses, which are
  constants of `heap.c`, lie above memory; `LoaderAssumption`: the sections are
  records of numbers, and `ImagePages` has their pages). Nothing is assumed about
  where images lie, and the boot tables may be pages that are handed out. The
  invariant `PagingInv` gives every page a level, 0 for a page that is no table: an
  entry of a table of level `l` points to one of level `l - 1`, no table has two
  entries pointing to it, and the walks to the boot mapping are as they were
  (`Labels`, `BootKept`). So two addresses share a table exactly when they agree in
  all indices above it (`AtInjective`), and changing one entry changes one
  translation. The nested calls are harmless for a reason the code does not state: a
  call for a page of the boot mapping finds all tables and writes the entry that is
  there already, and a call for a page above it can only end in "paging oom"
  (`InnerOK`), because every table it needs is such a page again (`pmm_alloc_page`
  hands out the lowest page first). So only the outermost call ever changes a
  translation (`Quiet`), and every table that is linked lies in the boot mapping.
  `ImageInv` says which pages of the image being loaded are in place, but for those
  a later section has replaced (`Replaced`); a mapping at a page of a loaded image
  takes that image out of `loaded`. Handing out a boot table and mapping over the
  boot mapping are the steps to `"lost"`, behind which nothing is claimed.
* `ScreenProofs` (`WindowsAssumption`, `PointerAssumption`, `WidgetsAssumption`,
  `TablesAssumption`). For the windows:
  titles differ, the focused window is in slot 0, a window being dragged is in the
  slot the index says and carries its own grip. Each operation has a lemma about
  the slots it copies (`window_bring_to_front` shifts an initial segment by one),
  from which both the invariant and the step of `WindowStack` follow. For the
  cursor: the invariant says in every phase of the idle loop where a movement the
  screen does not show is remembered: in `mouse_moved`, in `ui_dirty_flag`, or in
  the fact that the loop is about to read the position. For the widgets:
  `Forest` says that there is, for every widget, a sequence of its children that
  the links spell in both directions, that a widget is in the sequence of its
  parent and in no other, and that no widget is above itself. The ancestors of a
  widget are the least set that holds it and is closed under `parent`; what they
  are after a link changes follows from that (`AncUnfold` and the lemmas after
  it), without induction. `DestroyInv`: the widget of every running call has no
  parent, and everything doomed is one of these widgets or below one. So the
  loop of `ui_destroy_widget`, whose list loses its head in the nested call,
  frees the subtree and nothing else. `EventInv` names a set of widgets that are
  still ahead of the event; no receiver is in it, and it shrinks with every round,
  so nobody gets an event twice although the target is replaced within the loop.
  For the refinement, `ListSpelled` shows that following `next` reads off exactly
  the sequence of the forest. For the shell: tables of variables hold each name
  once, and `AssignmentReaches`, `UnsetForgets` and `FirstAliasWins` say what the
  functions on the tables keep. They are theorems about the operators, with any
  sets of names and values, and not about the interpreter that calls them.

Induction over natural numbers is used in the form "a set of numbers with 0 and
all successors is everything" (`NatSetInduction`), because the provers cannot
instantiate the library's theorems, which have a predicate as a parameter.

Only model-checked:

* liveness (`KeysAreRead`, `CursorCatchesUp`, `IdleIsTicked`, `ReadyRuns`), which
  the prover does not handle;
* the shell's interpreter (`ShellText` and `Shell`): tokenizer, parser and
  execution are recursive operators, which the prover does not take, and what
  they compute for every line is induction over data.

## 5. Plan

What is left:

1. Composition of processes with the real page allocator and heap, which
   `Process` and `Paging` have as actions of their own.
2. The shell's execution as a machine with an explicit stack, as in `Paging` and
   `Widgets`, so that the order of commands can be proved.

## 6. Not modelled

* Boot code, GDT and IDT (one-time hardware set-up), graphics, text and the
  layout of the shell's screen (pixels), the network stubs.
* `kernel/safemode.c` (not built), the containers of `lib/common/ds.c` and the
  ATA driver (nothing calls them), the shell's jobs and functions (nothing adds
  one) and the builtins that are registered beyond the table's end.
* Builtins that do not return or fault: `yes`, `sleep` with a negative argument,
  `nohup` and `exec` with an argument, a division by zero in `let`.
* The checksum arithmetic of MIRA files, and the second copy of their header
  check in `mira_bin_validate.c`.
* Register contents in `process_switch`, the contents of heap memory, and what
  happens after undefined behaviour has damaged memory.
