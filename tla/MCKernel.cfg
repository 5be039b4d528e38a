SPECIFICATION KernelSpec
CONSTANTS
  Gran = 3
  OrdersCount = 7
  BootAlign = 2
  PHYS_LOW = 8
  Callers = {t1, t2}
  Firmwares <- MCFirmwares
  Sizes = {1, 8, 16}
  MaxCalls = 3
  MinOrder = 1
  SlabSize = 16
  HdrSize = 2
  ChunkSize = 32
  NodeSize = 2
  RangeSize = 2
  InfoSize = 1
  CoreSize = 4
  StackSize = 8
  ArchSize = 3
  AddressModulus = 4096
  Mappers = {m1, m2}
  Lvls = 3
  Vaddrs <- MCVaddrs
  Frames = {1, 2, 3, 4, 5, 6, 7, 8, 9}
  Paddrs = {21}
  MaxTasks = 2
  TlbCores = {1, 2, 3}
  MaxRequests = 2
  CounterMod = 64
  ListNodes = {1, 2, 3}
  TlsKeys = {0, 1, 2, 4}
  TlsValues = {1}
  BucketsCount = 2
  Elems = {1, 2}
  Delta = 2
  MetaSize = 2
  MaxLength = 5
  HeapNodes = {1, 2, 3, 4}
  Keys = {0, 1}
  Targets = {ta, tb, tc}
  DepLists <- MCDeps
  MaxPlans = 2
  Lockers = {a, b, c, d}
  SizeModulus = 8
  CoreCount = 3
  BootCore = 0
  Allocators = {x, y}
  MaxAllocated = 4
INVARIANTS PhysExact HeapExact BootExact PagingExact TlsTableExact DynarrayExact PairingHeapExact
  PlanExact RwQueueExact LoadsBalanced
PROPERTIES GenerationWaits
CHECK_DEADLOCK FALSE
