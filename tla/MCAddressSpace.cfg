SPECIFICATION Spec
CONSTANTS
  Index <- MCIndex
  NoFrame = 0
  KERNEL_PML4_START = 2
  KernelRoot = 1
  LowPdpt = 2
  Pool <- MCPool
  Leaves <- MCLeaves
  PrivateVA <- MCPrivateVA
  KernelVA <- MCKernelVA
  MaxAsid = 2
INVARIANTS KernelHalfShared FramesAccounted TlbCoherent
PROPERTIES ViewsSpec
