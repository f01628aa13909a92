SPECIFICATION Spec
CONSTANTS
  l1 = l1
  l2 = l2
  Loads = {l1, l2}
  small = small
  big = big
  huge = huge
  odd = odd
  mlx4 = mlx4
  Ollama = {small, big, huge, odd}
  Mlx = {mlx4}
  Size <- MCSize
  Sized = {small, big, huge, mlx4}
  Budget = 5
  Headroom = 2
  MaxDownload = 9
  AutoPull = TRUE
  Disks = {3, 6}
  Footprints = {0, 2}
  None = None
INVARIANTS
  TypeOK
  HeadroomKept
  NothingOversized
PROPERTIES
  LoadFits
