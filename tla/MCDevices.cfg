SPECIFICATION Spec
CONSTANTS
  NUM = 8
  UINT16 = 16
  DiskProcs = {1, 2, 3, 4}
  Blocks = {1, 2, 3, 4}
  Media <- MCMedia
  INPUT_BUF_SIZE = 2
  UART_TX_BUF_SIZE = 2
  UINT = 4
  FIFO = 3
  Readers = {"r1", "r2"}
  Writers = {"w1", "w2"}
  Printers = {"k1"}
  Letters = {"a"}
  Workloads <- MCWorkloads
  NCPU = 2
INVARIANTS DeviceOwnsItsRequests ReadersAwake OutputInOrder NoOverrun
PROPERTIES TransferDone RefinesLineInput EofOnce AllServed
CHECK_DEADLOCK FALSE
