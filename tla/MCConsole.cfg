SPECIFICATION Spec
CONSTANTS
  Readers = {r1}
  Writers = {w1}
  Letters = {a}
  Typed <- MCTyped
  INPUT_BUF_SIZE = 2
  UART_TX_BUF_SIZE = 2
  UintMod = 4
  Start = 3
  MaxCount = 2
  MaxChars = 4
  Killable = {r1}
  Nobody = Nobody
INVARIANT
  NoLostWakeup
PROPERTY
  QueuesInOrder
CHECK_DEADLOCK FALSE
