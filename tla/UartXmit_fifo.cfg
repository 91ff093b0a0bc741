SPECIFICATION Spec
CONSTANTS
    Char = {a, b}
    UART_XMIT_SIZE = 4
    tx_loadsz = 2
    WAKEUP_CHARS = 2
    Writers = {w1}
    Echoers = {}
    MaxWrite = 2
    BugTxen = FALSE
    Is16C950 = FALSE
PROPERTIES FifoSpec
